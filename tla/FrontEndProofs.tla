--------------------------- MODULE FrontEndProofs ---------------------------
(***************************************************************************)
(* Proofs about the front end, for every program, memory size, buffer      *)
(* depth, address space and set of targets, with and without the in-cycle  *)
(* launch of an execute redirect: the fetch stage alone with any memory    *)
(* that answers in order, the fetch stage on its one-cycle memory, and     *)
(* fetch, memory and decode, which implement the instruction stream.       *)
(***************************************************************************)

EXTENDS FrontEnd, SequenceTheorems, TLAPS

(***************************************************************************)
(* The fetch stage alone. The invariant FetchInv is inductive as it        *)
(* stands: the room bound needs StaleExact to know that a response only    *)
(* comes while a read is in flight, and StaleExact needs nothing but the   *)
(* types.                                                                  *)
(***************************************************************************)

FetchInv == FetchTypeOK /\ RoomInv /\ StaleExact

Read == [addr: Addr, live: BOOLEAN]
Redirects == [kind: {"none", "pred", "exec"}, addr: Addr]

(***************************************************************************)
(* Address arithmetic stays within the address space.                      *)
(***************************************************************************)
LEMMA ModRange ==
  ASSUME NEW a \in Nat, NEW n \in Nat \ {0}
  PROVE  a % n \in 0 .. n - 1
OBVIOUS

\* The block of an address, and its upper word, are addresses.
LEMMA BlockRange ==
  ASSUME NEW a \in Addr
  PROVE  /\ Block(a) \in Addr
         /\ Block(a) + 4 \in Addr
BY FetchAssumption DEF Addr, Block

\* So is the block the memory really reads for an address.
LEMMA MemBlockRange ==
  ASSUME NEW a \in Addr
  PROVE  /\ MemBlock(a) \in Addr
         /\ MemBlock(a) + 4 \in Addr
<1>1. a % IMEM_BYTES \in 0 .. IMEM_BYTES - 1
  BY FetchAssumption, ModRange DEF Addr
<1>2. a % IMEM_BYTES \in Addr
  BY <1>1, FetchAssumption DEF Addr
<1> QED
  BY <1>2, BlockRange DEF MemBlock

\* The two PC adders stay in the address space.
LEMMA NextBlockRange ==
  ASSUME pc_q \in Addr
  PROVE  /\ pc_next_block \in Addr
         /\ pc_next_block2 \in Addr
<1>1. Block(pc_q) + 8 \in Nat /\ Block(pc_q) + 16 \in Nat
  BY BlockRange DEF Addr
<1> QED
  BY <1>1, FetchAssumption, ModRange DEF pc_next_block, pc_next_block2, Addr

(***************************************************************************)
(* The memory's answer is typed, and comes only while a read is in flight. *)
(***************************************************************************)
LEMMA AnswerFacts ==
  ASSUME FetchInv, NEW m \in MemAnswers
  PROVE  /\ m.ready \in BOOLEAN /\ m.rvalid \in BOOLEAN
         /\ m.rdata \in Addr /\ m.rdata + 4 \in Addr
         /\ rsp_cap(m) => inflight_q >= 1
<1>1. /\ m.ready \in BOOLEAN /\ m.rvalid \in BOOLEAN
      /\ m.rdata = IF owed = << >> THEN 0 ELSE MemBlock(Head(owed).addr)
      /\ m.rvalid => owed # << >>
  BY DEF MemAnswers
<1>2. m.rdata \in Addr /\ m.rdata + 4 \in Addr
  <2>1. CASE owed = << >>
    BY <1>1, <2>1, FetchAssumption DEF Addr
  <2>2. CASE owed # << >>
    <3>1. Head(owed) \in Read
      BY <2>2, HeadTailProperties DEF FetchInv, FetchTypeOK, Read
    <3> QED
      BY <1>1, <2>2, <3>1, MemBlockRange DEF Read
  <2> QED
    BY <2>1, <2>2
<1>3. rsp_cap(m) => inflight_q >= 1
  BY <1>1 DEF FetchInv, FetchTypeOK, StaleExact, rsp_cap
<1> QED
  BY <1>1, <1>2, <1>3

(***************************************************************************)
(* While the room bound holds, `available` does not wrap.                  *)
(***************************************************************************)
LEMMA AvailableExact ==
  ASSUME FetchInv
  PROVE  /\ available = BUF_DEPTH - Len(buf) - 2 * inflight_q
         /\ (BUF_DEPTH - 2 * inflight_q) % 32 = BUF_DEPTH - 2 * inflight_q
<1>1. Len(buf) \in Nat /\ inflight_q \in 0 .. 2 /\ BUF_DEPTH \in 2 .. 16
  BY FetchAssumption DEF FetchInv, FetchTypeOK
<1> QED
  BY <1>1 DEF FetchInv, RoomInv, available, reserved

(***************************************************************************)
(* A launch finds a second in-flight slot free, and room for two words.    *)
(***************************************************************************)
LEMMA LaunchFacts ==
  ASSUME FetchInv, NEW m \in MemAnswers, NEW r \in Redirects, launch(r, m)
  PROVE  /\ inflight_q < 2
         /\ redirect(r) => 2 * inflight_q + 2 <= BUF_DEPTH
         /\ ~redirect(r) => Len(buf) + 2 * inflight_q + 2 <= BUF_DEPTH
         /\ ~redirect(r) => ~pc_fault
         /\ issue_addr(r) \in Addr
<1>1. Len(buf) \in Nat /\ inflight_q \in 0 .. 2 /\ BUF_DEPTH \in 2 .. 16
  BY FetchAssumption DEF FetchInv, FetchTypeOK
<1>2. inflight_q < 2 /\ available_issue(r) >= 2 /\ (incycle_launch(r) \/ ~pc_fault)
  BY DEF launch, bus_issue
<1>3. ~redirect(r) => ~incycle_launch(r)
  BY DEF redirect, incycle_launch, Redirects
<1>4. issue_addr(r) \in Addr
  BY NextBlockRange DEF issue_addr, Redirects, FetchInv, FetchTypeOK
<1> QED
  BY <1>1, <1>2, <1>3, <1>4, AvailableExact DEF available_issue

(***************************************************************************)
(* Killing a sequence of reads keeps their addresses and their number.     *)
(***************************************************************************)
Killed(s) == [i \in 1 .. Len(s) |-> [addr |-> s[i].addr, live |-> FALSE]]

\* Killing the reads in flight keeps their number and leaves none alive.
LEMMA KilledProperties ==
  ASSUME NEW s \in Seq(Read)
  PROVE  /\ Killed(s) \in Seq(Read)
         /\ Len(Killed(s)) = Len(s)
         /\ \A i \in 1 .. Len(s) : Killed(s)[i].live = FALSE
<1>1. Len(s) \in Nat /\ \A i \in 1 .. Len(s) : s[i] \in Read
  BY ElementOfSeq, LenProperties
<1>2. Killed(s) \in [1 .. Len(s) -> Read]
  BY <1>1 DEF Killed, Read
<1>3. Killed(s) \in Seq(Read)
  BY <1>1, <1>2, SeqDef
<1>4. DOMAIN Killed(s) = 1 .. Len(s)
  BY DEF Killed
<1>5. Len(Killed(s)) = Len(s)
  BY <1>1, <1>3, <1>4, LenProperties
<1> QED
  BY <1>3, <1>5 DEF Killed

(***************************************************************************)
(* Dropping the head of the reads owed when a response is accepted.        *)
(***************************************************************************)
LEMMA AcceptProperties ==
  ASSUME NEW s \in Seq(Read), NEW b \in BOOLEAN, b => Len(s) >= 1
  PROVE  LET rest == IF b THEN Tail(s) ELSE s
             cap  == IF b THEN 1 ELSE 0
         IN  /\ rest \in Seq(Read)
             /\ Len(rest) = Len(s) - cap
             /\ \A i \in 1 .. Len(rest) : rest[i] = s[i + cap]
<1>1. Len(s) \in Nat
  BY LenProperties
<1>2. CASE b
  <2>1. s # << >>
    BY <1>1, <1>2
  <2>2. /\ Tail(s) \in Seq(Read) /\ Len(Tail(s)) = Len(s) - 1
        /\ \A i \in 1 .. Len(Tail(s)) : Tail(s)[i] = s[i + 1]
    BY <2>1, HeadTailProperties
  <2> QED
    BY <1>2, <2>2
<1>3. CASE ~b
  BY <1>1, <1>3
<1> QED
  BY <1>2, <1>3

(***************************************************************************)
(* The bus registers: typed, and the staleness count exact, after any      *)
(* cycle.                                                                  *)
(***************************************************************************)
LEMMA BusUpdateFacts ==
  ASSUME FetchInv, NEW m \in MemAnswers, NEW r \in Redirects, BusUpdate(r, m)
  PROVE  /\ inflight_q' \in 0 .. 2
         /\ req_pc_q' \in Addr
         /\ redir_launched_q' \in BOOLEAN
         /\ stale_q' \in 0 .. 2
         /\ owed' \in Seq(Read)
         /\ StaleExact'
<1> DEFINE cap == IF rsp_cap(m) THEN 1 ELSE 0
           rest == IF rsp_cap(m) THEN Tail(owed) ELSE owed
           kept == IF redirect(r) THEN Killed(rest) ELSE rest
           new == [addr |-> issue_addr(r), live |-> TRUE]
<1>1. /\ inflight_q \in 0 .. 2 /\ stale_q \in 0 .. 2 /\ req_pc_q \in Addr
      /\ owed \in Seq(Read) /\ Len(owed) = inflight_q /\ stale_q <= inflight_q
      /\ \A i \in 1 .. Len(owed) : owed[i].live <=> i > stale_q
  BY DEF FetchInv, FetchTypeOK, StaleExact, Read
<1>2. /\ rsp_cap(m) \in BOOLEAN
      /\ rsp_cap(m) => inflight_q >= 1
  BY AnswerFacts DEF rsp_cap
<1>3. inflight_q' = inflight_q + (IF launch(r, m) THEN 1 ELSE 0) - cap
  BY DEF BusUpdate, next_inflight
<1>4. inflight_q' \in 0 .. 2
  BY <1>1, <1>2, <1>3, LaunchFacts
<1>5. req_pc_q' \in Addr
  BY <1>1, LaunchFacts DEF BusUpdate
<1>6. redir_launched_q' \in BOOLEAN
  BY DEF BusUpdate
<1>7. stale_q' \in 0 .. 2 /\ stale_q' <= inflight_q - cap
  BY <1>1, <1>2 DEF BusUpdate, next_stale
<1>8. /\ rest \in Seq(Read)
      /\ Len(rest) = inflight_q - cap
      /\ \A i \in 1 .. Len(rest) : rest[i] = owed[i + cap]
  BY <1>1, <1>2, AcceptProperties
<1>9. cap \in 0 .. 1 /\ (rsp_cap(m) <=> cap = 1)
  BY <1>2
<1>10. owed' = IF launch(r, m) THEN Append(kept, new) ELSE kept
  BY DEF BusUpdate, next_owed, Killed
<1> HIDE DEF rest, cap
<1>11. /\ kept \in Seq(Read)
       /\ Len(kept) = inflight_q - cap
       /\ \A i \in 1 .. Len(kept) : kept[i].live <=> i > stale_q'
  <2>1. CASE redirect(r)
    <3>1. stale_q' = inflight_q - cap
      BY <2>1 DEF BusUpdate, next_stale, cap
    <3>2. /\ kept \in Seq(Read) /\ Len(kept) = Len(rest)
          /\ \A i \in 1 .. Len(rest) : kept[i].live = FALSE
      BY <1>8, <2>1, KilledProperties
    <3>3. \A i \in 1 .. Len(rest) : ~(i > stale_q')
      BY <1>1, <1>8, <1>9, <3>1
    <3> QED
      BY <1>8, <3>2, <3>3
  <2>2. CASE ~redirect(r)
    <3>1. \A i \in 1 .. Len(rest) : rest[i].live <=> i + cap > stale_q
      <4> TAKE i \in 1 .. Len(rest)
      <4>1. i + cap \in 1 .. Len(owed)
        BY <1>1, <1>8, <1>9
      <4>2. owed[i + cap].live <=> i + cap > stale_q
        BY <1>1, <4>1
      <4> QED
        BY <1>8, <4>2
    <3>2. stale_q' = IF cap = 1 /\ stale_q # 0 THEN stale_q - 1 ELSE stale_q
      BY <1>9, <2>2 DEF BusUpdate, next_stale
    <3>3. \A i \in 1 .. Len(rest) : i + cap > stale_q <=> i > stale_q'
      BY <1>1, <1>8, <1>9, <3>2
    <3> QED
      BY <1>8, <2>2, <3>1, <3>3
  <2> QED
    BY <2>1, <2>2
<1> HIDE DEF kept, new
<1>12. /\ owed' \in Seq(Read)
       /\ Len(owed') = inflight_q'
       /\ \A i \in 1 .. Len(owed') : owed'[i].live <=> i > stale_q'
  <2>1. CASE launch(r, m)
    <3>1. new \in Read /\ new.live = TRUE
      BY <2>1, LaunchFacts DEF new, Read
    <3>2. /\ owed' \in Seq(Read) /\ Len(owed') = Len(kept) + 1
          /\ \A i \in 1 .. Len(kept) : owed'[i] = kept[i]
          /\ owed'[Len(kept) + 1] = new
      BY <1>10, <1>11, <2>1, <3>1, AppendProperties
    <3>3. Len(owed') = inflight_q'
      BY <1>1, <1>3, <1>9, <1>11, <2>1, <3>2
    <3>4. Len(kept) + 1 > stale_q'
      BY <1>1, <1>7, <1>9, <1>11
    <3>5. ASSUME NEW i \in 1 .. Len(owed')
          PROVE  owed'[i].live <=> i > stale_q'
      <4>1. i \in 1 .. Len(kept) \/ i = Len(kept) + 1
        BY <1>1, <1>9, <1>11, <3>2
      <4>2. CASE i \in 1 .. Len(kept)
        BY <1>11, <3>2, <4>2
      <4>3. CASE i = Len(kept) + 1
        BY <3>1, <3>2, <3>4, <4>3
      <4> QED
        BY <4>1, <4>2, <4>3
    <3> QED
      BY <3>2, <3>3, <3>5
  <2>2. CASE ~launch(r, m)
    BY <1>1, <1>3, <1>9, <1>10, <1>11, <2>2
  <2> QED
    BY <2>1, <2>2
<1>13. stale_q' <= inflight_q'
  BY <1>1, <1>3, <1>7, <1>9
<1> QED
  BY <1>4, <1>5, <1>6, <1>7, <1>12, <1>13 DEF StaleExact

(***************************************************************************)
(* What a cycle pushes: two words at most and only for a response; a fault *)
(* entry without a response only while nothing is in flight and there is   *)
(* room for it.                                                            *)
(***************************************************************************)
LEMMA PushFacts ==
  ASSUME FetchInv, NEW m \in MemAnswers
  PROVE  /\ pushes(m) \in Seq(Entry)
         /\ Len(pushes(m)) <= 2
         /\ ~rsp_cap(m) =>
              \/ Len(pushes(m)) = 0
              \/ Len(pushes(m)) = 1 /\ pc_fault /\ available >= 1
<1>1. /\ req_pc_q \in Addr /\ pc_q \in Addr /\ rsp_high_pc \in Addr /\ 0 \in Addr
      /\ m.rdata \in Addr /\ m.rdata + 4 \in Addr
  <2>1. req_pc_q \in Addr /\ pc_q \in Addr
    BY DEF FetchInv, FetchTypeOK
  <2>2. rsp_high_pc \in Addr
    BY <2>1, BlockRange DEF rsp_high_pc
  <2>3. 0 \in Addr
    BY FetchAssumption DEF Addr
  <2> QED
    BY <2>1, <2>2, <2>3, AnswerFacts
<1>2. /\ \A pc, w \in Addr : DataEntry(pc, w) \in Entry
      /\ \A pc \in Addr : FaultEntry(pc) \in Entry
  BY <1>1 DEF DataEntry, FaultEntry, Entry
<1>3. CASE do_rsp(m)
  <2>1. rsp_cap(m)
    BY <1>3 DEF do_rsp
  <2>2. \/ pushes(m) = <<FaultEntry(req_pc_q)>>
        \/ pushes(m) = <<DataEntry(req_pc_q, m.rdata), DataEntry(rsp_high_pc, m.rdata + 4)>>
        \/ pushes(m) = <<DataEntry(req_pc_q, m.rdata + 4)>>
    BY <1>3 DEF pushes
  <2>3. \A e, f \in Entry : /\ <<e>> \in Seq(Entry) /\ Len(<<e>>) = 1
                            /\ <<e, f>> \in Seq(Entry) /\ Len(<<e, f>>) = 2
    OBVIOUS
  <2>4. /\ FaultEntry(req_pc_q) \in Entry /\ DataEntry(req_pc_q, m.rdata) \in Entry
        /\ DataEntry(rsp_high_pc, m.rdata + 4) \in Entry
        /\ DataEntry(req_pc_q, m.rdata + 4) \in Entry
    BY <1>1, <1>2
  <2>5. CASE pushes(m) = <<FaultEntry(req_pc_q)>>
    BY <2>1, <2>3, <2>4, <2>5
  <2>6. CASE pushes(m) = <<DataEntry(req_pc_q, m.rdata), DataEntry(rsp_high_pc, m.rdata + 4)>>
    BY <2>1, <2>3, <2>4, <2>6
  <2>7. CASE pushes(m) = <<DataEntry(req_pc_q, m.rdata + 4)>>
    BY <2>1, <2>3, <2>4, <2>7
  <2> QED
    BY <2>2, <2>5, <2>6, <2>7
<1>4. CASE ~do_rsp(m) /\ fault_push(m)
  <2>1. pushes(m) = <<FaultEntry(pc_q)>> /\ pc_fault /\ available >= 1
    BY <1>4 DEF pushes, fault_push
  <2> QED
    BY <1>1, <1>2, <2>1
<1>5. CASE ~do_rsp(m) /\ ~fault_push(m)
  <2>1. pushes(m) = << >>
    BY <1>5 DEF pushes
  <2> QED
    BY <2>1
<1> QED
  BY <1>3, <1>4, <1>5

(***************************************************************************)
(* Dropping at most as many entries as there are leaves a sequence.        *)
(***************************************************************************)
LEMMA DropProperties ==
  ASSUME NEW s \in Seq(Entry), NEW n \in 0 .. 2
  PROVE  Drop(s, n) \in Seq(Entry) /\ Len(Drop(s, n)) <= Len(s)
<1>1. Len(s) \in Nat /\ \A i \in 1 .. Len(s) : s[i] \in Entry
  BY ElementOfSeq, LenProperties
<1>2. \A i \in n + 1 .. Len(s) : s[i] \in Entry
  BY <1>1
<1> QED
  BY <1>1, <1>2, SubSeqProperties DEF Drop

\* A redirect cycle preserves the invariant.
LEMMA RedirectStep ==
  ASSUME FetchInv, NEW r \in Redirects, NEW m \in MemAnswers,
         redirect(r), Redirect(r, m)
  PROVE  FetchInv'
<1>1. BusUpdate(r, m) /\ pc_q' \in Addr /\ buf' = << >>
  BY DEF Redirect, Redirects
<1>2. buf' \in Seq(Entry) /\ Len(buf') = 0
  BY <1>1, EmptySeq
<1>3. FetchTypeOK' /\ StaleExact'
  BY <1>1, <1>2, BusUpdateFacts DEF FetchTypeOK, Read
<1>4. RoomInv'
  <2> DEFINE n == Len(buf)
             n2 == Len(buf')
             l == IF launch(r, m) THEN 1 ELSE 0
             c == IF rsp_cap(m) THEN 1 ELSE 0
  <2>1. n \in Nat /\ n2 = 0
    BY <1>2, LenProperties DEF FetchInv, FetchTypeOK
  <2>2. inflight_q \in 0 .. 2 /\ BUF_DEPTH \in 2 .. 16 /\ l \in 0 .. 1 /\ c \in 0 .. 1
    BY FetchAssumption DEF FetchInv, FetchTypeOK
  <2>3. n + 2 * inflight_q <= BUF_DEPTH
    BY DEF FetchInv, RoomInv
  <2>4. inflight_q' = inflight_q + l - c
    BY <1>1 DEF BusUpdate, next_inflight
  <2>5. l = 1 => 2 * inflight_q + 2 <= BUF_DEPTH
    BY LaunchFacts
  <2> HIDE DEF n, n2, l, c
  <2>6. n2 + 2 * inflight_q' <= BUF_DEPTH
    BY <2>1, <2>2, <2>3, <2>4, <2>5
  <2> QED
    BY <2>6 DEF RoomInv, n2
<1> QED
  BY <1>3, <1>4 DEF FetchInv

\* An ordinary cycle preserves the invariant.
LEMMA AdvanceStep ==
  ASSUME FetchInv, NEW m \in MemAnswers, NEW d \in Demands, Advance(m, d)
  PROVE  FetchInv'
<1> DEFINE r == NoRedirect
<1>1. r \in Redirects /\ ~redirect(r)
  BY FetchAssumption DEF NoRedirect, Redirects, redirect, Addr
<1>2. /\ BusUpdate(r, m)
      /\ pc_q' = next_pc(m)
      /\ buf' = Drop(buf, buf_pop_cnt(d)) \o pushes(m)
  BY DEF Advance
<1> HIDE DEF r
<1>3. pc_q' \in Addr
  BY <1>2, NextBlockRange DEF next_pc, FetchInv, FetchTypeOK
<1>4. buf_pop_cnt(d) \in 0 .. 2
  BY DEF buf_pop_cnt
<1>5. /\ Drop(buf, buf_pop_cnt(d)) \in Seq(Entry)
      /\ Len(Drop(buf, buf_pop_cnt(d))) <= Len(buf)
  BY <1>4, DropProperties DEF FetchInv, FetchTypeOK
<1>6. /\ buf' \in Seq(Entry)
      /\ Len(buf') <= Len(buf) + Len(pushes(m))
  <2>1. /\ buf' \in Seq(Entry)
        /\ Len(buf') = Len(Drop(buf, buf_pop_cnt(d))) + Len(pushes(m))
    BY <1>2, <1>5, PushFacts, ConcatProperties
  <2>2. Len(buf) \in Nat /\ Len(pushes(m)) \in Nat /\ Len(Drop(buf, buf_pop_cnt(d))) \in Nat
    BY <1>5, PushFacts, LenProperties DEF FetchInv, FetchTypeOK
  <2> QED
    BY <1>5, <2>1, <2>2
<1>7. FetchTypeOK' /\ StaleExact'
  BY <1>1, <1>2, <1>3, <1>6, BusUpdateFacts DEF FetchTypeOK, Read
<1>8. RoomInv'
  <2> DEFINE n == Len(buf)
             n2 == Len(buf')
             p == Len(pushes(m))
             l == IF launch(r, m) THEN 1 ELSE 0
             c == IF rsp_cap(m) THEN 1 ELSE 0
  <2>1. n \in Nat /\ n2 \in Nat /\ p \in Nat
    BY <1>6, PushFacts, LenProperties DEF FetchInv, FetchTypeOK
  <2>2. inflight_q \in 0 .. 2 /\ BUF_DEPTH \in 2 .. 16 /\ l \in 0 .. 1 /\ c \in 0 .. 1
    BY FetchAssumption DEF FetchInv, FetchTypeOK
  <2>3. n2 <= n + p /\ p <= 2 /\ n + 2 * inflight_q <= BUF_DEPTH
    BY <1>6, PushFacts DEF FetchInv, RoomInv
  <2>4. inflight_q' = inflight_q + l - c
    BY <1>2 DEF BusUpdate, next_inflight
  <2>5. l = 1 => n + 2 * inflight_q + 2 <= BUF_DEPTH /\ ~pc_fault
    BY <1>1, LaunchFacts
  <2>6. c = 0 => \/ p = 0
                 \/ p = 1 /\ pc_fault /\ BUF_DEPTH - n - 2 * inflight_q >= 1
    BY PushFacts, AvailableExact
  <2> HIDE DEF n, n2, p, l, c
  <2>7. n2 + 2 * inflight_q' <= BUF_DEPTH
    BY <2>1, <2>2, <2>3, <2>4, <2>5, <2>6
  <2> QED
    BY <2>7 DEF RoomInv, n2
<1> QED
  BY <1>7, <1>8 DEF FetchInv

\* It holds after reset.
LEMMA FetchStarts == FetchInit => FetchInv
<1> SUFFICES ASSUME FetchInit PROVE FetchInv
  OBVIOUS
<1>1. FetchTypeOK
  <2>1. BOOT_ADDR \in Addr /\ 0 \in Addr
    BY FetchAssumption DEF Addr
  <2>2. << >> \in Seq(Entry) /\ << >> \in Seq(Read)
    BY EmptySeq
  <2>3. 0 \in 0 .. 2
    OBVIOUS
  <2> QED
    BY <2>1, <2>2, <2>3, Zenon DEF FetchInit, FetchTypeOK, Read
<1>2. RoomInv /\ StaleExact
  BY FetchAssumption DEF FetchInit, RoomInv, StaleExact
<1> QED
  BY <1>1, <1>2 DEF FetchInv

(***************************************************************************)
(* The invariant holds of the fetch stage with any in-order memory.        *)
(***************************************************************************)
THEOREM FetchInvariant == FetchSpec => []FetchInv
<1>1. FetchInit => FetchInv
  BY FetchStarts
<1>2. FetchInv /\ [FetchNext]_fetchVars => FetchInv'
  <2> SUFFICES ASSUME FetchInv, [FetchNext]_fetchVars PROVE FetchInv'
    OBVIOUS
  <2>1. CASE ExecRedirect
    <3>1. PICK t \in Targets, m \in MemAnswers : Redirect(ExecRedirectTo(t), m)
      BY <2>1 DEF ExecRedirect
    <3>2. ExecRedirectTo(t) \in Redirects /\ redirect(ExecRedirectTo(t))
      BY FetchAssumption DEF ExecRedirectTo, Redirects, redirect, Addr
    <3> QED
      BY <3>1, <3>2, RedirectStep
  <2>2. CASE PredRedirect
    <3>1. PICK t \in Targets, m \in MemAnswers : Redirect(PredRedirectTo(t), m)
      BY <2>2 DEF PredRedirect
    <3>2. PredRedirectTo(t) \in Redirects /\ redirect(PredRedirectTo(t))
      BY FetchAssumption DEF PredRedirectTo, Redirects, redirect, Addr
    <3> QED
      BY <3>1, <3>2, RedirectStep
  <2>3. CASE Run
    BY <2>3, AdvanceStep DEF Run
  <2>4. CASE UNCHANGED fetchVars
    BY <2>4 DEF fetchVars, FetchInv, FetchTypeOK, RoomInv, StaleExact
  <2> QED
    BY <2>1, <2>2, <2>3, <2>4 DEF FetchNext
<1> QED
  BY <1>1, <1>2, PTL DEF FetchSpec

(***************************************************************************)
(* The assertion "reserved <= 8" of fetch_stage.sv, for every memory       *)
(* latency: the issue gate can never be fooled by a wrapped `available`.   *)
(***************************************************************************)
THEOREM BufferRoom == FetchSpec => []RoomInv
BY FetchInvariant, PTL DEF FetchInv

(***************************************************************************)
(* A response is dropped iff its path was killed by a redirect.            *)
(***************************************************************************)
THEOREM StaleCountExact == FetchSpec => []StaleExact
BY FetchInvariant, PTL DEF FetchInv

(***************************************************************************)
(* Fetch never refuses a response it is owed.                              *)
(***************************************************************************)
THEOREM NeverRefuses == FetchSpec => []ResponseNeverRefused
<1>1. FetchInv => ResponseNeverRefused
  <2> SUFFICES ASSUME FetchInv, inflight_q > 0 PROVE rready
    BY DEF ResponseNeverRefused
  <2>1. Len(buf) \in Nat /\ inflight_q \in 0 .. 2 /\ BUF_DEPTH \in 2 .. 16
    BY FetchAssumption DEF FetchInv, FetchTypeOK
  <2> QED
    BY <2>1 DEF FetchInv, RoomInv, rready
<1> QED
  BY <1>1, FetchInvariant, PTL

(***************************************************************************)
(* On the one-cycle memory none of the properties is inductive alone.      *)
(* UnitInv adds to FetchInv what makes the single register req_pc_q        *)
(* enough: because fetch never refuses an answer, the skid FIFO of the     *)
(* memory stays empty, so at most one read is owed, it is the one req_pc_q *)
(* names, a redirect leaves no stale read behind, and redir_launched_q is  *)
(* up exactly while the read of a redirect's own cycle is the one in       *)
(* flight.                                                                 *)
(***************************************************************************)

ImemWords == {b \in 0 .. IMEM_BYTES - 1 : b % 8 = 0}

\* The memory holds its image, and no answer waits in the skid FIFO.
MemInv ==
  /\ i_mem = [b \in ImemWords |-> [l \in {0} |-> b]]
  /\ i_skid = << >>
  /\ i_rif \in BOOLEAN
  /\ i_rif => i_rd[0] = MemBlock(req_pc_q)

\* The read that lands now is the only one owed, alive, and at req_pc_q.
OwedInv ==
  /\ stale_q = 0
  /\ owed = IF i_rif THEN <<[addr |-> req_pc_q, live |-> TRUE]>> ELSE << >>
  /\ redir_launched_q => i_rif /\ req_pc_q = pc_q /\ buf = << >>

\* An entry says the truth about the word at its PC.
Stamped(e) ==
  IF e.fault THEN OutOfRange(e.pc)
  ELSE ~OutOfRange(e.pc) /\ e.word = Word(e.pc)

\* The entries follow each other, and pc follows the last of them.
Chain(s, pc) ==
  \A i \in 1 .. Len(s) :
    EntrySucc(s[i]) = IF i < Len(s) THEN s[i + 1].pc ELSE pc

\* The PC a chain that leads to pc begins with.
FirstPc(s, pc) == IF Len(s) > 0 THEN s[1].pc ELSE pc

\* Where the stream goes on behind the buffer.
Behind == IF i_rif THEN req_pc_q ELSE Frontier

StreamInv ==
  /\ \A i \in 1 .. Len(buf) : Stamped(buf[i])
  /\ Chain(buf, Behind)
  /\ i_rif => Frontier = (Block(req_pc_q) + 8) % ADDR_SPACE

UnitInv == FetchInv /\ MemInv /\ OwedInv /\ StreamInv

-----------------------------------------------------------------------------
(***************************************************************************)
(* Address arithmetic.                                                     *)
(***************************************************************************)
\* The word the memory reads for an address is one of its words.
LEMMA MemBlockWord ==
  ASSUME NEW a \in Addr
  PROVE  /\ MemBlock(a) \in ImemWords
         /\ ~OutOfRange(a) => MemBlock(a) = Block(a)
<1>1. a \in Nat /\ IMEM_BYTES \in Nat \ {0} /\ IMEM_BYTES % 8 = 0
  BY FetchAssumption DEF Addr
<1>2. a % IMEM_BYTES \in 0 .. IMEM_BYTES - 1
  BY <1>1, ModRange
<1>3. MemBlock(a) \in ImemWords
  BY <1>1, <1>2 DEF MemBlock, Block, ImemWords
<1>4. a < IMEM_BYTES => a % IMEM_BYTES = a
  BY <1>1, Z3
<1> QED
  BY <1>1, <1>3, <1>4 DEF MemBlock, OutOfRange

\* The two words of an implemented block: the lower one is the block itself,
\* the upper one is still implemented and closes the block.
LEMMA WordFacts ==
  ASSUME NEW a \in Addr
  PROVE  /\ a % 8 < 4 => Word(a) = Block(a) /\ (Word(a) + 4) % ADDR_SPACE = Block(a) + 4
         /\ ~(a % 8 < 4) => Word(a) = Block(a) + 4
         /\ Word(Block(a) + 4) = Block(a) + 4
         /\ ~OutOfRange(a) => ~OutOfRange(Block(a) + 4)
<1>1. a \in Nat /\ a < ADDR_SPACE /\ ADDR_SPACE \in Nat /\ ADDR_SPACE % 8 = 0
  BY FetchAssumption DEF Addr
<1>2. IMEM_BYTES \in Nat /\ IMEM_BYTES % 8 = 0
  BY FetchAssumption
<1>3. a % 8 < 4 => Word(a) = Block(a)
  BY <1>1 DEF Word, Block
<1>4. ~(a % 8 < 4) => Word(a) = Block(a) + 4
  BY <1>1 DEF Word, Block
<1>5. Word(Block(a) + 4) = Block(a) + 4
  BY <1>1 DEF Word, Block
<1>6. ~OutOfRange(a) => ~OutOfRange(Block(a) + 4)
  BY <1>1, <1>2 DEF OutOfRange, Block
<1>7. Block(a) + 4 \in Nat /\ Block(a) + 4 < ADDR_SPACE
  BY <1>1 DEF Block
<1>8. (Block(a) + 4) % ADDR_SPACE = Block(a) + 4
  BY <1>1, <1>7, Z3
<1> QED
  BY <1>3, <1>4, <1>5, <1>6, <1>8

\* Two blocks on, in one step or in two, across the wrap of the adder.
LEMMA TwoBlocks ==
  ASSUME NEW a \in Addr
  PROVE  (Block((Block(a) + 8) % ADDR_SPACE) + 8) % ADDR_SPACE
           = (Block(a) + 16) % ADDR_SPACE
<1> DEFINE b == Block(a)
<1>1. /\ b \in Nat /\ b % 8 = 0 /\ b + 8 <= ADDR_SPACE
      /\ ADDR_SPACE \in Nat \ {0} /\ ADDR_SPACE % 8 = 0
  BY FetchAssumption DEF Addr, Block
<1> HIDE DEF b
<1>2. CASE b + 8 < ADDR_SPACE
  <2>1. (b + 8) % ADDR_SPACE = b + 8
    BY <1>1, <1>2, Z3
  <2>2. Block(b + 8) = b + 8
    BY <1>1 DEF Block
  <2> QED
    BY <1>1, <2>1, <2>2 DEF b
<1>3. CASE b + 8 = ADDR_SPACE
  <2>1. (b + 8) % ADDR_SPACE = 0
    BY <1>1, <1>3, Z3
  <2>2. Block(0) = 0
    BY DEF Block
  <2>3. (b + 16) % ADDR_SPACE = 8 % ADDR_SPACE
    <3>1. b + 16 = ADDR_SPACE + 8
      BY <1>1, <1>3
    <3>2. (ADDR_SPACE + 8) % ADDR_SPACE = 8 % ADDR_SPACE
      BY <1>1, Z3
    <3> QED
      BY <3>1, <3>2
  <2> QED
    BY <2>1, <2>2, <2>3 DEF b
<1> QED
  BY <1>1, <1>2, <1>3

-----------------------------------------------------------------------------
(***************************************************************************)
(* The memory port.                                                        *)
(***************************************************************************)
\* What the memory tells fetch, with the data it does not look at left out.
Answer ==
  [ready |-> TRUE, rvalid |-> i_rif,
   rdata |-> IF i_rif THEN MemBlock(req_pc_q) ELSE 0]

\* With a read in flight fetch takes the answer; the memory is always ready.
LEMMA PortFacts ==
  ASSUME UnitInv
  PROVE  /\ i_rif \in BOOLEAN
         /\ inflight_q = IF i_rif THEN 1 ELSE 0
         /\ i_rif => rready
         /\ imem_rsp.ready = TRUE /\ imem_rsp.rvalid = i_rif
         /\ i_rif => imem_rsp.rdata = MemBlock(req_pc_q)
<1>1. i_rif \in BOOLEAN /\ i_skid = << >> /\ (i_rif => i_rd[0] = MemBlock(req_pc_q))
  BY DEF UnitInv, MemInv
<1>2. inflight_q = IF i_rif THEN 1 ELSE 0
  <2>1. Len(owed) = inflight_q
    BY DEF UnitInv, FetchInv, StaleExact
  <2>2. owed = IF i_rif THEN <<[addr |-> req_pc_q, live |-> TRUE]>> ELSE << >>
    BY DEF UnitInv, OwedInv
  <2> QED
    BY <1>1, <2>1, <2>2
<1>3. i_rif => rready
  <2>1. Len(buf) \in Nat /\ inflight_q \in 0 .. 2 /\ BUF_DEPTH \in 2 .. 16
    BY FetchAssumption DEF UnitInv, FetchInv, FetchTypeOK
  <2>2. Len(buf) + 2 * inflight_q <= BUF_DEPTH
    BY DEF UnitInv, FetchInv, RoomInv
  <2> QED
    BY <1>2, <2>1, <2>2 DEF rready
<1>4. imem!rsp_rvalid <=> i_rif
  BY <1>1 DEF imem!rsp_rvalid, imem!land
<1>5. imem!rsp_wready(rready)
  <2>1. Len(i_skid) = 0
    BY <1>1
  <2>2. ~imem!skid_pop(rready)
    BY <1>1 DEF imem!skid_pop
  <2>3. ~imem!land_stored(rready)
    BY <1>1, <1>3 DEF imem!land_stored, imem!land_consumed, imem!land
  <2> QED
    BY <2>1, <2>2, <2>3 DEF imem!rsp_wready, imem!new_count
<1>6. imem!rsp_rdata = i_rd
  BY <1>1 DEF imem!rsp_rdata
<1> QED
  BY <1>1, <1>2, <1>3, <1>4, <1>5, <1>6 DEF imem_rsp

\* The answer is one that FetchStage expects of its environment.
LEMMA AnswerExpected ==
  ASSUME UnitInv
  PROVE  /\ Answer \in MemAnswers
         /\ rsp_cap(Answer) <=> i_rif
         /\ do_rsp(Answer) <=> i_rif
<1>1. i_rif \in BOOLEAN /\ (i_rif => rready) /\ stale_q = 0
  BY PortFacts DEF UnitInv, OwedInv
<1>2. owed = IF i_rif THEN <<[addr |-> req_pc_q, live |-> TRUE]>> ELSE << >>
  BY DEF UnitInv, OwedInv
<1>3. Answer \in MemAnswers
  <2>1. CASE i_rif = TRUE
    <3>1. owed # << >> /\ Head(owed) = [addr |-> req_pc_q, live |-> TRUE]
      BY <1>2, <2>1
    <3>2. Head(owed).addr = req_pc_q
      BY <3>1
    <3> QED
      BY <2>1, <3>1, <3>2 DEF Answer, MemAnswers
  <2>2. CASE i_rif = FALSE
    BY <1>2, <2>2 DEF Answer, MemAnswers
  <2> QED
    BY <1>1, <2>1, <2>2
<1>4. rsp_cap(Answer) <=> i_rif
  BY <1>1 DEF rsp_cap, Answer
<1> QED
  BY <1>1, <1>3, <1>4 DEF do_rsp

\* Fetch behaves on the port as it does on the answer: rdata is only looked
\* at while rvalid is up.
LEMMA PortIsAnswer ==
  ASSUME UnitInv
  PROVE  /\ \A r : BusUpdate(r, imem_rsp) <=> BusUpdate(r, Answer)
         /\ \A r : Redirect(r, imem_rsp) <=> Redirect(r, Answer)
         /\ \A d : Advance(imem_rsp, d) <=> Advance(Answer, d)
         /\ \A r : launch(r, imem_rsp) <=> launch(r, Answer)
<1> DEFINE m == imem_rsp
<1>1. /\ m.ready = Answer.ready /\ m.rvalid = Answer.rvalid
      /\ i_rif => m.rdata = Answer.rdata
  BY PortFacts DEF Answer
<1>2. do_rsp(Answer) => i_rif
  BY AnswerExpected
<1> HIDE DEF m
<1>3. rsp_cap(m) = rsp_cap(Answer)
  BY <1>1 DEF rsp_cap
<1>4. do_rsp(m) = do_rsp(Answer)
  BY <1>3 DEF do_rsp
<1>5. fault_push(m) = fault_push(Answer)
  BY <1>3 DEF fault_push
<1>6. \A r : launch(r, m) = launch(r, Answer)
  BY <1>1 DEF launch
<1>7. pushes(m) = pushes(Answer)
  <2>1. CASE do_rsp(Answer)
    BY <1>1, <1>2, <1>4, <2>1 DEF pushes
  <2>2. CASE ~do_rsp(Answer)
    BY <1>4, <1>5, <2>2 DEF pushes
  <2> QED
    BY <2>1, <2>2
<1>8. next_pc(m) = next_pc(Answer)
  BY <1>5, <1>6 DEF next_pc
<1>9. ASSUME NEW r PROVE BusUpdate(r, m) <=> BusUpdate(r, Answer)
  <2>1. next_inflight(r, m) = next_inflight(r, Answer)
    BY <1>3, <1>6 DEF next_inflight
  <2>2. next_stale(r, m) = next_stale(r, Answer)
    BY <1>3 DEF next_stale
  <2>3. next_owed(r, m) = next_owed(r, Answer)
    BY <1>3, <1>6 DEF next_owed
  <2> QED
    BY <1>6, <2>1, <2>2, <2>3 DEF BusUpdate
<1> QED
  BY <1>6, <1>7, <1>8, <1>9 DEF m, Redirect, Advance

\* What an edge does to the memory.
LEMMA RamEdge ==
  ASSUME UnitInv, NEW r \in Redirects, imem!RamCycle(imem_req(r), rready)
  PROVE  /\ i_rif' = launch(r, Answer)
         /\ i_mem' = i_mem
         /\ i_skid' = << >>
         /\ launch(r, Answer) => i_rd'[0] = MemBlock(issue_addr(r))
<1> DEFINE q == imem_req(r)
<1>1. /\ q.valid = bus_issue(r) /\ q.we = FALSE /\ q.addr = MemBlock(issue_addr(r))
  BY DEF imem_req
<1>2. imem!rsp_wready(rready)
  BY PortFacts DEF imem_rsp
<1>3. launch(r, Answer) <=> bus_issue(r)
  BY DEF launch, Answer
<1> HIDE DEF q
<1>4. imem!launch_read(q, rready) <=> launch(r, Answer)
  BY <1>1, <1>2, <1>3 DEF imem!launch_read, imem!launch_hs
<1>5. ~imem!launch_write(q, rready)
  BY <1>1 DEF imem!launch_write
<1>6. /\ i_rif' = imem!launch_read(q, rready)
      /\ i_rd' = IF imem!launch_read(q, rready) THEN i_mem[q.addr] ELSE i_rd
      /\ i_skid' = imem!next_skid(rready)
      /\ i_mem' = imem!next_mem(q, rready)
  BY DEF imem!RamCycle, q
<1>7. i_mem' = i_mem
  BY <1>5, <1>6 DEF imem!next_mem
<1>8. i_skid' = << >>
  <2>1. i_skid = << >> /\ i_rif \in BOOLEAN
    BY DEF UnitInv, MemInv
  <2>2. ~imem!skid_pop(rready)
    BY <2>1 DEF imem!skid_pop
  <2>3. ~imem!land_stored(rready)
    BY <2>1, PortFacts DEF imem!land_stored, imem!land_consumed, imem!land
  <2> QED
    BY <1>6, <2>1, <2>2, <2>3 DEF imem!next_skid
<1>9. ASSUME launch(r, Answer) PROVE i_rd'[0] = MemBlock(issue_addr(r))
  <2>1. issue_addr(r) \in Addr
    BY <1>9, AnswerExpected, LaunchFacts DEF UnitInv
  <2>2. MemBlock(issue_addr(r)) \in ImemWords
    BY <2>1, MemBlockWord
  <2>3. i_rd' = i_mem[MemBlock(issue_addr(r))]
    BY <1>1, <1>4, <1>6, <1>9
  <2>4. i_mem[MemBlock(issue_addr(r))] = [l \in {0} |-> MemBlock(issue_addr(r))]
    BY <2>2 DEF UnitInv, MemInv
  <2> QED
    BY <2>3, <2>4
<1>10. i_rif' = launch(r, Answer)
  BY <1>4, <1>6 DEF imem!launch_read, launch
<1> QED
  BY <1>7, <1>8, <1>9, <1>10

-----------------------------------------------------------------------------
(***************************************************************************)
(* The reads owed.                                                         *)
(***************************************************************************)
\* After an edge at most the read it launched is owed, and it is alive: the
\* answer of the read before was taken, on a redirect cycle too.
LEMMA BusEdge ==
  ASSUME UnitInv, NEW r \in Redirects, BusUpdate(r, Answer)
  PROVE  /\ stale_q' = 0
         /\ owed' = IF launch(r, Answer)
                    THEN <<[addr |-> issue_addr(r), live |-> TRUE]>> ELSE << >>
         /\ req_pc_q' = IF launch(r, Answer) THEN issue_addr(r) ELSE req_pc_q
         /\ redir_launched_q' = (incycle_launch(r) /\ launch(r, Answer))
<1> DEFINE rest == IF rsp_cap(Answer) THEN Tail(owed) ELSE owed
           new == [addr |-> issue_addr(r), live |-> TRUE]
<1>1. stale_q = 0 /\ i_rif \in BOOLEAN /\ inflight_q = IF i_rif THEN 1 ELSE 0
  BY PortFacts DEF UnitInv, OwedInv
<1>2. rsp_cap(Answer) <=> i_rif
  BY AnswerExpected
<1>3. rest = << >>
  <2>1. CASE i_rif
    <3>1. owed = <<[addr |-> req_pc_q, live |-> TRUE]>>
      BY <2>1 DEF UnitInv, OwedInv
    <3>2. Tail(owed) = << >>
      BY <3>1
    <3> QED
      BY <1>2, <2>1, <3>2
  <2>2. CASE ~i_rif
    BY <1>2, <2>2 DEF UnitInv, OwedInv
  <2> QED
    BY <2>1, <2>2
<1>4. Killed(<< >>) = << >>
  <2>1. Killed(<< >>) \in Seq(Read) /\ Len(Killed(<< >>)) = 0
    BY EmptySeq, KilledProperties
  <2> QED
    BY <2>1, EmptySeq
<1>5. owed' = IF launch(r, Answer)
              THEN Append(IF redirect(r) THEN Killed(rest) ELSE rest, new)
              ELSE IF redirect(r) THEN Killed(rest) ELSE rest
  BY DEF BusUpdate, next_owed, Killed
<1>6. Append(<< >>, new) = <<new>>
  OBVIOUS
<1> HIDE DEF rest
<1>7. owed' = IF launch(r, Answer) THEN <<new>> ELSE << >>
  BY <1>3, <1>4, <1>5, <1>6
<1>8. stale_q' = 0
  BY <1>1, <1>2 DEF BusUpdate, next_stale
<1> QED
  BY <1>7, <1>8 DEF BusUpdate

\* A read launched on a redirect cycle is at the target of the redirect; one
\* launched on another cycle is at the frontier.
LEMMA IssueAddress ==
  ASSUME NEW r \in Redirects, launch(r, Answer)
  PROVE  /\ redirect(r) => incycle_launch(r) /\ issue_addr(r) = r.addr
         /\ ~redirect(r) => ~incycle_launch(r) /\ issue_addr(r) = Frontier
BY FetchAssumption
   DEF launch, bus_issue, exec_redir_hold, incycle_launch, issue_addr, redirect,
       Redirects, Frontier

-----------------------------------------------------------------------------
(***************************************************************************)
(* Chains of entries.                                                      *)
(***************************************************************************)
\* Popping from a chain leaves a chain of stamped entries.
LEMMA ChainDrop ==
  ASSUME NEW s \in Seq(Entry), NEW n \in 0 .. 2, n <= Len(s), NEW pc,
         Chain(s, pc), \A i \in 1 .. Len(s) : Stamped(s[i])
  PROVE  /\ Chain(Drop(s, n), pc)
         /\ \A i \in 1 .. Len(Drop(s, n)) : Stamped(Drop(s, n)[i])
<1> DEFINE t == Drop(s, n)
<1>1. Len(s) \in Nat /\ \A i \in 1 .. Len(s) : s[i] \in Entry
  BY ElementOfSeq, LenProperties
<1>2. /\ Len(t) = Len(s) - n
      /\ \A i \in 1 .. Len(s) - n : t[i] = s[i + n]
  <2>1. \A i \in n + 1 .. Len(s) : s[i] \in Entry
    BY <1>1
  <2>2. /\ t \in Seq(Entry)
        /\ Len(t) = IF n + 1 <= Len(s) THEN Len(s) - (n + 1) + 1 ELSE 0
        /\ \A i \in 1 .. Len(s) - (n + 1) + 1 : t[i] = s[(n + 1) + i - 1]
    BY <1>1, <2>1, SubSeqProperties DEF Drop
  <2>3. \A i \in 1 .. Len(s) - n : i \in 1 .. Len(s) - (n + 1) + 1 /\ (n + 1) + i - 1 = i + n
    BY <1>1
  <2> QED
    BY <1>1, <2>2, <2>3
<1> HIDE DEF t
<1>3. ASSUME NEW i \in 1 .. Len(t)
      PROVE  EntrySucc(t[i]) = IF i < Len(t) THEN t[i + 1].pc ELSE pc
  <2>1. i + n \in 1 .. Len(s) /\ t[i] = s[i + n] /\ (i < Len(t) <=> i + n < Len(s))
    BY <1>1, <1>2
  <2>2. EntrySucc(s[i + n]) = IF i + n < Len(s) THEN s[(i + n) + 1].pc ELSE pc
    BY <2>1 DEF Chain
  <2>3. i < Len(t) => t[i + 1] = s[(i + n) + 1]
    BY <1>1, <1>2
  <2> QED
    BY <2>1, <2>2, <2>3
<1>4. ASSUME NEW i \in 1 .. Len(t) PROVE Stamped(t[i])
  BY <1>1, <1>2
<1> QED
  BY <1>3, <1>4 DEF t, Chain

\* Pushing the entry a chain leads to makes a longer chain.
LEMMA ChainPush ==
  ASSUME NEW s \in Seq(Entry), NEW e \in Entry, NEW pc,
         Chain(s, e.pc), EntrySucc(e) = pc,
         \A i \in 1 .. Len(s) : Stamped(s[i]), Stamped(e)
  PROVE  /\ s \o <<e>> \in Seq(Entry)
         /\ Chain(s \o <<e>>, pc)
         /\ FirstPc(s \o <<e>>, pc) = FirstPc(s, e.pc)
         /\ \A i \in 1 .. Len(s \o <<e>>) : Stamped((s \o <<e>>)[i])
<1> DEFINE t == s \o <<e>>
<1>1. Len(s) \in Nat
  BY LenProperties
<1>2. <<e>> \in Seq(Entry) /\ Len(<<e>>) = 1 /\ <<e>>[1] = e
  OBVIOUS
<1>3. /\ t \in Seq(Entry) /\ Len(t) = Len(s) + 1
      /\ \A i \in 1 .. Len(s) : t[i] = s[i]
      /\ t[Len(s) + 1] = e
  BY <1>1, <1>2, ConcatProperties
<1> HIDE DEF t
<1>4. ASSUME NEW i \in 1 .. Len(t)
      PROVE  /\ EntrySucc(t[i]) = IF i < Len(t) THEN t[i + 1].pc ELSE pc
             /\ Stamped(t[i])
  <2>1. CASE i = Len(s) + 1
    BY <1>1, <1>3, <2>1
  <2>2. CASE i \in 1 .. Len(s)
    <3>1. EntrySucc(s[i]) = IF i < Len(s) THEN s[i + 1].pc ELSE e.pc
      BY <2>2 DEF Chain
    <3>2. i < Len(t) /\ t[i] = s[i] /\ Stamped(s[i])
      BY <1>1, <1>3, <2>2
    <3>3. t[i + 1].pc = IF i < Len(s) THEN s[i + 1].pc ELSE e.pc
      <4>1. CASE i < Len(s)
        BY <1>1, <1>3, <2>2, <4>1
      <4>2. CASE i = Len(s)
        BY <1>1, <1>3, <4>2
      <4> QED
        BY <1>1, <2>2, <4>1, <4>2
    <3> QED
      BY <3>1, <3>2, <3>3
  <2> QED
    BY <1>1, <1>3, <2>1, <2>2
<1>5. FirstPc(t, pc) = FirstPc(s, e.pc)
  <2>1. CASE Len(s) = 0
    BY <1>3, <2>1 DEF FirstPc
  <2>2. CASE Len(s) > 0
    <3>1. t[1] = s[1] /\ Len(t) > 0
      BY <1>1, <1>3, <2>2
    <3> QED
      BY <2>2, <3>1 DEF FirstPc
  <2> QED
    BY <1>1, <2>1, <2>2
<1> QED
  BY <1>3, <1>4, <1>5 DEF t, Chain

\* Pushing two entries is pushing one after the other.
LEMMA PushPair ==
  ASSUME NEW s \in Seq(Entry), NEW e \in Entry, NEW f \in Entry
  PROVE  (s \o <<e>>) \o <<f>> = s \o <<e, f>>
<1>1. /\ <<e>> \in Seq(Entry) /\ Len(<<e>>) = 1 /\ <<e>>[1] = e
      /\ <<f>> \in Seq(Entry) /\ Len(<<f>>) = 1 /\ <<f>>[1] = f
      /\ <<e, f>> \in Seq(Entry) /\ Len(<<e, f>>) = 2
      /\ <<e, f>>[1] = e /\ <<e, f>>[2] = f
  OBVIOUS
<1>2. /\ <<e>> \o <<f>> \in Seq(Entry) /\ Len(<<e>> \o <<f>>) = 2
      /\ (<<e>> \o <<f>>)[1] = e /\ (<<e>> \o <<f>>)[2] = f
  BY <1>1, ConcatProperties
<1>3. \A i \in 1 .. 2 : (<<e>> \o <<f>>)[i] = <<e, f>>[i]
  BY <1>1, <1>2
<1>4. <<e>> \o <<f>> = <<e, f>>
  BY <1>1, <1>2, <1>3, SeqEqual
<1>5. (s \o <<e>>) \o <<f>> = s \o (<<e>> \o <<f>>)
  BY <1>1, ConcatAssociative
<1> QED
  BY <1>4, <1>5

\* What an ordinary cycle pushes carries on from where the stream stood, is
\* stamped truly, and leads to the frontier.
LEMMA PushChain ==
  ASSUME UnitInv, NEW s \in Seq(Entry), Chain(s, Behind),
         \A i \in 1 .. Len(s) : Stamped(s[i])
  PROVE  LET t == s \o pushes(Answer)
             pc == IF fault_push(Answer) THEN pc_next_block ELSE Frontier
         IN  /\ Chain(t, pc)
             /\ FirstPc(t, pc) = FirstPc(s, Behind)
             /\ \A i \in 1 .. Len(t) : Stamped(t[i])
<1> DEFINE t == s \o pushes(Answer)
           pc == IF fault_push(Answer) THEN pc_next_block ELSE Frontier
           lo == DataEntry(req_pc_q, Answer.rdata)
           hi == DataEntry(rsp_high_pc, Answer.rdata + 4)
           up == DataEntry(req_pc_q, Answer.rdata + 4)
           ft == FaultEntry(req_pc_q)
<1>1. /\ req_pc_q \in Addr /\ pc_q \in Addr /\ i_rif \in BOOLEAN
      /\ do_rsp(Answer) <=> i_rif
      /\ rsp_cap(Answer) <=> i_rif
  BY PortFacts, AnswerExpected DEF UnitInv, FetchInv, FetchTypeOK
<1>2. CASE i_rif
  <2>1. /\ Behind = req_pc_q /\ Answer.rdata = MemBlock(req_pc_q)
        /\ Frontier = (Block(req_pc_q) + 8) % ADDR_SPACE
        /\ pc = Frontier
    BY <1>1, <1>2 DEF UnitInv, StreamInv, Behind, Answer, fault_push
  <2>2. /\ MemBlock(req_pc_q) \in Addr /\ MemBlock(req_pc_q) + 4 \in Addr
        /\ rsp_high_pc \in Addr /\ 0 \in Addr
    BY <1>1, MemBlockRange, BlockRange, FetchAssumption DEF rsp_high_pc, Addr
  <2>3. /\ lo \in Entry /\ lo.pc = req_pc_q /\ lo.word = MemBlock(req_pc_q) /\ ~lo.fault
        /\ hi \in Entry /\ hi.pc = Block(req_pc_q) + 4 /\ hi.word = MemBlock(req_pc_q) + 4
        /\ ~hi.fault
        /\ up \in Entry /\ up.pc = req_pc_q /\ up.word = MemBlock(req_pc_q) + 4 /\ ~up.fault
        /\ ft \in Entry /\ ft.pc = req_pc_q /\ ft.fault
    BY <1>1, <2>1, <2>2 DEF DataEntry, FaultEntry, Entry, rsp_high_pc
  <2>4. Block(req_pc_q) \in Nat
    BY <1>1, BlockRange DEF Addr
  <2> HIDE DEF lo, hi, up, ft, pc
  <2>5. CASE rsp_fault
    <3>1. pushes(Answer) = <<ft>>
      BY <1>1, <1>2, <2>5 DEF pushes, ft
    <3>2. Stamped(ft) /\ EntrySucc(ft) = pc
      BY <2>1, <2>3, <2>5 DEF Stamped, EntrySucc, rsp_fault
    <3> QED
      BY <2>1, <2>3, <3>1, <3>2, ChainPush DEF pc
  <2>6. CASE ~rsp_fault /\ rsp_two
    <3>1. pushes(Answer) = <<lo, hi>>
      BY <1>1, <1>2, <2>6 DEF pushes, lo, hi
    <3>2. /\ Word(req_pc_q) = Block(req_pc_q)
          /\ (Word(req_pc_q) + 4) % ADDR_SPACE = Block(req_pc_q) + 4
          /\ Word(Block(req_pc_q) + 4) = Block(req_pc_q) + 4
          /\ ~OutOfRange(req_pc_q) /\ ~OutOfRange(Block(req_pc_q) + 4)
          /\ MemBlock(req_pc_q) = Block(req_pc_q)
      BY <1>1, <2>6, WordFacts, MemBlockWord DEF rsp_two, rsp_fault
    <3>3. Stamped(lo) /\ Stamped(hi)
      BY <2>3, <3>2 DEF Stamped
    <3>4. EntrySucc(lo) = hi.pc
      BY <2>3, <3>2 DEF EntrySucc
    <3>5. EntrySucc(hi) = pc
      <4>1. (Block(req_pc_q) + 4) + 4 = Block(req_pc_q) + 8
        BY <2>4
      <4> QED
        BY <2>1, <2>3, <3>2, <4>1 DEF EntrySucc
    <3>6. /\ s \o <<lo>> \in Seq(Entry)
          /\ Chain(s \o <<lo>>, hi.pc)
          /\ FirstPc(s \o <<lo>>, hi.pc) = FirstPc(s, lo.pc)
          /\ \A i \in 1 .. Len(s \o <<lo>>) : Stamped((s \o <<lo>>)[i])
      BY <2>1, <2>3, <3>3, <3>4, ChainPush
    <3>7. /\ Chain((s \o <<lo>>) \o <<hi>>, pc)
          /\ FirstPc((s \o <<lo>>) \o <<hi>>, pc) = FirstPc(s \o <<lo>>, hi.pc)
          /\ \A i \in 1 .. Len((s \o <<lo>>) \o <<hi>>) : Stamped(((s \o <<lo>>) \o <<hi>>)[i])
      BY <2>3, <3>3, <3>5, <3>6, ChainPush
    <3>8. (s \o <<lo>>) \o <<hi>> = s \o <<lo, hi>>
      BY <2>3, PushPair
    <3> QED
      BY <2>1, <2>3, <3>1, <3>6, <3>7, <3>8 DEF pc
  <2>7. CASE ~rsp_fault /\ ~rsp_two
    <3>1. pushes(Answer) = <<up>>
      BY <1>1, <1>2, <2>7 DEF pushes, up
    <3>2. /\ Word(req_pc_q) = Block(req_pc_q) + 4 /\ ~OutOfRange(req_pc_q)
          /\ MemBlock(req_pc_q) = Block(req_pc_q)
      BY <1>1, <2>7, WordFacts, MemBlockWord DEF rsp_two, rsp_fault
    <3>3. Stamped(up)
      BY <2>3, <3>2 DEF Stamped
    <3>4. EntrySucc(up) = pc
      <4>1. (Block(req_pc_q) + 4) + 4 = Block(req_pc_q) + 8
        BY <2>4
      <4> QED
        BY <2>1, <2>3, <3>2, <4>1 DEF EntrySucc
    <3> QED
      BY <2>1, <2>3, <3>1, <3>3, <3>4, ChainPush DEF pc
  <2> QED
    BY <2>5, <2>6, <2>7
<1>3. CASE ~i_rif /\ fault_push(Answer)
  <2> DEFINE pf == FaultEntry(pc_q)
  <2>1. Behind = pc_q /\ pc = pc_next_block
    BY <1>3 DEF UnitInv, OwedInv, Behind, Frontier
  <2>2. pushes(Answer) = <<pf>>
    BY <1>1, <1>3 DEF pushes
  <2>3. pf \in Entry /\ pf.pc = pc_q /\ pf.fault
    BY <1>1, FetchAssumption DEF FaultEntry, Entry, Addr
  <2>4. Stamped(pf) /\ EntrySucc(pf) = pc
    BY <1>3, <2>1, <2>3 DEF Stamped, EntrySucc, fault_push, pc_fault, pc_next_block
  <2> HIDE DEF pf, pc
  <2> QED
    BY <2>1, <2>2, <2>3, <2>4, ChainPush DEF pc
<1>4. CASE ~i_rif /\ ~fault_push(Answer)
  <2>1. pushes(Answer) = << >> /\ Behind = Frontier /\ pc = Frontier
    BY <1>1, <1>4 DEF pushes, Behind
  <2>2. s \o << >> = s
    BY ConcatEmptySeq
  <2> QED
    BY <2>1, <2>2
<1> QED
  BY <1>1, <1>2, <1>3, <1>4

-----------------------------------------------------------------------------
(***************************************************************************)
(* The invariant.                                                          *)
(***************************************************************************)
\* Both kinds of redirect are redirects, to an address.
LEMMA RedirectsTyped ==
  ASSUME NEW t \in Targets
  PROVE  /\ ExecRedirectTo(t) \in Redirects /\ redirect(ExecRedirectTo(t))
         /\ PredRedirectTo(t) \in Redirects /\ redirect(PredRedirectTo(t))
BY FetchAssumption DEF ExecRedirectTo, PredRedirectTo, Redirects, redirect, Addr

\* A redirect cycle preserves it, and the stream goes on at the target.
LEMMA UnitRedirectStep ==
  ASSUME UnitInv, NEW r \in Redirects, redirect(r), UnitRedirect(r)
  PROVE  UnitInv' /\ FirstPc(buf, Behind)' = r.addr
<1> DEFINE l == launch(r, Answer)
<1>1. Redirect(r, Answer) /\ imem!RamCycle(imem_req(r), rready)
  BY PortIsAnswer DEF UnitRedirect
<1>2. FetchInv'
  BY <1>1, AnswerExpected, RedirectStep DEF UnitInv
<1>3. /\ stale_q' = 0
      /\ owed' = IF l THEN <<[addr |-> issue_addr(r), live |-> TRUE]>> ELSE << >>
      /\ req_pc_q' = IF l THEN issue_addr(r) ELSE req_pc_q
      /\ redir_launched_q' = (incycle_launch(r) /\ l)
      /\ pc_q' = r.addr /\ buf' = << >>
  BY <1>1, BusEdge DEF Redirect
<1>4. /\ i_rif' = l /\ i_mem' = i_mem /\ i_skid' = << >>
      /\ l => i_rd'[0] = MemBlock(issue_addr(r))
  BY <1>1, RamEdge
<1>5. l \in BOOLEAN
  BY DEF launch
<1>6. l => incycle_launch(r) /\ issue_addr(r) = r.addr
  BY IssueAddress
<1> HIDE DEF l
<1>7. MemInv'
  BY <1>3, <1>4, <1>5 DEF MemInv, UnitInv, MemBlock, Block
<1>8. OwedInv'
  <2>1. stale_q' = 0
    BY <1>3
  <2>2. owed' = IF i_rif' THEN <<[addr |-> req_pc_q', live |-> TRUE]>> ELSE << >>
    BY <1>3, <1>4, <1>5
  <2>3. redir_launched_q' => i_rif' /\ req_pc_q' = pc_q' /\ buf' = << >>
    BY <1>3, <1>4, <1>6
  <2> QED
    BY <2>1, <2>2, <2>3 DEF OwedInv
<1>9. StreamInv'
  <2>1. Len(buf') = 0
    BY <1>3
  <2>2. i_rif' => Frontier' = (Block(req_pc_q') + 8) % ADDR_SPACE
    BY <1>3, <1>4, <1>6 DEF Frontier, pc_next_block, Block
  <2>3. 1 .. 0 = {}
    OBVIOUS
  <2> QED
    BY <2>1, <2>2, <2>3 DEF StreamInv, Chain, Block
<1>10. FirstPc(buf, Behind)' = r.addr
  <2>1. Behind' = r.addr
    BY <1>3, <1>4, <1>5, <1>6 DEF Behind, Frontier
  <2> QED
    BY <1>3, <2>1 DEF FirstPc
<1> QED
  BY <1>2, <1>7, <1>8, <1>9, <1>10 DEF UnitInv

\* An ordinary cycle preserves it, and the stream goes on with what is left
\* when the popped entries are gone.
LEMMA UnitAdvanceStep ==
  ASSUME UnitInv, NEW d \in Demands, UnitAdvance(d)
  PROVE  /\ UnitInv'
         /\ FirstPc(buf, Behind)' = FirstPc(Drop(buf, buf_pop_cnt(d)), Behind)
<1> DEFINE r == NoRedirect
           l == launch(r, Answer)
           rest == Drop(buf, buf_pop_cnt(d))
           fp == fault_push(Answer)
<1>1. Advance(Answer, d) /\ imem!RamCycle(imem_req(r), rready)
  BY PortIsAnswer DEF UnitAdvance
<1>2. FetchInv'
  BY <1>1, AnswerExpected, AdvanceStep DEF UnitInv
<1>3. r \in Redirects /\ ~redirect(r)
  BY FetchAssumption DEF NoRedirect, Redirects, redirect, Addr
<1> HIDE DEF r
<1>4. /\ BusUpdate(r, Answer) /\ pc_q' = next_pc(Answer) /\ buf' = rest \o pushes(Answer)
  BY <1>1 DEF Advance, r
<1>5. /\ stale_q' = 0
      /\ owed' = IF l THEN <<[addr |-> issue_addr(r), live |-> TRUE]>> ELSE << >>
      /\ req_pc_q' = IF l THEN issue_addr(r) ELSE req_pc_q
      /\ redir_launched_q' = (incycle_launch(r) /\ l)
  BY <1>3, <1>4, BusEdge
<1>6. ~redir_launched_q'
  BY <1>3, <1>5 DEF incycle_launch, redirect, Redirects
<1>7. /\ i_rif' = l /\ i_mem' = i_mem /\ i_skid' = << >>
      /\ l => i_rd'[0] = MemBlock(issue_addr(r))
  BY <1>1, <1>3, RamEdge
<1>8. l \in BOOLEAN /\ (l => issue_addr(r) = Frontier)
  BY <1>3, IssueAddress DEF launch
<1>9. l => ~fp
  <2>1. l => ~pc_fault
    BY <1>3, AnswerExpected, LaunchFacts DEF UnitInv
  <2> QED
    BY <2>1 DEF fault_push
<1>10. pc_q' = IF fp THEN pc_next_block
               ELSE IF l THEN (Block(Frontier) + 8) % ADDR_SPACE ELSE Frontier
  <2>1. pc_q \in Addr
    BY DEF UnitInv, FetchInv, FetchTypeOK
  <2>2. (Block(pc_next_block) + 8) % ADDR_SPACE = pc_next_block2
    BY <2>1, TwoBlocks DEF pc_next_block, pc_next_block2
  <2> QED
    BY <1>4, <2>2 DEF next_pc, Frontier, r, pc_next_block
<1>11. /\ rest \in Seq(Entry) /\ Chain(rest, Behind)
       /\ \A i \in 1 .. Len(rest) : Stamped(rest[i])
  <2>1. /\ buf \in Seq(Entry) /\ Len(buf) \in Nat
        /\ Chain(buf, Behind) /\ \A i \in 1 .. Len(buf) : Stamped(buf[i])
    BY DEF UnitInv, FetchInv, FetchTypeOK, StreamInv
  <2>2. buf_pop_cnt(d) \in 0 .. 2 /\ buf_pop_cnt(d) <= Len(buf)
    <3>1. buf # << >> => Len(buf) >= 1
      BY <2>1, EmptySeq
    <3>2. d.pop2 => Len(buf) >= 2
      BY DEF Demands
    <3> QED
      BY <2>1, <3>1, <3>2 DEF buf_pop_cnt
  <2> QED
    BY <2>1, <2>2, ChainDrop, DropProperties
<1> HIDE DEF rest
<1>12. LET pc == IF fp THEN pc_next_block ELSE Frontier
       IN  /\ Chain(buf', pc)
           /\ FirstPc(buf', pc) = FirstPc(rest, Behind)
           /\ \A i \in 1 .. Len(buf') : Stamped(buf'[i])
  BY <1>4, <1>11, PushChain
<1> HIDE DEF l, fp
<1>13. MemInv'
  BY <1>5, <1>7, <1>8 DEF MemInv, UnitInv, MemBlock, Block
<1>14. OwedInv'
  <2>1. owed' = IF i_rif' THEN <<[addr |-> req_pc_q', live |-> TRUE]>> ELSE << >>
    BY <1>5, <1>7, <1>8
  <2> QED
    BY <1>5, <1>6, <2>1 DEF OwedInv
<1>15. Frontier' = pc_q' /\ Behind' = IF fp THEN pc_next_block ELSE Frontier
  <2>1. Frontier' = pc_q'
    BY <1>6 DEF Frontier
  <2> QED
    BY <1>5, <1>7, <1>8, <1>9, <1>10, <2>1 DEF Behind
<1>16. StreamInv'
  <2>1. i_rif' => Frontier' = (Block(req_pc_q') + 8) % ADDR_SPACE
    BY <1>5, <1>7, <1>8, <1>9, <1>10, <1>15
  <2>2. Chain(buf', Behind')
    BY <1>12, <1>15
  <2> QED
    BY <1>12, <2>1, <2>2 DEF StreamInv, Chain, Stamped, EntrySucc, Block, Word, OutOfRange
<1>17. FirstPc(buf, Behind)' = FirstPc(rest, Behind)
  BY <1>12, <1>15 DEF FirstPc
<1> QED
  BY <1>2, <1>13, <1>14, <1>16, <1>17 DEF UnitInv, rest

\* What the unit starts with.
LEMMA UnitStarts ==
  ASSUME UnitInit
  PROVE  UnitInv /\ buf = << >> /\ Behind = BOOT_ADDR
<1>1. FetchInit /\ imem!RamReset
  BY DEF UnitInit
<1>2. i_rif = FALSE /\ i_skid = << >>
  BY <1>1 DEF imem!RamReset
<1>3. FetchInv
  BY <1>1, FetchStarts
<1>4. MemInv
  BY <1>2 DEF UnitInit, MemInv, ImemWords
<1>5. OwedInv
  BY <1>1, <1>2 DEF FetchInit, OwedInv
<1>6. StreamInv
  BY <1>1, <1>2 DEF FetchInit, StreamInv, Chain
<1>7. buf = << >> /\ Behind = BOOT_ADDR
  BY <1>1, <1>2 DEF FetchInit, Behind, Frontier
<1> QED
  BY <1>3, <1>4, <1>5, <1>6, <1>7 DEF UnitInv

\* Nothing happens to the invariant when nothing happens.
LEMMA UnitStutters ==
  ASSUME UnitInv, UNCHANGED unitVars
  PROVE  UnitInv'
<1>1. UNCHANGED fetchVars /\ UNCHANGED imemVars
  BY DEF unitVars
<1>2. FetchInv'
  BY <1>1 DEF UnitInv, fetchVars, FetchInv, FetchTypeOK, RoomInv, StaleExact
<1>3. MemInv'
  BY <1>1 DEF UnitInv, fetchVars, imemVars, MemInv, MemBlock, Block
<1>4. OwedInv'
  BY <1>1 DEF UnitInv, fetchVars, imemVars, OwedInv
<1>5. Frontier' = Frontier /\ Behind' = Behind
  BY <1>1 DEF fetchVars, imemVars, Frontier, Behind, pc_next_block, Block
<1>6. StreamInv'
  BY <1>1, <1>5 DEF UnitInv, fetchVars, imemVars, StreamInv, Chain, Stamped, EntrySucc,
                    Block, Word, OutOfRange
<1> QED
  BY <1>2, <1>3, <1>4, <1>6 DEF UnitInv

(***************************************************************************)
(* The invariant holds of the fetch stage on the native RAM.               *)
(***************************************************************************)
THEOREM UnitInvariant == UnitSpec => []UnitInv
<1>1. UnitInit => UnitInv
  BY UnitStarts
<1>2. UnitInv /\ [UnitNext]_unitVars => UnitInv'
  <2> SUFFICES ASSUME UnitInv, [UnitNext]_unitVars PROVE UnitInv'
    OBVIOUS
  <2>1. CASE UnitExecRedirect
    <3>1. PICK t \in Targets : UnitRedirect(ExecRedirectTo(t))
      BY <2>1 DEF UnitExecRedirect
    <3> QED
      BY <3>1, RedirectsTyped, UnitRedirectStep
  <2>2. CASE UnitPredRedirect
    <3>1. PICK t \in Targets : UnitRedirect(PredRedirectTo(t))
      BY <2>2 DEF UnitPredRedirect
    <3> QED
      BY <3>1, RedirectsTyped, UnitRedirectStep
  <2>3. CASE UnitRun
    BY <2>3, UnitAdvanceStep DEF UnitRun
  <2>4. CASE UNCHANGED unitVars
    BY <2>4, UnitStutters
  <2> QED
    BY <2>1, <2>2, <2>3, <2>4 DEF UnitNext
<1> QED
  BY <1>1, <1>2, PTL DEF UnitSpec

(***************************************************************************)
(* Every entry decode is given holds the word at its PC, or the access     *)
(* fault of a PC outside the I-mem: the one register req_pc_q is enough.   *)
(***************************************************************************)
THEOREM EntriesStampedTruly == UnitSpec => []StampsTrue
<1>1. UnitInv => StampsTrue
  <2> SUFFICES ASSUME UnitInv PROVE StampsTrue
    OBVIOUS
  <2>1. \A i \in 1 .. Len(buf) :
          IF buf[i].fault THEN OutOfRange(buf[i].pc)
          ELSE ~OutOfRange(buf[i].pc) /\ buf[i].word = Word(buf[i].pc)
    BY DEF UnitInv, StreamInv, Stamped
  <2>2. owed = IF i_rif THEN <<[addr |-> req_pc_q, live |-> TRUE]>> ELSE << >>
    BY DEF UnitInv, OwedInv
  <2>3. Len(owed) <= 1 /\ (owed # << >> => owed[1].addr = req_pc_q)
    BY <2>2
  <2> QED
    BY <2>1, <2>3 DEF StampsTrue
<1> QED
  BY <1>1, UnitInvariant, PTL

\* The reads in flight, and where the stream goes on behind them.
LEMMA ReadsBehind ==
  ASSUME UnitInv
  PROVE  /\ LiveReads = IF i_rif THEN {1} ELSE {}
         /\ PcBehind(0) = Behind
         /\ i_rif => PcBehind(1) = Frontier /\ owed[1].addr = req_pc_q
<1>1. owed = IF i_rif THEN <<[addr |-> req_pc_q, live |-> TRUE]>> ELSE << >>
  BY DEF UnitInv, OwedInv
<1>2. CASE i_rif
  <2>1. owed[1].addr = req_pc_q /\ owed[1].live = TRUE /\ Len(owed) = 1
    BY <1>1, <1>2
  <2>2. LiveReads = {1}
    BY <2>1 DEF LiveReads
  <2>3. {j \in LiveReads : j > 0} = {1} /\ {j \in LiveReads : j > 1} = {}
    BY <2>2
  <2>4. (CHOOSE j \in {1} : \A k \in {1} : j <= k) = 1
    OBVIOUS
  <2>5. PcBehind(0) = req_pc_q /\ PcBehind(1) = Frontier
    BY <2>1, <2>3, <2>4 DEF PcBehind
  <2> QED
    BY <1>2, <2>1, <2>2, <2>5 DEF Behind
<1>3. CASE ~i_rif
  <2>1. LiveReads = {}
    BY <1>1, <1>3 DEF LiveReads
  <2>2. PcBehind(0) = Frontier
    BY <2>1 DEF PcBehind
  <2> QED
    BY <1>3, <2>1, <2>2 DEF Behind
<1> QED
  BY <1>2, <1>3

(***************************************************************************)
(* The buffered entries, the read in flight and the next address to fetch  *)
(* follow each other in program order, under every interleaving of         *)
(* redirects, stalls, faults and in-cycle launches.                        *)
(***************************************************************************)
THEOREM StreamIsContiguous == UnitSpec => []StreamContiguous
<1>1. UnitInv => StreamContiguous
  <2> SUFFICES ASSUME UnitInv PROVE StreamContiguous
    OBVIOUS
  <2>1. /\ Chain(buf, Behind)
        /\ i_rif => Frontier = (Block(req_pc_q) + 8) % ADDR_SPACE
    BY DEF UnitInv, StreamInv
  <2> QED
    BY <2>1, ReadsBehind DEF StreamContiguous, Chain
<1> QED
  BY <1>1, UnitInvariant, PTL

(***************************************************************************)
(* The fetch stage on the native RAM is the fetch stage on an in-order     *)
(* memory: what FetchInv shows for any latency holds of the board.         *)
(***************************************************************************)
THEOREM UnitRefinesFetch == UnitSpec => UnitImplementsFetch
<1>1. UnitInit => FetchInit
  BY DEF UnitInit
<1>2. UnitInv /\ [UnitNext]_unitVars => [FetchNext]_fetchVars
  <2> SUFFICES ASSUME UnitInv, [UnitNext]_unitVars PROVE [FetchNext]_fetchVars
    OBVIOUS
  <2>1. Answer \in MemAnswers
    BY AnswerExpected
  <2>2. CASE UnitExecRedirect
    <3>1. PICK t \in Targets : UnitRedirect(ExecRedirectTo(t))
      BY <2>2 DEF UnitExecRedirect
    <3>2. Redirect(ExecRedirectTo(t), Answer)
      BY <3>1, PortIsAnswer DEF UnitRedirect
    <3> QED
      BY <2>1, <3>2 DEF FetchNext, ExecRedirect
  <2>3. CASE UnitPredRedirect
    <3>1. PICK t \in Targets : UnitRedirect(PredRedirectTo(t))
      BY <2>3 DEF UnitPredRedirect
    <3>2. Redirect(PredRedirectTo(t), Answer)
      BY <3>1, PortIsAnswer DEF UnitRedirect
    <3> QED
      BY <2>1, <3>2 DEF FetchNext, PredRedirect
  <2>4. CASE UnitRun
    <3>1. PICK d \in Demands : UnitAdvance(d)
      BY <2>4 DEF UnitRun
    <3>2. Advance(Answer, d)
      BY <3>1, PortIsAnswer DEF UnitAdvance
    <3> QED
      BY <2>1, <3>2 DEF FetchNext, Run
  <2>5. CASE UNCHANGED unitVars
    BY <2>5 DEF unitVars
  <2> QED
    BY <2>2, <2>3, <2>4, <2>5 DEF UnitNext
<1> QED
  BY <1>1, <1>2, UnitInvariant, PTL DEF UnitSpec, UnitImplementsFetch, FetchSpec

(***************************************************************************)
(* Decode on top of the fetch unit. What decode needs of fetch is that the *)
(* head of the buffer, or what will become it, goes on exactly behind the  *)
(* halfword in the hold buffer. HoldInv says so; the head moves only by    *)
(* what decode pops, however the answers of the memory fall. From it every *)
(* instruction carries its own direction bit, and a ring of six entries or *)
(* more never runs dry.                                                    *)
(***************************************************************************)

Halfwords == {a \in 0 .. IMEM_BYTES - 1 : a % 2 = 0}

\* The PC of the oldest buffered word, or of the one that will be it.
HeadPc == FirstPc(buf, Behind)

\* The n-th byte behind an address.
Ahead(a, n) == (a + n) % ADDR_SPACE

\* The hold buffer keeps an upper halfword, under its own PC and with its own
\* direction bit, and the buffer goes on behind it.
HoldInv ==
  /\ hold_q \in BOOLEAN
  /\ hold_q => /\ hold_pc_q \in Halfwords /\ hold_pc_q % 4 = 2
               /\ hold_word_q = hold_pc_q /\ hold_pred_q = hold_pc_q
               /\ HeadPc = Ahead(hold_pc_q, 2)

DeInv ==
  /\ de_q.valid \in BOOLEAN /\ de_q.fault \in BOOLEAN
  /\ PredictionIsOwn

FrontInv ==
  /\ UnitInv
  /\ prog \in [Halfwords -> BOOLEAN]
  /\ HeadPc \in Addr /\ HeadPc % 2 = 0
  /\ HoldInv
  /\ DeInv

\* Where the parse stands.
Stands == IF hold_q THEN hold_pc_q ELSE HeadPc

-----------------------------------------------------------------------------
(***************************************************************************)
(* Address arithmetic.                                                     *)
(***************************************************************************)
\* A halfword of the memory is the lower or the upper one of a word, which is
\* in the memory with both its halves; the next word begins behind it.
LEMMA HalfFacts ==
  ASSUME NEW a \in Halfwords
  PROVE  /\ a \in Addr /\ a \in Nat /\ a % 4 \in {0, 2} /\ ~OutOfRange(a)
         /\ a % 4 = 0 => /\ Word(a) = a /\ a + 2 \in Halfwords /\ (a + 2) % 4 = 2
                         /\ Ahead(a, 2) = a + 2 /\ Ahead(a, 4) = Ahead(Word(a), 4)
         /\ a % 4 = 2 => Word(a) + 2 = a /\ Ahead(a, 2) = Ahead(Word(a), 4)
<1>1. /\ a \in Nat /\ a < IMEM_BYTES /\ a % 2 = 0
      /\ IMEM_BYTES \in Nat /\ IMEM_BYTES % 8 = 0 /\ IMEM_BYTES <= ADDR_SPACE
      /\ ADDR_SPACE \in Nat \ {0}
  BY FetchAssumption DEF Halfwords
<1>2. a \in Addr /\ a % 4 \in {0, 2} /\ ~OutOfRange(a)
  BY <1>1 DEF Addr, OutOfRange
<1>3. ASSUME a % 4 = 0
      PROVE  /\ Word(a) = a /\ a + 2 \in Halfwords /\ (a + 2) % 4 = 2
             /\ Ahead(a, 2) = a + 2 /\ Ahead(a, 4) = Ahead(Word(a), 4)
  <2>1. Word(a) = a /\ a + 2 < IMEM_BYTES /\ (a + 2) % 4 = 2 /\ (a + 2) % 2 = 0
    BY <1>1, <1>3 DEF Word
  <2>2. a + 2 \in Nat /\ a + 2 < ADDR_SPACE
    BY <1>1, <2>1
  <2>3. (a + 2) % ADDR_SPACE = a + 2
    BY <1>1, <2>2, Z3
  <2> QED
    BY <1>1, <2>1, <2>2, <2>3 DEF Halfwords, Ahead
<1>4. ASSUME a % 4 = 2
      PROVE  Word(a) + 2 = a /\ Ahead(a, 2) = Ahead(Word(a), 4)
  <2>1. Word(a) + 2 = a /\ Word(a) \in Nat /\ Word(a) + 4 = a + 2
    BY <1>1, <1>4 DEF Word
  <2> QED
    BY <2>1 DEF Ahead
<1> QED
  BY <1>1, <1>2, <1>3, <1>4

\* The next word begins at an aligned address.
LEMMA NextWord ==
  ASSUME NEW a \in Addr
  PROVE  /\ Ahead(Word(a), 4) \in Addr
         /\ Ahead(Word(a), 4) % 4 = 0 /\ Ahead(Word(a), 4) % 2 = 0
<1> DEFINE w == Word(a) + 4
<1>1. /\ a \in Nat /\ a < ADDR_SPACE /\ ADDR_SPACE \in Nat \ {0} /\ ADDR_SPACE % 8 = 0
  BY FetchAssumption DEF Addr
<1>2. w \in Nat /\ w % 4 = 0 /\ w <= ADDR_SPACE
  BY <1>1 DEF Word
<1> HIDE DEF w
<1>3. CASE w < ADDR_SPACE
  <2>1. w % ADDR_SPACE = w
    BY <1>1, <1>2, <1>3, Z3
  <2>2. w % 2 = 0
    BY <1>2
  <2> QED
    BY <1>1, <1>2, <1>3, <2>1, <2>2 DEF w, Ahead, Addr
<1>4. CASE w = ADDR_SPACE
  <2>1. w % ADDR_SPACE = 0
    BY <1>1, <1>4, Z3
  <2> QED
    BY <1>1, <2>1, 0 \in Nat /\ 0 % 4 = 0 /\ 0 % 2 = 0 DEF w, Ahead, Addr
<1> QED
  BY <1>1, <1>2, <1>3, <1>4

\* So does the next block.
LEMMA NextBlock ==
  ASSUME NEW a \in Addr
  PROVE  (Block(a) + 8) % ADDR_SPACE \in Addr /\ ((Block(a) + 8) % ADDR_SPACE) % 2 = 0
<1> DEFINE w == Block(a) + 8
<1>1. /\ a \in Nat /\ a < ADDR_SPACE /\ ADDR_SPACE \in Nat \ {0} /\ ADDR_SPACE % 8 = 0
  BY FetchAssumption DEF Addr
<1>2. w \in Nat /\ w % 2 = 0 /\ w <= ADDR_SPACE
  BY <1>1 DEF Block
<1> HIDE DEF w
<1>3. CASE w < ADDR_SPACE
  <2>1. w % ADDR_SPACE = w
    BY <1>1, <1>2, <1>3, Z3
  <2> QED
    BY <1>1, <1>2, <1>3, <2>1 DEF w, Addr
<1>4. CASE w = ADDR_SPACE
  <2>1. w % ADDR_SPACE = 0
    BY <1>1, <1>4, Z3
  <2> QED
    BY <1>1, <2>1, 0 \in Nat /\ 0 % 2 = 0 DEF w, Addr
<1> QED
  BY <1>1, <1>2, <1>3, <1>4

\* Two halfwords on, over the end of a word.
LEMMA FourAhead ==
  ASSUME NEW a \in Halfwords, a % 4 = 2, Ahead(a, 2) \in Halfwords
  PROVE  Ahead(a, 2) + 2 = Ahead(a, 4)
<1> DEFINE b == Ahead(a, 2)
<1>1. /\ a \in Nat /\ a < ADDR_SPACE /\ a % 2 = 0 /\ ADDR_SPACE \in Nat \ {0}
      /\ ADDR_SPACE % 8 = 0
  BY FetchAssumption DEF Halfwords
<1>2. a + 2 <= ADDR_SPACE
  BY <1>1
<1>3. CASE a + 2 < ADDR_SPACE
  <2>1. (a + 2) % ADDR_SPACE = a + 2
    BY <1>1, <1>3, Z3
  <2>2. a + 4 < ADDR_SPACE
    BY <1>1, <1>3
  <2>3. (a + 4) % ADDR_SPACE = a + 4
    BY <1>1, <2>2, Z3
  <2> QED
    BY <1>1, <2>1, <2>3 DEF Ahead
<1>4. CASE a + 2 = ADDR_SPACE
  <2>1. (a + 2) % ADDR_SPACE = 0
    BY <1>1, <1>4, Z3
  <2>2. a + 4 = ADDR_SPACE + 2 /\ 2 < ADDR_SPACE
    BY <1>1, <1>4
  <2>3. (ADDR_SPACE + 2) % ADDR_SPACE = 2
    BY <1>1, <2>2, Z3
  <2> QED
    BY <1>1, <2>1, <2>2, <2>3 DEF Ahead
<1> QED
  BY <1>1, <1>2, <1>3, <1>4

-----------------------------------------------------------------------------
(***************************************************************************)
(* The F/D ports and the edges of fetch.                                   *)
(***************************************************************************)
\* What decode sees at the head: the word the stream stands at, or its fault.
LEMMA HeadPort ==
  ASSUME FrontInv
  PROVE  /\ fe.valid \in BOOLEAN /\ fe.fault \in BOOLEAN
         /\ fe.valid <=> Len(buf) >= 1
         /\ fe.valid => fe.pc = HeadPc /\ buf[1].pc = fe.pc /\ buf[1].fault = fe.fault
         /\ fe.valid /\ fe.fault => OutOfRange(HeadPc)
         /\ fe.valid /\ ~fe.fault => HeadPc \in Halfwords /\ fe.word = Word(HeadPc)
<1>1. buf \in Seq(Entry) /\ Len(buf) \in Nat /\ \A i \in 1 .. Len(buf) : Stamped(buf[i])
  BY DEF FrontInv, UnitInv, FetchInv, FetchTypeOK, StreamInv
<1>2. CASE Len(buf) < 1
  BY <1>1, <1>2 DEF fe, Port, NoEntry
<1>3. CASE Len(buf) >= 1
  <2>1. buf[1] \in Entry /\ Stamped(buf[1])
    BY <1>1, <1>3, ElementOfSeq
  <2>2. fe = [valid |-> TRUE, fault |-> buf[1].fault, pc |-> buf[1].pc, word |-> buf[1].word]
    BY <1>1, <1>3 DEF fe, Port
  <2>3. HeadPc = buf[1].pc
    BY <1>1, <1>3 DEF HeadPc, FirstPc
  <2>4. ~OutOfRange(HeadPc) => HeadPc \in Halfwords
    BY FetchAssumption DEF FrontInv, OutOfRange, Halfwords, Addr
  <2> QED
    BY <1>3, <2>1, <2>2, <2>3, <2>4 DEF Stamped, Entry
<1> QED
  BY <1>1, <1>2, <1>3

\* What decode sees behind a head that is no fault: the next word, or its fault.
LEMMA NextPort ==
  ASSUME FrontInv
  PROVE  /\ nx.valid \in BOOLEAN /\ nx.fault \in BOOLEAN
         /\ nx.valid <=> Len(buf) >= 2
         /\ nx.valid /\ ~fe.fault => nx.pc = Ahead(Word(HeadPc), 4) /\ buf[2].pc = nx.pc
         /\ nx.valid /\ ~fe.fault /\ nx.fault => OutOfRange(nx.pc)
         /\ nx.valid /\ ~fe.fault /\ ~nx.fault =>
              nx.pc \in Halfwords /\ nx.pc % 4 = 0 /\ nx.word = nx.pc /\ ~buf[2].fault
<1>1. /\ buf \in Seq(Entry) /\ Len(buf) \in Nat /\ \A i \in 1 .. Len(buf) : Stamped(buf[i])
      /\ Chain(buf, Behind)
  BY DEF FrontInv, UnitInv, FetchInv, FetchTypeOK, StreamInv
<1>2. CASE Len(buf) < 2
  BY <1>1, <1>2 DEF nx, Port, NoEntry
<1>3. CASE Len(buf) >= 2
  <2>1. buf[2] \in Entry /\ Stamped(buf[2])
    BY <1>1, <1>3, ElementOfSeq
  <2>2. nx = [valid |-> TRUE, fault |-> buf[2].fault, pc |-> buf[2].pc, word |-> buf[2].word]
    BY <1>1, <1>3 DEF nx, Port
  <2>3. EntrySucc(buf[1]) = buf[2].pc
    <3>1. 1 \in 1 .. Len(buf) /\ 1 < Len(buf) /\ 1 + 1 = 2
      BY <1>1, <1>3
    <3> QED
      BY <1>1, <3>1 DEF Chain
  <2>4. ~fe.fault => buf[2].pc = Ahead(Word(HeadPc), 4)
    BY <1>1, <1>3, <2>3, HeadPort DEF EntrySucc, Ahead
  <2>5. HeadPc \in Addr
    BY DEF FrontInv
  <2>6. Ahead(Word(HeadPc), 4) \in Addr /\ Ahead(Word(HeadPc), 4) % 4 = 0
        /\ Ahead(Word(HeadPc), 4) % 2 = 0
    BY <2>5, NextWord
  <2> DEFINE p == Ahead(Word(HeadPc), 4)
  <2>7. ~OutOfRange(p) => p \in Halfwords
    BY <2>6, FetchAssumption DEF OutOfRange, Halfwords, Addr
  <2>8. Word(p) = p
    BY <2>6 DEF Word, Addr
  <2> HIDE DEF p
  <2> QED
    BY <1>3, <2>1, <2>2, <2>4, <2>6, <2>7, <2>8 DEF Stamped, Entry, p
<1> QED
  BY <1>1, <1>2, <1>3

\* What is left of the buffer begins with what followed the popped entries.
LEMMA FirstLeft ==
  ASSUME FrontInv, NEW n \in 0 .. 2, n <= Len(buf)
  PROVE  FirstPc(Drop(buf, n), Behind) = IF n = 0 THEN HeadPc ELSE EntrySucc(buf[n])
<1>1. buf \in Seq(Entry) /\ Len(buf) \in Nat /\ Chain(buf, Behind)
  BY DEF FrontInv, UnitInv, FetchInv, FetchTypeOK, StreamInv
<1> DEFINE t == Drop(buf, n)
<1>2. Len(t) = Len(buf) - n /\ (n < Len(buf) => t[1] = buf[n + 1])
  <2>1. \A i \in n + 1 .. Len(buf) : buf[i] \in Entry
    BY <1>1, ElementOfSeq
  <2>2. /\ Len(t) = IF n + 1 <= Len(buf) THEN Len(buf) - (n + 1) + 1 ELSE 0
        /\ \A i \in 1 .. Len(buf) - (n + 1) + 1 : t[i] = buf[(n + 1) + i - 1]
    BY <1>1, <2>1, SubSeqProperties DEF Drop
  <2>3. n < Len(buf) => 1 \in 1 .. Len(buf) - (n + 1) + 1 /\ (n + 1) + 1 - 1 = n + 1
    BY <1>1
  <2> QED
    BY <1>1, <2>2, <2>3
<1> HIDE DEF t
<1>3. n > 0 => EntrySucc(buf[n]) = IF n < Len(buf) THEN buf[n + 1].pc ELSE Behind
  BY <1>1 DEF Chain
<1>4. FirstPc(t, Behind) = IF n < Len(buf) THEN buf[n + 1].pc ELSE Behind
  BY <1>1, <1>2 DEF FirstPc
<1>5. HeadPc = IF 0 < Len(buf) THEN buf[1].pc ELSE Behind
  BY <1>1 DEF HeadPc, FirstPc
<1> QED
  BY <1>1, <1>3, <1>4, <1>5 DEF t

\* The demands decode makes of fetch.
LEMMA DemandsMet ==
  ASSUME FrontInv, NEW s \in BOOLEAN
  PROVE  [stall |-> s, pop2 |-> fe_pop2(fe, nx)] \in Demands
<1>1. fe_pop2(fe, nx) \in BOOLEAN
  BY DEF fe_pop2, target_span_complete
<1>2. fe_pop2(fe, nx) => Len(buf) >= 2
  BY NextPort DEF fe_pop2, target_span_complete
<1> QED
  BY <1>1, <1>2 DEF Demands

\* On an ordinary cycle the head moves by what is popped.
LEMMA HeadMoves ==
  ASSUME FrontInv, NEW s \in BOOLEAN,
         UnitAdvance([stall |-> s, pop2 |-> fe_pop2(fe, nx)])
  PROVE  /\ UnitInv'
         /\ ~fe.valid \/ s => HeadPc' = HeadPc
         /\ fe.valid /\ ~s /\ ~fe_pop2(fe, nx) => HeadPc' = EntrySucc(buf[1])
         /\ fe.valid /\ ~s /\ fe_pop2(fe, nx) => HeadPc' = EntrySucc(buf[2])
<1> DEFINE d == [stall |-> s, pop2 |-> fe_pop2(fe, nx)]
           n == buf_pop_cnt(d)
<1>1. d \in Demands /\ UnitInv /\ Len(buf) \in Nat /\ buf \in Seq(Entry)
  BY DemandsMet DEF FrontInv, UnitInv, FetchInv, FetchTypeOK
<1>2. UnitInv' /\ HeadPc' = FirstPc(Drop(buf, n), Behind)
  BY <1>1, UnitAdvanceStep DEF HeadPc
<1>3. buf # << >> <=> Len(buf) >= 1
  BY <1>1, EmptySeq
<1>4. fe_pop2(fe, nx) => Len(buf) >= 2
  BY NextPort DEF fe_pop2, target_span_complete
<1>5. n = IF fe.valid /\ ~s THEN (IF fe_pop2(fe, nx) THEN 2 ELSE 1) ELSE 0
  BY <1>3, HeadPort DEF buf_pop_cnt
<1> HIDE DEF n, d
<1>6. n \in 0 .. 2 /\ n <= Len(buf)
  BY <1>1, <1>4, <1>5, HeadPort
<1>7. HeadPc' = IF n = 0 THEN HeadPc ELSE EntrySucc(buf[n])
  BY <1>2, <1>6, FirstLeft
<1> QED
  BY <1>2, <1>5, <1>7

\* What follows an entry is an even address.
LEMMA SuccEven ==
  ASSUME FrontInv, NEW i \in 1 .. Len(buf)
  PROVE  EntrySucc(buf[i]) \in Addr /\ EntrySucc(buf[i]) % 2 = 0
<1>1. buf[i] \in Entry
  BY ElementOfSeq DEF FrontInv, UnitInv, FetchInv, FetchTypeOK
<1>2. buf[i].pc \in Addr
  BY <1>1 DEF Entry
<1> QED
  BY <1>2, NextWord, NextBlock DEF EntrySucc, Ahead

-----------------------------------------------------------------------------
(***************************************************************************)
(* Decode.                                                                 *)
(***************************************************************************)
\* The wires of decode with a halfword in the hold buffer.
LEMMA WiresHeld ==
  ASSUME FrontInv, hold_q
  PROVE  /\ prog[hold_pc_q] \in BOOLEAN
         /\ hold_plain_pending <=> ~prog[hold_pc_q]
         /\ take_fault(fe) <=> fe.valid /\ fe.fault /\ prog[hold_pc_q]
         /\ span_complete(fe) <=> fe.valid /\ ~fe.fault /\ prog[hold_pc_q]
         /\ span_wait(fe) <=> ~fe.valid /\ prog[hold_pc_q]
         /\ ~target_upper(fe) /\ ~target_span(fe) /\ ~target_span_complete(fe, nx)
         /\ ~target_span_wait(fe, nx) /\ ~buffer_upper(fe) /\ ~fe_pop2(fe, nx)
         /\ decoded_valid(fe, nx) <=> fe.valid \/ ~prog[hold_pc_q]
         /\ resource_stall(fe) <=> fe.valid /\ ~prog[hold_pc_q]
<1>1. hold_word_q = hold_pc_q /\ prog[hold_pc_q] \in BOOLEAN
  BY DEF FrontInv, HoldInv
<1>2. fe.valid \in BOOLEAN /\ fe.fault \in BOOLEAN
  BY HeadPort
<1> QED
  BY <1>1, <1>2
     DEF hold_plain_pending, hold_is_span, span_pending, take_fault, span_complete, span_wait,
         target_upper, target_span, target_span_complete, target_span_wait, buffer_upper,
         fe_pop2, decoded_valid, resource_stall

\* The same with the hold buffer empty.
LEMMA WiresFree ==
  ASSUME FrontInv, ~hold_q
  PROVE  /\ ~hold_plain_pending /\ ~span_complete(fe) /\ ~span_wait(fe)
         /\ ~resource_stall(fe)
         /\ take_fault(fe) <=> fe.valid /\ fe.fault
         /\ target_upper(fe) <=> fe.valid /\ ~fe.fault /\ HeadPc % 4 = 2
         /\ target_upper(fe) => upper(fe.word) = HeadPc /\ prog[HeadPc] \in BOOLEAN
         /\ target_span(fe) <=> target_upper(fe) /\ prog[HeadPc]
         /\ target_span_complete(fe, nx) <=> target_span(fe) /\ nx.valid /\ ~nx.fault
         /\ target_span_wait(fe, nx) <=> target_span(fe) /\ ~(nx.valid /\ ~nx.fault)
         /\ fe_pop2(fe, nx) <=> target_span_complete(fe, nx)
         /\ fe.valid /\ ~fe.fault /\ ~target_upper(fe) =>
              /\ HeadPc % 4 = 0 /\ lower(fe.word) = HeadPc /\ prog[HeadPc] \in BOOLEAN
              /\ buffer_upper(fe) <=> ~prog[HeadPc]
         /\ target_upper(fe) \/ ~fe.valid => ~buffer_upper(fe)
         /\ decoded_valid(fe, nx) <=> fe.valid /\ ~target_span_wait(fe, nx)
<1>1. /\ fe.valid \in BOOLEAN /\ fe.fault \in BOOLEAN
      /\ fe.valid => fe.pc = HeadPc
      /\ fe.valid /\ ~fe.fault => HeadPc \in Halfwords /\ fe.word = Word(HeadPc)
  BY HeadPort
<1>2. fe.valid /\ ~fe.fault => /\ prog[HeadPc] \in BOOLEAN /\ HeadPc % 4 \in {0, 2}
                               /\ HeadPc % 4 = 0 => Word(HeadPc) = HeadPc
                               /\ HeadPc % 4 = 2 => Word(HeadPc) + 2 = HeadPc
  BY <1>1, HalfFacts DEF FrontInv
<1>3. /\ ~hold_plain_pending /\ ~span_complete(fe) /\ ~span_wait(fe) /\ ~resource_stall(fe)
      /\ take_fault(fe) <=> fe.valid /\ fe.fault
  BY <1>1 DEF hold_plain_pending, span_pending, span_complete, span_wait, take_fault,
              resource_stall
<1>4. target_upper(fe) <=> fe.valid /\ ~fe.fault /\ HeadPc % 4 = 2
  BY <1>1, <1>2, <1>3 DEF target_upper
<1>5. target_upper(fe) => upper(fe.word) = HeadPc
  BY <1>1, <1>2, <1>4 DEF upper
<1>6. target_span(fe) <=> target_upper(fe) /\ prog[HeadPc]
  BY <1>5 DEF target_span
<1>7. fe.valid /\ ~fe.fault /\ ~target_upper(fe) =>
        /\ HeadPc % 4 = 0 /\ lower(fe.word) = HeadPc
        /\ buffer_upper(fe) <=> ~prog[HeadPc]
  BY <1>1, <1>2, <1>4 DEF lower, buffer_upper
<1>8. target_upper(fe) \/ ~fe.valid => ~buffer_upper(fe)
  BY DEF buffer_upper
<1>9. /\ target_span_complete(fe, nx) <=> target_span(fe) /\ nx.valid /\ ~nx.fault
      /\ target_span_wait(fe, nx) <=> target_span(fe) /\ ~(nx.valid /\ ~nx.fault)
      /\ fe_pop2(fe, nx) <=> target_span_complete(fe, nx)
  BY NextPort DEF target_span_complete, target_span_wait, fe_pop2
<1>10. decoded_valid(fe, nx) <=> fe.valid /\ ~target_span_wait(fe, nx)
  BY <1>1, <1>3, <1>4, <1>6, <1>9 DEF decoded_valid
<1> QED
  BY <1>2, <1>3, <1>4, <1>5, <1>6, <1>7, <1>8, <1>9, <1>10

\* The instruction decode presents is the one the parse stands at.
LEMMA Presented ==
  ASSUME FrontInv
  PROVE  /\ can_predict(fe, nx) =>
              /\ Stands \in Halfwords /\ Stream!Settle(Stands) = Stands
              /\ de_d(fe, nx) = Instr(Stands, Stream!Halves(Stands), Stands)
         /\ take_fault(fe) =>
              /\ de_d(fe, nx) = FaultInstr(fe.pc) /\ OutOfRange(fe.pc)
              /\ fe.pc = HeadPc /\ Stream!Settle(Stands) = fe.pc
         /\ ~decoded_valid(fe, nx) => de_d(fe, nx) = Bubble
<1>1. ~decoded_valid(fe, nx) => de_d(fe, nx) = Bubble
  BY DEF de_d
<1>2. ASSUME take_fault(fe)
      PROVE  /\ de_d(fe, nx) = FaultInstr(fe.pc) /\ OutOfRange(fe.pc)
             /\ fe.pc = HeadPc /\ Stream!Settle(Stands) = fe.pc
  <2>1. fe.valid /\ fe.fault /\ decoded_valid(fe, nx)
    BY <1>2 DEF take_fault, decoded_valid
  <2>2. fe.pc = HeadPc /\ OutOfRange(fe.pc)
    BY <2>1, HeadPort
  <2>3. CASE hold_q
    <3>1. prog[hold_pc_q] /\ Stands = hold_pc_q /\ HeadPc = Ahead(hold_pc_q, 2)
          /\ ~OutOfRange(hold_pc_q)
      BY <1>2, <2>3, WiresHeld, HalfFacts DEF FrontInv, HoldInv, Stands
    <3> QED
      BY <1>2, <2>1, <2>2, <3>1
         DEF de_d, Stream!Settle, Stream!Unfetchable, Stream!Plus, OutOfRange, Ahead
  <2>4. CASE ~hold_q
    BY <1>2, <2>1, <2>2, <2>4
       DEF de_d, Stands, Stream!Settle, Stream!Unfetchable, OutOfRange
  <2> QED
    BY <2>3, <2>4
<1>3. ASSUME can_predict(fe, nx)
      PROVE  /\ Stands \in Halfwords /\ Stream!Settle(Stands) = Stands
             /\ de_d(fe, nx) = Instr(Stands, Stream!Halves(Stands), Stands)
  <2>1. decoded_valid(fe, nx) /\ ~take_fault(fe)
    BY <1>3 DEF can_predict
  <2>2. de_d(fe, nx) = Instr(src_pc(fe), src_halves(fe, nx), pht_taken_src(fe))
    BY <2>1 DEF de_d
  <2>3. CASE hold_q
    <3>1. /\ Stands = hold_pc_q /\ hold_pc_q \in Halfwords /\ ~OutOfRange(hold_pc_q)
          /\ hold_word_q = hold_pc_q /\ hold_pred_q = hold_pc_q
          /\ HeadPc = Ahead(hold_pc_q, 2) /\ hold_pc_q % 4 = 2
      BY <2>3, HalfFacts DEF FrontInv, HoldInv, Stands
    <3>2. from_hold(fe)
      BY <2>1, <2>3, WiresHeld, HeadPort DEF from_hold
    <3>3. src_pc(fe) = Stands /\ pht_taken_src(fe) = Stands
      BY <3>1, <3>2 DEF src_pc, pht_taken_src
    <3>4. CASE ~prog[hold_pc_q]
      <4>1. src_halves(fe, nx) = <<hold_pc_q>>
        BY <2>3, <3>1, <3>4, WiresHeld DEF src_halves
      <4> QED
        BY <2>2, <3>1, <3>3, <3>4, <4>1 DEF Stream!Halves, Stream!Settle
    <3>5. CASE prog[hold_pc_q]
      <4>1. fe.valid /\ ~fe.fault
        BY <2>1, <2>3, <3>5, WiresHeld, HeadPort
      <4>2. fe.word = Word(HeadPc) /\ HeadPc \in Halfwords /\ HeadPc % 4 = 0
        <5>1. hold_pc_q \in Addr /\ HeadPc = Ahead(Word(hold_pc_q), 4)
          BY <3>1, HalfFacts
        <5>2. HeadPc % 4 = 0
          BY <5>1, NextWord
        <5> QED
          BY <4>1, <5>2, HeadPort
      <4>3. lower(fe.word) = HeadPc /\ ~OutOfRange(HeadPc)
        BY <4>2, HalfFacts DEF lower
      <4>4. src_halves(fe, nx) = <<hold_pc_q, HeadPc>>
        BY <2>3, <3>1, <3>5, <4>1, <4>3, WiresHeld DEF src_halves
      <4> QED
        BY <2>2, <3>1, <3>3, <3>5, <4>3, <4>4
           DEF Stream!Halves, Stream!Settle, Stream!Plus, Stream!Unfetchable, Ahead, OutOfRange
    <3> QED
      BY <3>4, <3>5, WiresHeld, <2>3
  <2>4. CASE ~hold_q
    <3>1. /\ fe.valid /\ ~fe.fault /\ ~target_span_wait(fe, nx)
          /\ Stands = HeadPc /\ fe.pc = HeadPc /\ HeadPc \in Halfwords /\ fe.word = Word(HeadPc)
      BY <2>1, <2>4, WiresFree, HeadPort DEF Stands
    <3>2. ~from_hold(fe) /\ ~span_complete(fe) /\ ~hold_plain_pending
      BY <2>4, WiresFree DEF from_hold
    <3>3. HeadPc \in Nat /\ HeadPc % 4 \in {0, 2} /\ ~OutOfRange(HeadPc)
      BY <3>1, HalfFacts
    <3>4. src_pc(fe) = Stands /\ pht_taken_src(fe) = Stands
      BY <3>1, <3>2, <3>3 DEF src_pc, pht_taken_src, pred_hi, pred_lo
    <3>5. CASE HeadPc % 4 = 2
      <4>1. target_upper(fe) /\ upper(fe.word) = HeadPc /\ prog[HeadPc] \in BOOLEAN
        BY <2>4, <3>1, <3>5, WiresFree
      <4>2. CASE prog[HeadPc]
        <5>1. target_span_complete(fe, nx) /\ target_span(fe) /\ nx.valid /\ ~nx.fault
          BY <2>4, <3>1, <4>1, <4>2, WiresFree, NextPort
        <5>2. /\ nx.pc = Ahead(HeadPc, 2) /\ nx.word = nx.pc /\ nx.pc \in Halfwords
          BY <3>1, <3>5, <5>1, NextPort, HalfFacts
        <5>3. ~OutOfRange(nx.pc)
          BY <5>2, HalfFacts
        <5>4. src_halves(fe, nx) = <<HeadPc, Ahead(HeadPc, 2)>>
          BY <3>2, <4>1, <5>1, <5>2 DEF src_halves, lower
        <5> QED
          BY <2>2, <3>1, <3>3, <3>4, <4>2, <5>2, <5>3, <5>4
             DEF Stream!Halves, Stream!Settle, Stream!Plus, Stream!Unfetchable, Ahead, OutOfRange
      <4>3. CASE ~prog[HeadPc]
        <5>1. ~target_span(fe) /\ ~target_span_complete(fe, nx)
          BY <2>4, <4>3, WiresFree
        <5>2. src_halves(fe, nx) = <<HeadPc>>
          BY <3>2, <4>1, <5>1 DEF src_halves
        <5> QED
          BY <2>2, <3>1, <3>4, <4>3, <5>2 DEF Stream!Halves, Stream!Settle
      <4> QED
        BY <4>1, <4>2, <4>3
    <3>6. CASE HeadPc % 4 = 0
      <4>1. /\ ~target_upper(fe) /\ ~target_span_complete(fe, nx)
            /\ lower(fe.word) = HeadPc /\ prog[HeadPc] \in BOOLEAN
        BY <2>4, <3>1, <3>6, WiresFree
      <4>2. HeadPc + 2 = Ahead(HeadPc, 2) /\ upper(fe.word) = HeadPc + 2
            /\ ~OutOfRange(HeadPc + 2)
        <5>1. HeadPc + 2 \in Halfwords /\ Word(HeadPc) = HeadPc /\ HeadPc + 2 = Ahead(HeadPc, 2)
          BY <3>1, <3>6, HalfFacts
        <5> QED
          BY <3>1, <5>1, HalfFacts DEF upper
      <4>3. src_halves(fe, nx) = IF prog[HeadPc] THEN <<HeadPc, HeadPc + 2>> ELSE <<HeadPc>>
        BY <3>2, <4>1, <4>2 DEF src_halves
      <4> QED
        BY <2>2, <3>1, <3>3, <3>4, <4>1, <4>2, <4>3
           DEF Stream!Halves, Stream!Settle, Stream!Plus, Stream!Unfetchable, Ahead, OutOfRange
    <3> QED
      BY <3>3, <3>5, <3>6
  <2> QED
    BY <2>3, <2>4
<1> QED
  BY <1>1, <1>2, <1>3

\* What the hold buffer may take: an upper halfword, with the buffer behind it.
LEMMA StashHolds ==
  ASSUME NEW h \in Halfwords, h % 4 = 2, Stash(h, h, h), HeadPc' = Ahead(h, 2)
  PROVE  HoldInv' /\ Stands' = h
BY DEF Stash, HoldInv, Stands, Ahead

\* An empty hold buffer claims nothing.
LEMMA ClearHolds ==
  ASSUME ClearStash
  PROVE  HoldInv' /\ Stands' = HeadPc'
BY DEF ClearStash, HoldInv, Stands

\* A hold buffer that stays, in front of a head that stays.
LEMMA KeepHolds ==
  ASSUME HoldInv, KeepStash, HeadPc' = HeadPc
  PROVE  HoldInv' /\ Stands' = Stands
BY DEF KeepStash, HoldInv, Stands, Ahead

\* A cycle in which decode consumes its source: the parse moves on by the size
\* of the instruction presented, and not at all if there is none.
LEMMA Consumed ==
  ASSUME FrontInv, HoldConsume(fe, nx),
         UnitAdvance([stall |-> resource_stall(fe), pop2 |-> fe_pop2(fe, nx)])
  PROVE  /\ UnitInv' /\ HeadPc' \in Addr /\ HeadPc' % 2 = 0 /\ HoldInv'
         /\ can_predict(fe, nx) => Stands' = Ahead(Stands, Stream!Size(Stands))
         /\ ~decoded_valid(fe, nx) => Stands' = Stands
<1>1. resource_stall(fe) \in BOOLEAN
  BY DEF resource_stall
<1>2. /\ UnitInv'
      /\ ~fe.valid \/ resource_stall(fe) => HeadPc' = HeadPc
      /\ fe.valid /\ ~resource_stall(fe) /\ ~fe_pop2(fe, nx) => HeadPc' = EntrySucc(buf[1])
      /\ fe.valid /\ ~resource_stall(fe) /\ fe_pop2(fe, nx) => HeadPc' = EntrySucc(buf[2])
  BY <1>1, HeadMoves
<1>3. /\ HeadPc \in Addr /\ HeadPc % 2 = 0 /\ HoldInv
      /\ fe.valid \in BOOLEAN /\ fe.fault \in BOOLEAN
  BY HeadPort DEF FrontInv
<1>4. HeadPc' \in Addr /\ HeadPc' % 2 = 0
  <2>1. fe.valid => 1 \in 1 .. Len(buf)
    BY HeadPort DEF FrontInv, UnitInv, FetchInv, FetchTypeOK
  <2>2. fe_pop2(fe, nx) => 2 \in 1 .. Len(buf)
    BY NextPort DEF FrontInv, UnitInv, FetchInv, FetchTypeOK, fe_pop2, target_span_complete
  <2>3. /\ fe.valid => EntrySucc(buf[1]) \in Addr /\ EntrySucc(buf[1]) % 2 = 0
        /\ fe_pop2(fe, nx) => EntrySucc(buf[2]) \in Addr /\ EntrySucc(buf[2]) % 2 = 0
    BY <2>1, <2>2, SuccEven
  <2> QED
    BY <1>1, <1>2, <1>3, <2>3
<1>5. fe.valid /\ ~fe.fault => EntrySucc(buf[1]) = Ahead(Word(HeadPc), 4)
  BY HeadPort DEF EntrySucc, Ahead
<1>6. HoldInv' /\ (can_predict(fe, nx) => Stands' = Ahead(Stands, Stream!Size(Stands)))
               /\ (~decoded_valid(fe, nx) => Stands' = Stands)
  <2>1. CASE take_fault(fe)
    <3>1. ClearStash
      BY <2>1 DEF HoldConsume
    <3>2. ~can_predict(fe, nx) /\ decoded_valid(fe, nx)
      BY <2>1 DEF can_predict, decoded_valid
    <3> QED
      BY <3>1, <3>2, ClearHolds
  <2>2. CASE ~take_fault(fe) /\ hold_q
    <3>1. /\ Stands = hold_pc_q /\ hold_pc_q \in Halfwords /\ hold_pc_q % 4 = 2
          /\ HeadPc = Ahead(hold_pc_q, 2)
      BY <1>3, <2>2 DEF HoldInv, Stands
    <3>2. CASE ~prog[hold_pc_q]
      <4>1. ClearStash /\ HeadPc' = HeadPc
        BY <1>2, <1>3, <2>2, <3>2, WiresHeld DEF HoldConsume
      <4>2. decoded_valid(fe, nx) /\ Stream!Size(Stands) = 2
        BY <2>2, <3>1, <3>2, WiresHeld DEF Stream!Size
      <4> QED
        BY <3>1, <4>1, <4>2, ClearHolds
    <3>3. CASE prog[hold_pc_q] /\ ~fe.valid
      <4>1. KeepStash /\ HeadPc' = HeadPc /\ ~decoded_valid(fe, nx)
        BY <1>2, <2>2, <3>3, WiresHeld DEF HoldConsume
      <4> QED
        BY <1>3, <4>1, KeepHolds DEF can_predict
    <3>4. CASE prog[hold_pc_q] /\ fe.valid
      <4>1. ~fe.fault /\ decoded_valid(fe, nx)
            /\ Stash(upper(fe.word), fe.pc + 2, pred_hi(fe))
        BY <2>2, <3>4, WiresHeld DEF HoldConsume
      <4>2. HeadPc' = Ahead(Word(HeadPc), 4)
        BY <1>2, <1>5, <2>2, <3>4, <4>1, WiresHeld
      <4>3. HeadPc \in Halfwords /\ fe.pc = HeadPc /\ fe.word = Word(HeadPc)
        BY <3>4, <4>1, HeadPort
      <4>4. HeadPc % 4 = 0
        <5>1. hold_pc_q \in Addr /\ HeadPc = Ahead(Word(hold_pc_q), 4)
          BY <3>1, HalfFacts
        <5> QED
          BY <5>1, NextWord
      <4>5. /\ HeadPc \in Nat /\ Word(HeadPc) = HeadPc /\ HeadPc + 2 \in Halfwords
            /\ (HeadPc + 2) % 4 = 2
        BY <4>3, <4>4, HalfFacts
      <4>6. Ahead(HeadPc + 2, 2) = HeadPc'
        <5>1. (HeadPc + 2) + 2 = HeadPc + 4
          BY <4>5
        <5> QED
          BY <4>2, <4>5, <5>1 DEF Ahead
      <4>7. upper(fe.word) = HeadPc + 2 /\ pred_hi(fe) = HeadPc + 2
        BY <4>3, <4>4, <4>5 DEF upper, pred_hi
      <4>8. HoldInv' /\ Stands' = HeadPc + 2
        BY <4>1, <4>3, <4>5, <4>6, <4>7, StashHolds
      <4>9. Ahead(Stands, Stream!Size(Stands)) = HeadPc + 2
        <5>1. Stream!Size(Stands) = 4
          BY <3>1, <3>4 DEF Stream!Size
        <5> QED
          BY <3>1, <4>3, <5>1, FourAhead
      <4> QED
        BY <4>1, <4>8, <4>9
    <3> QED
      BY <2>2, <1>3, <3>2, <3>3, <3>4, WiresHeld
  <2>3. CASE ~take_fault(fe) /\ ~hold_q /\ ~fe.valid
    <3>1. ClearStash /\ HeadPc' = HeadPc /\ ~decoded_valid(fe, nx)
      BY <1>2, <2>3, WiresFree DEF HoldConsume
    <3> QED
      BY <2>3, <3>1, ClearHolds DEF Stands, can_predict
  <2>4. CASE ~take_fault(fe) /\ ~hold_q /\ fe.valid
    <3>1. /\ ~fe.fault /\ HeadPc \in Halfwords /\ fe.pc = HeadPc /\ fe.word = Word(HeadPc)
          /\ Stands = HeadPc
      BY <2>4, WiresFree, HeadPort DEF Stands
    <3>2. HeadPc \in Nat
      BY <3>1, HalfFacts
    <3>3. CASE HeadPc % 4 = 2
      <4>1. target_upper(fe) /\ upper(fe.word) = HeadPc /\ prog[HeadPc] \in BOOLEAN
        BY <2>4, <3>1, <3>3, WiresFree
      <4>2. Ahead(HeadPc, 2) = Ahead(Word(HeadPc), 4)
        BY <3>1, <3>3, HalfFacts
      <4>3. CASE ~prog[HeadPc]
        <5>1. ClearStash /\ HeadPc' = Ahead(HeadPc, 2)
          BY <1>2, <1>5, <2>4, <3>1, <4>1, <4>2, <4>3, WiresFree DEF HoldConsume
        <5>2. decoded_valid(fe, nx) /\ Stream!Size(Stands) = 2
          BY <2>4, <3>1, <4>3, WiresFree DEF Stream!Size
        <5> QED
          BY <3>1, <5>1, <5>2, ClearHolds
      <4>4. CASE prog[HeadPc] /\ nx.valid /\ ~nx.fault
        <5>1. /\ target_span_complete(fe, nx) /\ fe_pop2(fe, nx) /\ decoded_valid(fe, nx)
              /\ ~span_wait(fe) /\ ~span_complete(fe) /\ ~hold_plain_pending
              /\ ~resource_stall(fe)
          BY <2>4, <4>1, <4>4, WiresFree
        <5>2. Stash(upper(nx.word), nx.pc + 2, pred_hi(nx))
          BY <2>4, <5>1 DEF HoldConsume
        <5>3. /\ nx.pc = Ahead(HeadPc, 2) /\ nx.pc \in Halfwords /\ nx.pc % 4 = 0
              /\ nx.word = nx.pc /\ buf[2].pc = nx.pc /\ ~buf[2].fault
          BY <3>1, <4>2, <4>4, NextPort
        <5>4. /\ nx.pc \in Nat /\ Word(nx.pc) = nx.pc /\ nx.pc + 2 \in Halfwords
              /\ (nx.pc + 2) % 4 = 2
          BY <5>3, HalfFacts
        <5>5. HeadPc' = Ahead(nx.pc + 2, 2)
          <6>1. (nx.pc + 2) + 2 = nx.pc + 4
            BY <5>4
          <6> QED
            BY <1>2, <2>4, <5>1, <5>3, <5>4, <6>1 DEF EntrySucc, Ahead
        <5>6. upper(nx.word) = nx.pc + 2 /\ pred_hi(nx) = nx.pc + 2
          BY <5>3, <5>4 DEF upper, pred_hi
        <5>7. HoldInv' /\ Stands' = nx.pc + 2
          BY <5>2, <5>4, <5>5, <5>6, StashHolds
        <5>8. Ahead(Stands, Stream!Size(Stands)) = nx.pc + 2
          <6>1. Stream!Size(Stands) = 4
            BY <3>1, <4>4 DEF Stream!Size
          <6> QED
            BY <3>1, <3>3, <5>3, <6>1, FourAhead
        <5> QED
          BY <5>1, <5>7, <5>8
      <4>5. CASE prog[HeadPc] /\ ~(nx.valid /\ ~nx.fault)
        <5>1. /\ target_span_wait(fe, nx) /\ ~target_span_complete(fe, nx) /\ ~fe_pop2(fe, nx)
              /\ ~decoded_valid(fe, nx) /\ ~span_wait(fe) /\ ~span_complete(fe)
              /\ ~hold_plain_pending /\ ~resource_stall(fe)
          BY <2>4, <4>1, <4>5, WiresFree
        <5>2. Stash(upper(fe.word), fe.pc, pred_hi(fe))
          BY <2>4, <5>1 DEF HoldConsume
        <5>3. pred_hi(fe) = HeadPc
          BY <3>1, <3>2, <3>3 DEF pred_hi
        <5>4. HeadPc' = Ahead(HeadPc, 2)
          BY <1>2, <1>5, <2>4, <3>1, <4>2, <5>1
        <5>5. HoldInv' /\ Stands' = HeadPc
          BY <3>1, <3>3, <4>1, <5>2, <5>3, <5>4, StashHolds
        <5> QED
          BY <3>1, <5>1, <5>5 DEF can_predict
      <4> QED
        BY <4>1, <4>3, <4>4, <4>5
    <3>4. CASE HeadPc % 4 = 0
      <4>1. /\ ~target_upper(fe) /\ ~target_span_complete(fe, nx) /\ ~target_span_wait(fe, nx)
            /\ ~fe_pop2(fe, nx) /\ decoded_valid(fe, nx) /\ ~span_wait(fe) /\ ~span_complete(fe)
            /\ ~hold_plain_pending /\ ~resource_stall(fe) /\ prog[HeadPc] \in BOOLEAN
            /\ buffer_upper(fe) <=> ~prog[HeadPc]
        BY <2>4, <3>1, <3>4, WiresFree
      <4>2. /\ Word(HeadPc) = HeadPc /\ HeadPc + 2 \in Halfwords /\ (HeadPc + 2) % 4 = 2
            /\ Ahead(HeadPc, 2) = HeadPc + 2
        BY <3>1, <3>4, HalfFacts
      <4>3. HeadPc' = Ahead(HeadPc, 4)
        BY <1>2, <1>5, <2>4, <3>1, <4>1, <4>2
      <4>4. CASE prog[HeadPc]
        <5>1. ClearStash
          BY <2>4, <4>1, <4>4 DEF HoldConsume
        <5>2. Stream!Size(Stands) = 4
          BY <3>1, <4>4 DEF Stream!Size
        <5> QED
          BY <3>1, <4>1, <4>3, <5>1, <5>2, ClearHolds
      <4>5. CASE ~prog[HeadPc]
        <5>1. Stash(upper(fe.word), fe.pc + 2, pred_hi(fe))
          BY <2>4, <4>1, <4>5 DEF HoldConsume
        <5>2. upper(fe.word) = HeadPc + 2 /\ pred_hi(fe) = HeadPc + 2
          BY <3>1, <3>2, <3>4, <4>2 DEF upper, pred_hi
        <5>3. HeadPc' = Ahead(HeadPc + 2, 2)
          <6>1. (HeadPc + 2) + 2 = HeadPc + 4
            BY <3>2
          <6> QED
            BY <4>3, <6>1 DEF Ahead
        <5>4. HoldInv' /\ Stands' = HeadPc + 2
          BY <3>1, <4>2, <5>1, <5>2, <5>3, StashHolds
        <5>5. Stream!Size(Stands) = 2
          BY <3>1, <4>5 DEF Stream!Size
        <5> QED
          BY <3>1, <4>1, <4>2, <5>4, <5>5
      <4> QED
        BY <4>1, <4>4, <4>5
    <3> QED
      BY <3>1, <3>3, <3>4, HalfFacts
  <2> QED
    BY <1>3, <2>1, <2>2, <2>3, <2>4 DEF HoldInv
<1> QED
  BY <1>2, <1>4, <1>6

-----------------------------------------------------------------------------
(***************************************************************************)
(* The invariant and the refinement, action by action.                     *)
(***************************************************************************)
\* The state of the abstract stream is where the parse stands.
LEMMA SettledIs == UnitInv => SettledPc = Stream!Settle(Stands)
<1> SUFFICES ASSUME UnitInv PROVE SettledPc = Stream!Settle(Stands)
  OBVIOUS
<1>1. buf \in Seq(Entry) /\ Len(buf) \in Nat
  BY DEF UnitInv, FetchInv, FetchTypeOK
<1>2. buf # << >> <=> Len(buf) > 0
  BY <1>1, EmptySeq
<1>3. StreamPc = Stands
  BY <1>2, ReadsBehind DEF StreamPc, Stands, HeadPc, FirstPc
<1> QED
  BY <1>3 DEF SettledPc, Stream!Settle, Stream!Unfetchable, Stream!Plus, OutOfRange

\* Also behind the edge.
LEMMA SettledIsNext ==
  ASSUME UnitInv', prog' = prog
  PROVE  SettledPc' = Stream!Settle(Stands')
<1>1. (UnitInv => SettledPc = Stream!Settle(Stands))'
  BY SettledIs, PTL
<1> QED
  BY <1>1 DEF Stream!Settle

\* The fields of what decode puts into D/E.
LEMMA DeFields ==
  /\ Bubble.valid = FALSE /\ Bubble.fault = FALSE
  /\ \A p : FaultInstr(p).valid = TRUE /\ FaultInstr(p).fault = TRUE /\ FaultInstr(p).pc = p
  /\ \A p, h, b : LET i == Instr(p, h, b)
                  IN  /\ i.valid = TRUE /\ i.fault = FALSE /\ i.pc = p /\ i.halves = h
                      /\ i.pred = b /\ i.taken = FALSE
  /\ \A p, h, b, t : LET i == [Instr(p, h, b) EXCEPT !.taken = TRUE, !.target = t]
                     IN  /\ i.valid = TRUE /\ i.fault = FALSE /\ i.pc = p /\ i.halves = h
                         /\ i.pred = b /\ i.taken = TRUE /\ i.target = t
BY DEF Bubble, FaultInstr, Instr

\* Both kinds of redirect: fetch goes on at the target, the stash is gone.
LEMMA Redirected ==
  ASSUME FrontInv, NEW t \in Targets, ClearStash,
         UnitRedirect(ExecRedirectTo(t)) \/ UnitRedirect(PredRedirectTo(t))
  PROVE  /\ UnitInv' /\ HeadPc' \in Addr /\ HeadPc' % 2 = 0
         /\ HoldInv' /\ Stands' = t
<1>1. UnitInv /\ t \in Addr /\ t % 2 = 0
  BY FrontAssumption, FetchAssumption DEF FrontInv, Addr
<1>2. UnitInv' /\ HeadPc' = t
  <2>1. CASE UnitRedirect(ExecRedirectTo(t))
    BY <1>1, <2>1, RedirectsTyped, UnitRedirectStep DEF HeadPc, ExecRedirectTo
  <2>2. CASE UnitRedirect(PredRedirectTo(t))
    BY <1>1, <2>2, RedirectsTyped, UnitRedirectStep DEF HeadPc, PredRedirectTo
  <2> QED
    BY <2>1, <2>2
<1> QED
  BY <1>1, <1>2, ClearHolds

\* Execute redirects.
LEMMA FlushStep ==
  ASSUME FrontInv, NEW t \in Targets, FrontFlush(t)
  PROVE  FrontInv' /\ Stream!StreamNext
<1>1. /\ ClearStash /\ de_q' = Bubble /\ prog' = prog /\ UnitRedirect(ExecRedirectTo(t))
  BY DEF FrontFlush, DecodeFlush
<1>2. /\ UnitInv' /\ HeadPc' \in Addr /\ HeadPc' % 2 = 0 /\ HoldInv' /\ Stands' = t
  BY <1>1, Redirected
<1>3. FrontInv'
  BY <1>1, <1>2, DeFields DEF FrontInv, DeInv, PredictionIsOwn
<1>4. SettledPc' = Stream!Settle(t)
  BY <1>1, <1>2, SettledIsNext
<1> QED
  BY <1>1, <1>3, <1>4, DeFields DEF Stream!StreamNext, Stream!StreamFlush

\* Decode steers fetch by a prediction.
LEMMA PredictStep ==
  ASSUME FrontInv, NEW t \in Targets, FrontPredict(t)
  PROVE  FrontInv' /\ Stream!StreamNext
<1>1. /\ ~holds_fault /\ can_predict(fe, nx) /\ ClearStash /\ prog' = prog
      /\ de_q' = [de_d(fe, nx) EXCEPT !.taken = TRUE, !.target = t]
      /\ UnitRedirect(PredRedirectTo(t))
  BY DEF FrontPredict, DecodePredict
<1>2. /\ UnitInv' /\ HeadPc' \in Addr /\ HeadPc' % 2 = 0 /\ HoldInv' /\ Stands' = t
  BY <1>1, Redirected
<1>3. /\ Stands \in Halfwords /\ Stream!Settle(Stands) = Stands
      /\ de_d(fe, nx) = Instr(Stands, Stream!Halves(Stands), Stands)
  BY <1>1, Presented
<1>4. /\ de_q'.valid = TRUE /\ de_q'.fault = FALSE /\ de_q'.pc = Stands
      /\ de_q'.halves = Stream!Halves(Stands)
      /\ de_q'.pred = Stands /\ de_q'.taken = TRUE /\ de_q'.target = t
  BY <1>1, <1>3, DeFields
<1>5. FrontInv'
  BY <1>1, <1>2, <1>4 DEF FrontInv, DeInv, PredictionIsOwn
<1>6. SettledPc' = Stream!Settle(t) /\ SettledPc = Stands
  BY <1>1, <1>2, <1>3, SettledIs, SettledIsNext DEF FrontInv
<1>7. ~Stream!Unfetchable(SettledPc)
  BY <1>3, <1>6, HalfFacts DEF Stream!Unfetchable, OutOfRange
<1>8. Stream!HandOver
  BY <1>1, <1>4, <1>6, <1>7 DEF Stream!HandOver, holds_fault
<1> QED
  BY <1>1, <1>5, <1>8 DEF Stream!StreamNext

\* Execute holds D/E.
LEMMA StallStep ==
  ASSUME FrontInv, FrontStall
  PROVE  FrontInv' /\ Stream!StreamNext
<1>1. /\ UnitAdvance([stall |-> TRUE, pop2 |-> fe_pop2(fe, nx)])
      /\ IF take_fault(fe) THEN ClearStash ELSE KeepStash
      /\ de_q' = de_q /\ prog' = prog
  BY DEF FrontStall, DecodeStall
<1>2. UnitInv' /\ HeadPc' = HeadPc
  BY <1>1, HeadMoves
<1>3. HoldInv' /\ Stream!Settle(Stands') = Stream!Settle(Stands)
  <2>1. CASE take_fault(fe)
    <3>1. HoldInv' /\ Stands' = HeadPc
      BY <1>1, <1>2, <2>1, ClearHolds
    <3>2. Stream!Settle(Stands) = HeadPc /\ OutOfRange(HeadPc)
      BY <2>1, Presented
    <3> QED
      BY <3>1, <3>2 DEF Stream!Settle, Stream!Unfetchable, OutOfRange
  <2>2. CASE ~take_fault(fe)
    BY <1>1, <1>2, <2>2, KeepHolds DEF FrontInv
  <2> QED
    BY <2>1, <2>2
<1>4. FrontInv'
  BY <1>1, <1>2, <1>3 DEF FrontInv, DeInv, PredictionIsOwn
<1>5. SettledPc' = SettledPc
  BY <1>1, <1>2, <1>3, SettledIs, SettledIsNext DEF FrontInv
<1> QED
  BY <1>1, <1>4, <1>5 DEF Stream!StreamNext, Stream!Keep

\* An ordinary cycle.
LEMMA RunStep ==
  ASSUME FrontInv, FrontRun
  PROVE  FrontInv' /\ Stream!StreamNext
<1>1. /\ ~holds_fault /\ HoldConsume(fe, nx) /\ de_q' = de_d(fe, nx) /\ prog' = prog
      /\ UnitAdvance([stall |-> resource_stall(fe), pop2 |-> fe_pop2(fe, nx)])
  BY DEF FrontRun, DecodeConsume
<1>2. /\ UnitInv' /\ HeadPc' \in Addr /\ HeadPc' % 2 = 0 /\ HoldInv'
      /\ can_predict(fe, nx) => Stands' = Ahead(Stands, Stream!Size(Stands))
      /\ ~decoded_valid(fe, nx) => Stands' = Stands
  BY <1>1, Consumed
<1>3. SettledPc = Stream!Settle(Stands) /\ SettledPc' = Stream!Settle(Stands')
  BY <1>1, <1>2, SettledIs, SettledIsNext DEF FrontInv
<1>4. ~(de_q.valid /\ de_q.fault)
  BY <1>1 DEF holds_fault
<1>5. CASE can_predict(fe, nx)
  <2>1. /\ Stands \in Halfwords /\ Stream!Settle(Stands) = Stands
        /\ de_q' = Instr(Stands, Stream!Halves(Stands), Stands)
    BY <1>1, <1>5, Presented
  <2>2. /\ de_q'.valid = TRUE /\ de_q'.fault = FALSE /\ de_q'.pc = Stands
        /\ de_q'.halves = Stream!Halves(Stands) /\ de_q'.pred = Stands /\ de_q'.taken = FALSE
    BY <2>1, DeFields
  <2>3. FrontInv'
    BY <1>1, <1>2, <2>2 DEF FrontInv, DeInv, PredictionIsOwn
  <2>4. ~Stream!Unfetchable(Stands)
    BY <2>1, HalfFacts DEF Stream!Unfetchable, OutOfRange
  <2>5. SettledPc' = Stream!Settle(Stream!Plus(Stands, Stream!Size(Stands)))
    BY <1>2, <1>3, <1>5 DEF Ahead, Stream!Plus
  <2>6. Stream!HandOver
    BY <1>3, <1>4, <2>1, <2>2, <2>4, <2>5 DEF Stream!HandOver
  <2> QED
    BY <1>1, <2>3, <2>6 DEF Stream!StreamNext
<1>6. CASE take_fault(fe)
  <2>1. /\ de_q' = FaultInstr(fe.pc) /\ OutOfRange(fe.pc) /\ SettledPc = fe.pc
    BY <1>1, <1>3, <1>6, Presented
  <2>2. de_q'.valid = TRUE /\ de_q'.fault = TRUE /\ de_q'.pc = fe.pc
    BY <2>1, DeFields
  <2>3. FrontInv'
    BY <1>1, <1>2, <2>2 DEF FrontInv, DeInv, PredictionIsOwn
  <2>4. SettledPc' \in 0 .. ADDR_SPACE - 1
    <3>1. Stands' = HeadPc'
      <4>1. ClearStash
        BY <1>1, <1>6 DEF HoldConsume
      <4> QED
        BY <4>1, ClearHolds
    <3>2. HeadPc' + 2 \in Nat
      <4>1. HeadPc' \in Addr
        BY <1>2
      <4>2. \A a \in Addr : a + 2 \in Nat
        BY FetchAssumption DEF Addr
      <4> QED
        BY <4>1, <4>2
    <3>3. (HeadPc' + 2) % ADDR_SPACE \in 0 .. ADDR_SPACE - 1
      BY <3>2, FetchAssumption, ModRange
    <3>4. Stream!Settle(HeadPc') \in {HeadPc', (HeadPc' + 2) % ADDR_SPACE}
      BY DEF Stream!Settle, Stream!Plus
    <3> QED
      BY <1>2, <1>3, <3>1, <3>3, <3>4 DEF Addr
  <2>5. Stream!HandOverFault
    BY <1>4, <2>1, <2>2, <2>4 DEF Stream!HandOverFault, Stream!Unfetchable, OutOfRange
  <2> QED
    BY <1>1, <2>3, <2>5 DEF Stream!StreamNext
<1>7. CASE ~decoded_valid(fe, nx)
  <2>1. de_q' = Bubble /\ Stands' = Stands
    BY <1>1, <1>2, <1>7, Presented
  <2>2. FrontInv'
    BY <1>1, <1>2, <2>1, DeFields DEF FrontInv, DeInv, PredictionIsOwn
  <2>3. Stream!Gap
    BY <1>3, <1>4, <2>1, DeFields DEF Stream!Gap
  <2> QED
    BY <1>1, <2>2, <2>3 DEF Stream!StreamNext
<1> QED
  BY <1>5, <1>6, <1>7 DEF can_predict

\* Reset.
LEMMA FrontStarts ==
  ASSUME FrontInit
  PROVE  FrontInv /\ Stream!StreamInit
<1>1. /\ UnitInv /\ buf = << >> /\ Behind = BOOT_ADDR
      /\ prog \in Programs /\ hold_q = FALSE /\ de_q = Bubble
  BY UnitStarts DEF FrontInit, DecodeReset
<1>2. HeadPc = BOOT_ADDR /\ Stands = BOOT_ADDR
  BY <1>1 DEF HeadPc, FirstPc, Stands
<1>3. BOOT_ADDR \in Addr /\ BOOT_ADDR % 2 = 0 /\ prog \in [Halfwords -> BOOLEAN]
  BY <1>1, FrontAssumption, FetchAssumption DEF Addr, Halfwords
<1>4. FrontInv
  BY <1>1, <1>2, <1>3, DeFields DEF FrontInv, HoldInv, DeInv, PredictionIsOwn
<1> QED
  BY <1>1, <1>2, <1>4, SettledIs, DeFields DEF Stream!StreamInit, Stream!Empty

\* Every edge of the front end is a step of the stream.
LEMMA FrontStep ==
  ASSUME FrontInv, [FrontNext]_frontVars
  PROVE  FrontInv' /\ [Stream!StreamNext]_(Stream!streamVars)
<1>1. CASE \E t \in Targets : FrontFlush(t)
  BY <1>1, FlushStep
<1>2. CASE \E t \in Targets : FrontPredict(t)
  BY <1>2, PredictStep
<1>3. CASE FrontStall
  BY <1>3, StallStep
<1>4. CASE FrontRun
  BY <1>4, RunStep
<1>5. CASE UNCHANGED frontVars
  <2>1. UNCHANGED unitVars /\ UNCHANGED decodeVars
    BY <1>5 DEF frontVars
  <2>2. UnitInv' /\ HeadPc' = HeadPc
    <3>1. UnitInv'
      BY <2>1, UnitStutters DEF FrontInv
    <3> QED
      BY <2>1, <3>1 DEF unitVars, fetchVars, imemVars, HeadPc, FirstPc, Behind, Frontier,
                        pc_next_block, Block
  <2>3. HoldInv' /\ Stands' = Stands
    BY <2>1, <2>2, KeepHolds DEF FrontInv, decodeVars, KeepStash
  <2>4. FrontInv'
    BY <2>1, <2>2, <2>3 DEF FrontInv, decodeVars, DeInv, PredictionIsOwn
  <2>5. SettledPc' = SettledPc
    BY <2>1, <2>2, <2>3, SettledIs, SettledIsNext DEF FrontInv, decodeVars
  <2> QED
    BY <2>1, <2>4, <2>5 DEF decodeVars, Stream!streamVars
<1> QED
  BY <1>1, <1>2, <1>3, <1>4, <1>5 DEF FrontNext

\* The invariant of the front end.
LEMMA FrontInvariant == FrontSpec => []FrontInv
BY FrontStarts, FrontStep, PTL DEF FrontSpec

(***************************************************************************)
(* Fetch, memory and decode implement the instruction stream, for every    *)
(* program and however stalls, redirects, predictions, faults and the      *)
(* answers of the memory fall.                                             *)
(***************************************************************************)
THEOREM FrontRefinesStream == FrontSpec => FrontImplementsStream
<1>1. FrontInit => Stream!StreamInit
  BY FrontStarts
<1>2. FrontInv /\ [FrontNext]_frontVars => [Stream!StreamNext]_(Stream!streamVars)
  BY FrontStep
<1> QED
  BY <1>1, <1>2, FrontInvariant, PTL DEF FrontSpec, FrontImplementsStream, Stream!StreamSpec

(***************************************************************************)
(* Every instruction is predicted with the direction bit that was looked   *)
(* up for its own halfword.                                                *)
(***************************************************************************)
THEOREM PredictionsAreOwn == FrontSpec => []PredictionIsOwn
<1>1. FrontInv => PredictionIsOwn
  BY DEF FrontInv, DeInv
<1> QED
  BY <1>1, FrontInvariant, PTL

-----------------------------------------------------------------------------
(***************************************************************************)
(* The supply of words.  Decode is without an instruction only behind a    *)
(* redirect, for the cycles the first read takes, and for one more if the  *)
(* target is the upper half of a block and spans into the next one.        *)
(* SupplyInv counts them; its last clause says that, outside the cycle     *)
(* behind a redirect, a buffer that runs low has a read in flight or a     *)
(* fault entry on its way.                                                 *)
(***************************************************************************)
SupplyInv ==
  /\ dry \in 0 .. 3
  /\ Len(buf) = 0 /\ hold_q => dry = 0
  /\ Len(buf) = 0 /\ ~hold_q => dry <= 1
  /\ Len(buf) >= 1 /\ ~hold_q => dry <= 2 \/ buf[1].fault
  /\ Len(buf) <= 1 /\ ~i_rif /\ ~pc_fault =>
       \/ Len(buf) = 0 /\ ~hold_q /\ dry = 0
       \/ Len(buf) = 1 /\ buf[1].fault

\* A concatenation, in the shape the next lemma needs.
LEMMA Joined ==
  ASSUME NEW s \in Seq(Entry), NEW t \in Seq(Entry)
  PROVE  /\ s \o t \in Seq(Entry) /\ Len(s) \in Nat /\ Len(t) \in Nat
         /\ Len(s \o t) = Len(s) + Len(t)
         /\ Len(s) >= 1 => (s \o t)[1] = s[1]
         /\ Len(s) = 0 /\ Len(t) >= 1 => (s \o t)[1] = t[1]
<1>1. /\ s \o t \in Seq(Entry) /\ Len(s) \in Nat /\ Len(t) \in Nat
      /\ Len(s \o t) = Len(s) + Len(t)
      /\ \A i \in 1 .. Len(s) + Len(t) : (s \o t)[i] = IF i <= Len(s) THEN s[i] ELSE t[i - Len(s)]
  BY ConcatProperties, LenProperties
<1>2. Len(s) >= 1 => (s \o t)[1] = s[1]
  BY <1>1
<1>3. Len(s) = 0 /\ Len(t) >= 1 => (s \o t)[1] = t[1]
  <2>1. 1 - 0 = 1
    OBVIOUS
  <2> QED
    BY <1>1, <2>1
<1> QED
  BY <1>1, <1>2, <1>3

\* What an ordinary cycle brings.
LEMMA Brought ==
  ASSUME UnitInv
  PROVE  LET p == pushes(Answer)
         IN  /\ p \in Seq(Entry) /\ Len(p) <= 2
             /\ i_rif => Len(p) >= 1
             /\ i_rif /\ rsp_fault => Len(p) = 1 /\ p[1].fault
             /\ ~i_rif /\ pc_fault /\ Len(buf) < BUF_DEPTH => Len(p) = 1 /\ p[1].fault
<1>1. /\ FetchInv /\ Answer \in MemAnswers /\ (do_rsp(Answer) <=> i_rif)
      /\ (rsp_cap(Answer) <=> i_rif) /\ i_rif \in BOOLEAN
      /\ inflight_q = IF i_rif THEN 1 ELSE 0
  BY AnswerExpected, PortFacts DEF UnitInv
<1>2. pushes(Answer) \in Seq(Entry) /\ Len(pushes(Answer)) <= 2
  BY <1>1, PushFacts
<1>3. i_rif => /\ Len(pushes(Answer)) >= 1
               /\ rsp_fault => Len(pushes(Answer)) = 1 /\ pushes(Answer)[1].fault
  BY <1>1 DEF pushes, FaultEntry
<1>4. ~i_rif /\ pc_fault /\ Len(buf) < BUF_DEPTH =>
        Len(pushes(Answer)) = 1 /\ pushes(Answer)[1].fault
  <2>1. ~i_rif /\ Len(buf) < BUF_DEPTH => available >= 1
    <3>1. available = BUF_DEPTH - Len(buf) - 2 * inflight_q
      BY <1>1, AvailableExact
    <3>2. Len(buf) \in Nat /\ BUF_DEPTH \in Nat
      BY <1>1, FetchAssumption DEF FetchInv, FetchTypeOK
    <3> QED
      BY <1>1, <3>1, <3>2
  <2> QED
    BY <1>1, <2>1 DEF pushes, fault_push, FaultEntry
<1> QED
  BY <1>2, <1>3, <1>4

\* On an ordinary cycle a short buffer fills, or a read is launched for it.
LEMMA Supplied ==
  ASSUME FrontInv, BUF_DEPTH >= 6, NEW s \in BOOLEAN,
         UnitAdvance([stall |-> s, pop2 |-> fe_pop2(fe, nx)])
  PROVE  LET n == IF fe.valid /\ ~s THEN (IF fe_pop2(fe, nx) THEN 2 ELSE 1) ELSE 0
         IN  /\ n <= Len(buf)
             /\ Len(buf') \in Nat /\ Len(buf') >= Len(buf) - n
             /\ Len(buf) <= 1 /\ (i_rif \/ pc_fault) => Len(buf') >= Len(buf) - n + 1
             /\ n = 0 /\ Len(buf) >= 1 => buf'[1] = buf[1]
             /\ Len(buf) = 0 /\ ~i_rif /\ ~pc_fault => i_rif'
             /\ Len(buf') <= 1 /\ ~i_rif' /\ ~pc_fault' => Len(buf') = 1 /\ buf'[1].fault
<1> DEFINE n == IF fe.valid /\ ~s THEN (IF fe_pop2(fe, nx) THEN 2 ELSE 1) ELSE 0
           d == [stall |-> s, pop2 |-> fe_pop2(fe, nx)]
           p == pushes(Answer)
           rest == Drop(buf, n)
           r == NoRedirect
<1>1. /\ UnitInv /\ FetchInv /\ buf \in Seq(Entry) /\ Len(buf) \in Nat
      /\ BUF_DEPTH \in Nat /\ BUF_DEPTH >= 6
      /\ i_rif \in BOOLEAN /\ inflight_q = IF i_rif THEN 1 ELSE 0
      /\ Len(buf) + 2 * inflight_q <= BUF_DEPTH
  <2>1. UnitInv /\ FetchInv
    BY DEF FrontInv, UnitInv
  <2>2. buf \in Seq(Entry) /\ Len(buf) \in Nat /\ Len(buf) + 2 * inflight_q <= BUF_DEPTH
    BY <2>1, LenProperties DEF FetchInv, FetchTypeOK, RoomInv
  <2>3. BUF_DEPTH \in Nat /\ BUF_DEPTH >= 6
    BY FetchAssumption
  <2>4. i_rif \in BOOLEAN /\ inflight_q = IF i_rif THEN 1 ELSE 0
    BY <2>1, PortFacts DEF UnitInv
  <2> QED
    BY <2>1, <2>2, <2>3, <2>4
<1>2. Advance(Answer, d) /\ imem!RamCycle(imem_req(r), rready)
  BY <1>1, PortIsAnswer DEF UnitAdvance
<1>3. buf # << >> <=> Len(buf) >= 1
  BY <1>1, EmptySeq
<1>4. fe_pop2(fe, nx) => Len(buf) >= 2
  BY NextPort DEF fe_pop2, target_span_complete
<1>5. buf_pop_cnt(d) = n
  BY <1>3, HeadPort DEF buf_pop_cnt
<1>6. n \in 0 .. 2 /\ n <= Len(buf)
  BY <1>1, <1>4, HeadPort
<1>7. buf' = rest \o p /\ pc_q' = next_pc(Answer)
  BY <1>2, <1>5 DEF Advance
<1> HIDE DEF n, d
<1>8. /\ rest \in Seq(Entry) /\ Len(rest) = Len(buf) - n
      /\ n = 0 /\ Len(buf) >= 1 => rest[1] = buf[1]
  <2>1. \A i \in n + 1 .. Len(buf) : buf[i] \in Entry
    BY <1>1, <1>6, ElementOfSeq
  <2>2. /\ rest \in Seq(Entry)
        /\ Len(rest) = IF n + 1 <= Len(buf) THEN Len(buf) - (n + 1) + 1 ELSE 0
        /\ \A i \in 1 .. Len(buf) - (n + 1) + 1 : rest[i] = buf[(n + 1) + i - 1]
    BY <1>1, <1>6, <2>1, SubSeqProperties DEF Drop
  <2>3. Len(rest) = Len(buf) - n
    BY <1>1, <1>6, <2>2
  <2>4. n = 0 /\ Len(buf) >= 1 =>
          1 \in 1 .. Len(buf) - (n + 1) + 1 /\ (n + 1) + 1 - 1 = 1
    BY <1>1
  <2> QED
    BY <2>2, <2>3, <2>4
<1>9. /\ p \in Seq(Entry) /\ Len(p) <= 2
      /\ i_rif => Len(p) >= 1
      /\ i_rif /\ rsp_fault => Len(p) = 1 /\ p[1].fault
      /\ ~i_rif /\ pc_fault /\ Len(buf) < BUF_DEPTH => Len(p) = 1 /\ p[1].fault
  BY <1>1, Brought
<1> HIDE DEF p, rest
<1>10. /\ Len(rest) \in Nat /\ Len(p) \in Nat /\ Len(buf') = Len(rest) + Len(p)
       /\ Len(rest) >= 1 => buf'[1] = rest[1]
       /\ Len(rest) = 0 /\ Len(p) >= 1 => buf'[1] = p[1]
  BY <1>7, <1>8, <1>9, Joined
<1>11. Len(buf') = Len(buf) - n + Len(p)
  BY <1>8, <1>10
<1>12. r \in Redirects /\ ~redirect(r) /\ ~incycle_launch(r) /\ ~exec_redir_hold(r)
  BY FetchAssumption
     DEF NoRedirect, Redirects, redirect, Addr, incycle_launch, exec_redir_hold
<1>13. available = BUF_DEPTH - Len(buf) - 2 * inflight_q
  BY <1>1, AvailableExact
<1>14. i_rif' <=> available >= 2 /\ ~pc_fault
  <2>1. i_rif' = launch(r, Answer)
    BY <1>1, <1>2, <1>12, RamEdge
  <2>2. inflight_q < 2
    BY <1>1
  <2> QED
    BY <1>12, <2>1, <2>2 DEF launch, bus_issue, available_issue, Answer
<1> HIDE DEF r
<1>15. Len(buf) <= 1 /\ (i_rif \/ pc_fault) => Len(buf') >= Len(buf) - n + 1
  BY <1>1, <1>6, <1>9, <1>10, <1>11
<1>16. Len(buf) = 0 /\ ~i_rif /\ ~pc_fault => i_rif'
  BY <1>1, <1>13, <1>14
<1>17. ASSUME Len(buf') <= 1, ~i_rif', ~pc_fault'
       PROVE  Len(buf') = 1 /\ buf'[1].fault
  <2>1. CASE ~pc_fault
    <3>1. available < 2
      BY <1>14, <1>17, <2>1, <1>13, <1>1
    <3>2. Len(buf) >= BUF_DEPTH - 1 - 2 * inflight_q
      BY <1>1, <1>13, <3>1
    <3>3. Len(buf') >= 2
      <4>1. CASE i_rif
        BY <1>1, <1>6, <1>9, <1>10, <1>11, <3>2, <4>1
      <4>2. CASE ~i_rif
        BY <1>1, <1>6, <1>9, <1>10, <1>11, <3>2, <4>2
      <4> QED
        BY <4>1, <4>2
    <3> QED
      BY <1>17, <3>3, <1>10
  <2>2. CASE pc_fault /\ ~i_rif
    <3>1. Len(buf) < BUF_DEPTH
      BY <1>1, <1>6, <1>10, <1>11, <1>17
    <3>2. Len(p) = 1 /\ p[1].fault
      BY <1>9, <2>2, <3>1
    <3>3. Len(rest) = 0
      BY <1>10, <1>17, <3>2
    <3> QED
      BY <1>10, <3>2, <3>3
  <2>3. CASE pc_fault /\ i_rif
    <3>1. ~fault_push(Answer) /\ ~launch(NoRedirect, Answer)
      <4>1. rsp_cap(Answer)
        BY <1>1, <2>3, AnswerExpected
      <4> QED
        BY <2>3, <4>1, <1>12 DEF fault_push, launch, bus_issue, r
    <3>2. redir_launched_q
      BY <1>7, <1>17, <2>3, <3>1 DEF next_pc, pc_fault, OutOfRange
    <3>3. req_pc_q = pc_q /\ buf = << >>
      BY <1>1, <3>2 DEF UnitInv, OwedInv
    <3>4. Len(p) = 1 /\ p[1].fault
      BY <1>9, <2>3, <3>3 DEF pc_fault, rsp_fault
    <3>5. Len(rest) = 0
      BY <1>1, <1>6, <1>8, <3>3
    <3> QED
      BY <1>10, <3>4, <3>5
  <2> QED
    BY <2>1, <2>2, <2>3, <1>1 DEF pc_fault
<1> QED
  BY <1>6, <1>8, <1>10, <1>11, <1>15, <1>16, <1>17 DEF n

\* A redirect, of either kind, empties the buffer.
LEMMA Emptied ==
  ASSUME FrontInv, NEW t \in Targets, ClearStash, dry' = 0,
         UnitRedirect(ExecRedirectTo(t)) \/ UnitRedirect(PredRedirectTo(t))
  PROVE  SupplyInv'
<1>1. buf' = << >>
  BY DEF UnitRedirect, Redirect
<1>2. Len(buf') = 0
  BY <1>1
<1>3. hold_q' = FALSE
  BY DEF ClearStash
<1> QED
  BY <1>2, <1>3 DEF SupplyInv

\* A cycle in which execute holds D/E.
LEMMA StallSupplies ==
  ASSUME FrontInv, SupplyInv, BUF_DEPTH >= 6, FrontStall
  PROVE  SupplyInv'
<1>1. /\ UnitAdvance([stall |-> TRUE, pop2 |-> fe_pop2(fe, nx)])
      /\ IF take_fault(fe) THEN ClearStash ELSE KeepStash
      /\ dry' = dry
  BY DEF FrontStall, DecodeStall
<1>2. /\ Len(buf') \in Nat /\ Len(buf') >= Len(buf)
      /\ Len(buf) <= 1 /\ (i_rif \/ pc_fault) => Len(buf') >= Len(buf) + 1
      /\ Len(buf) >= 1 => buf'[1] = buf[1]
      /\ Len(buf') <= 1 /\ ~i_rif' /\ ~pc_fault' => Len(buf') = 1 /\ buf'[1].fault
      /\ Len(buf) \in Nat
  <2>1. TRUE \in BOOLEAN
    OBVIOUS
  <2>2. Len(buf) \in Nat
    BY DEF FrontInv, UnitInv, FetchInv, FetchTypeOK
  <2> DEFINE n == IF fe.valid /\ ~TRUE THEN (IF fe_pop2(fe, nx) THEN 2 ELSE 1) ELSE 0
  <2>3. n = 0
    OBVIOUS
  <2>4. /\ Len(buf') \in Nat /\ Len(buf') >= Len(buf) - n
        /\ Len(buf) <= 1 /\ (i_rif \/ pc_fault) => Len(buf') >= Len(buf) - n + 1
        /\ n = 0 /\ Len(buf) >= 1 => buf'[1] = buf[1]
        /\ Len(buf') <= 1 /\ ~i_rif' /\ ~pc_fault' => Len(buf') = 1 /\ buf'[1].fault
    BY <1>1, <2>1, Supplied
  <2> HIDE DEF n
  <2>5. Len(buf) - n = Len(buf)
    BY <2>2, <2>3
  <2> QED
    BY <2>2, <2>3, <2>4, <2>5
<1>3. hold_q \in BOOLEAN
  BY DEF FrontInv, HoldInv
<1>4. CASE take_fault(fe)
  <2>1. Len(buf) >= 1 /\ buf[1].fault /\ hold_q' = FALSE
    BY <1>1, <1>4, HeadPort DEF take_fault, ClearStash
  <2> QED
    BY <1>1, <1>2, <2>1 DEF SupplyInv
<1>5. CASE ~take_fault(fe)
  <2>1. hold_q' = hold_q
    BY <1>1, <1>5 DEF KeepStash
  <2> QED
    BY <1>1, <1>2, <1>3, <2>1 DEF SupplyInv
<1> QED
  BY <1>4, <1>5

\* An ordinary cycle.
LEMMA RunSupplies ==
  ASSUME FrontInv, SupplyInv, BUF_DEPTH >= 6, FrontRun
  PROVE  SupplyInv'
<1> DEFINE s == resource_stall(fe)
           n == IF fe.valid /\ ~s THEN (IF fe_pop2(fe, nx) THEN 2 ELSE 1) ELSE 0
<1>1. /\ UnitAdvance([stall |-> s, pop2 |-> fe_pop2(fe, nx)])
      /\ HoldConsume(fe, nx)
      /\ de_q' = de_d(fe, nx)
      /\ dry' = IF de_q'.valid THEN 0 ELSE dry + 1
  BY DEF FrontRun, DecodeConsume
<1>2. s \in BOOLEAN
  BY DEF resource_stall
<1>3. Len(buf) \in Nat /\ hold_q \in BOOLEAN
  BY DEF FrontInv, HoldInv, UnitInv, FetchInv, FetchTypeOK
<1>4. /\ n <= Len(buf)
      /\ Len(buf') \in Nat /\ Len(buf') >= Len(buf) - n
      /\ Len(buf) <= 1 /\ (i_rif \/ pc_fault) => Len(buf') >= Len(buf) - n + 1
      /\ Len(buf) = 0 /\ ~i_rif /\ ~pc_fault => i_rif'
      /\ Len(buf') <= 1 /\ ~i_rif' /\ ~pc_fault' => Len(buf') = 1 /\ buf'[1].fault
  BY <1>1, <1>2, Supplied
<1>5. CASE decoded_valid(fe, nx)
  <2>1. de_q'.valid = TRUE
    BY <1>1, <1>5, Presented, DeFields DEF can_predict
  <2> QED
    BY <1>1, <1>4, <2>1 DEF SupplyInv
<1>6. CASE ~decoded_valid(fe, nx)
  <2>1. dry' = dry + 1
    <3>1. de_q' = Bubble
      BY <1>1, <1>6, Presented
    <3>2. de_q'.valid = FALSE
      BY <3>1, DeFields
    <3> QED
      BY <1>1, <3>2
  <2>2. CASE hold_q
    <3>1. ~fe.valid /\ prog[hold_pc_q] /\ span_wait(fe) /\ ~take_fault(fe)
      BY <1>6, <2>2, WiresHeld, HeadPort
    <3>2. Len(buf) = 0 /\ n = 0 /\ hold_q'
      BY <1>1, <1>3, <2>2, <3>1, HeadPort DEF HoldConsume, KeepStash
    <3> HIDE DEF n
    <3>3. dry = 0 /\ (i_rif \/ pc_fault)
      BY <2>2, <3>2 DEF SupplyInv
    <3>4. Len(buf') >= 1 /\ dry' = 1
      BY <1>4, <2>1, <3>2, <3>3
    <3> QED
      BY <1>4, <3>2, <3>4 DEF SupplyInv
  <2>3. CASE ~hold_q /\ ~fe.valid
    <3>1. Len(buf) = 0 /\ n = 0
      BY <1>3, <2>3, HeadPort
    <3> HIDE DEF n
    <3>2. dry \in 0 .. 1
      BY <2>3, <3>1 DEF SupplyInv
    <3>3. ~hold_q'
      BY <1>1, <2>3, WiresFree DEF HoldConsume, ClearStash
    <3>4. CASE i_rif \/ pc_fault
      <4>1. Len(buf') >= 1 /\ dry' \in 0 .. 2
        BY <1>4, <2>1, <3>1, <3>2, <3>4
      <4> QED
        BY <1>4, <3>3, <4>1 DEF SupplyInv
    <3>5. CASE ~(i_rif \/ pc_fault)
      <4>1. dry = 0 /\ i_rif'
        BY <1>4, <3>1, <3>5 DEF SupplyInv
      <4>2. dry' = 1
        BY <2>1, <4>1
      <4> QED
        BY <1>4, <3>3, <4>1, <4>2 DEF SupplyInv
    <3> QED
      BY <3>4, <3>5
  <2>4. CASE ~hold_q /\ fe.valid
    <3>1. /\ target_span_wait(fe, nx) /\ ~fe_pop2(fe, nx) /\ ~fe.fault /\ ~s
          /\ ~take_fault(fe) /\ ~span_wait(fe) /\ ~span_complete(fe) /\ ~hold_plain_pending
          /\ ~target_span_complete(fe, nx)
      BY <1>6, <2>4, WiresFree
    <3>2. Len(buf) >= 1 /\ ~buf[1].fault /\ n = 1
      BY <2>4, <3>1, HeadPort
    <3>3. hold_q' = TRUE
      BY <1>1, <3>1 DEF HoldConsume, Stash
    <3> HIDE DEF n, s
    <3>4. dry \in 0 .. 2
      BY <2>4, <3>2 DEF SupplyInv
    <3>5. Len(buf') >= 1
      <4>1. CASE Len(buf) >= 2
        BY <1>3, <1>4, <3>2, <4>1
      <4>2. CASE Len(buf) = 1
        <5>1. i_rif \/ pc_fault
          BY <3>2, <4>2 DEF SupplyInv
        <5> QED
          BY <1>3, <1>4, <3>2, <4>2, <5>1
      <4> QED
        <5>1. Len(buf) \in Nat /\ Len(buf) >= 1
          BY <1>3, <3>2
        <5>2. \A k \in Nat : k >= 1 => k >= 2 \/ k = 1
          OBVIOUS
        <5> QED
          BY <5>1, <5>2, <4>1, <4>2
    <3>6. dry' \in 0 .. 3
      BY <2>1, <3>4
    <3> QED
      BY <1>4, <3>3, <3>5, <3>6 DEF SupplyInv
  <2> QED
    BY <2>2, <2>3, <2>4
<1> QED
  BY <1>5, <1>6

\* Every step of the composition keeps the supply.
LEMMA SupplyStep ==
  ASSUME FrontInv, SupplyInv, BUF_DEPTH >= 6, [FrontNext]_frontVars
  PROVE  SupplyInv'
<1>1. ASSUME NEW t \in Targets, FrontFlush(t)
      PROVE  SupplyInv'
  BY <1>1, Emptied DEF FrontFlush, DecodeFlush
<1>2. ASSUME NEW t \in Targets, FrontPredict(t)
      PROVE  SupplyInv'
  BY <1>2, Emptied DEF FrontPredict, DecodePredict
<1>3. CASE UNCHANGED frontVars
  <2>1. UNCHANGED <<dry, buf, hold_q, i_rif, pc_q>>
    BY <1>3 DEF frontVars, unitVars, fetchVars, imemVars, decodeVars
  <2> QED
    BY <2>1 DEF SupplyInv, pc_fault, OutOfRange
<1> QED
  BY <1>1, <1>2, <1>3, StallSupplies, RunSupplies DEF FrontNext

(***************************************************************************)
(* The front end never runs dry: with the ring of rv_fetch_buffer at six   *)
(* entries or more (it is built with eight), an execute stage that neither *)
(* stalls nor redirects waits at most three cycles for an instruction.     *)
(***************************************************************************)
THEOREM FrontNeverDry ==
  ASSUME BUF_DEPTH >= 6
  PROVE  FrontSpec => []NeverDry
<1>1. FrontInit => SupplyInv
  <2>1. FrontInit => Len(buf) = 0 /\ hold_q = FALSE /\ dry = 0
    BY DEF FrontInit, UnitInit, FetchInit, DecodeReset
  <2> QED
    BY <2>1 DEF SupplyInv
<1>2. FrontInv /\ SupplyInv /\ [FrontNext]_frontVars => SupplyInv'
  BY SupplyStep
<1>3. SupplyInv => NeverDry
  BY DEF SupplyInv, NeverDry, MaxDry
<1> QED
  BY <1>1, <1>2, <1>3, FrontInvariant, PTL DEF FrontSpec
=============================================================================
