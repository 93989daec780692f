---------------------------- MODULE PeriBusProofs ----------------------------
(***************************************************************************)
(* Proofs about PeriBus, for every register map, every set of values and   *)
(* slaves that may refuse whatever they like.                              *)
(*                                                                         *)
(* BusShape says, for each state of the bridge, which selects the crossbar *)
(* has latched and what the one port concerned holds; all other ports are  *)
(* empty.  From it every edge is one step of PeriPort.                     *)
(***************************************************************************)
EXTENDS PeriBus, TLAPS

Phases(aw, w, b, r) == [aw |-> aw, w |-> w, b |-> b, r |-> r]
Empty == Phases(<< >>, << >>, FALSE, << >>)

\* Port t holds p, the others nothing.
Only(t, p) == [k \in 0..NoMatch |-> IF k = t THEN p ELSE Empty]

\* The request under way and the port it goes to.
Under == req_q[1]
Target == decode(Under.addr)

BusShape ==
  /\ state_q \in {"IDLE", "RD_ADDR", "RD_WAIT", "WR_BOTH", "WR_ADDR", "WR_DATA", "WR_WAIT"}
  /\ state_q = "IDLE" => req_q = << >>
  /\ state_q # "IDLE" => \E q \in Requests : req_q = <<q>>
  /\ state_q \in {"RD_ADDR", "RD_WAIT"} => ~Under.we
  /\ state_q \in {"WR_BOTH", "WR_ADDR", "WR_DATA", "WR_WAIT"} => Under.we
  /\ wr_q = IF state_q \in {"WR_ADDR", "WR_WAIT"} THEN <<Target>> ELSE << >>
  /\ rd_q = IF state_q = "RD_WAIT" THEN <<Target>> ELSE << >>
  /\ state_q \in {"IDLE", "RD_ADDR", "WR_BOTH"} => s = Only(0, Empty)
  /\ state_q = "RD_WAIT" =>
       \E v \in Values : s = Only(Target, Phases(<< >>, << >>, FALSE, <<v>>))
  /\ state_q = "WR_ADDR" =>
       s = Only(Target, Phases(<<Under.addr>>, << >>, FALSE, << >>))
  /\ state_q = "WR_DATA" =>
       s = Only(Target, Phases(<< >>, <<Under.data>>, FALSE, << >>))
  /\ state_q = "WR_WAIT" =>
       s = Only(Target, Phases(<< >>, << >>, TRUE, << >>))
       \/ s = Only(Target, Phases(<<Under.addr>>, <<Under.data>>, FALSE, << >>))

BusInv == BusShape /\ regs \in [Mapped -> Values]

(***************************************************************************)
(* Requests, windows and ports.                                            *)
(***************************************************************************)
LEMMA RequestFacts ==
  ASSUME NEW q \in Requests
  PROVE  /\ q.we \in BOOLEAN /\ q.data \in Values
         /\ q.addr \in Mapped \/ (q.addr \in Unmapped /\ q.addr \notin Mapped)
         /\ decode(q.addr) \in 0..NoMatch
         /\ q.addr \in Mapped => decode(q.addr) = Window[q.addr] /\ decode(q.addr) # NoMatch
         /\ q.addr \notin Mapped => decode(q.addr) = NoMatch
<1>1. q.we \in BOOLEAN /\ q.data \in Values /\ q.addr \in Mapped \cup Unmapped
  <2>1. CASE q \in [we : {TRUE}, addr : Mapped \cup Unmapped, data : Values]
    BY <2>1
  <2>2. CASE q \in [we : {FALSE}, addr : Mapped \cup Unmapped, data : {0}]
    BY <2>2, BusAssumption
  <2> QED
    BY <2>1, <2>2 DEF Requests
<1>2. q.addr \in Mapped => Window[q.addr] \in 0..2
  BY BusAssumption DEF Mapped
<1>3. q.addr \in Unmapped => q.addr \notin Mapped
  BY BusAssumption DEF Mapped
<1>4. CASE q.addr \in Mapped
  <2>1. decode(q.addr) = Window[q.addr]
    BY <1>4 DEF decode
  <2>2. Window[q.addr] \in 0..3 /\ Window[q.addr] # 3
    BY <1>2, <1>4
  <2> QED
    BY <1>1, <1>4, <2>1, <2>2 DEF NoMatch
<1>5. CASE q.addr \notin Mapped
  <2>1. decode(q.addr) = 3 /\ q.addr \in Unmapped
    BY <1>1, <1>5 DEF decode, NoMatch
  <2> QED
    BY <1>1, <1>5, <2>1 DEF NoMatch
<1> QED
  BY <1>4, <1>5

\* What a full register holds.
LEMMA Holds ==
  ASSUME NEW x, NEW o, o = <<x>>
  PROVE  o[1] = x /\ o # << >>
OBVIOUS

\* The registers of the one port that is in use, and of the others.
LEMMA PortFields ==
  ASSUME NEW t \in 0..NoMatch, NEW aw, NEW w, NEW b, NEW r,
         s = Only(t, Phases(aw, w, b, r))
  PROVE  /\ s[t].aw = aw /\ s[t].w = w /\ s[t].b = b /\ s[t].r = r
         /\ \A k \in 0..NoMatch : k # t =>
              s[k].aw = << >> /\ s[k].w = << >> /\ s[k].b = FALSE /\ s[k].r = << >>
BY DEF Only, Phases, Empty

\* A port that holds nothing and is offered nothing stays empty.
LEMMA QuietPort ==
  ASSUME NEW in, NEW k \in 0..NoMatch,
         s[k].aw = << >> /\ s[k].w = << >> /\ s[k].b = FALSE /\ s[k].r = << >>,
         ~(aw_hs(in) /\ wr_sel_live(in) = k),
         ~(w_hs(in) /\ wr_sel_eff(in) = k),
         ~(ar_hs(in) /\ rd_sel_live(in) = k)
  PROVE  ~do_write(in, k) /\ NextPort(in, k) = Empty
<1>1. aw_eff(in, k) = << >> /\ w_eff(in, k) = << >>
  BY DEF aw_eff, w_eff
<1>2. ~do_write(in, k)
  BY <1>1 DEF do_write
<1>3. (do_write(in, k) \/ (s[k].b /\ wr_q # <<k>>)) = FALSE
  BY <1>2
<1>4. (IF ar_hs(in) /\ rd_sel_live(in) = k THEN <<read_value(in)>>
         ELSE IF r_hs(in) /\ rd_q = <<k>> THEN << >> ELSE s[k].r) = << >>
  OBVIOUS
<1> QED
  BY <1>1, <1>2, <1>3, <1>4 DEF NextPort, Empty, Phases

\* Registers change only where a slave commits a write.
LEMMA NoWriteNoChange ==
  ASSUME NEW in, regs \in [Mapped -> Values], \A k \in 0..NoMatch : ~do_write(in, k)
  PROVE  NextRegs(in) = regs
BY BusAssumption DEF NextRegs, Mapped, NoMatch

Stored(q) == IF q.addr \in Mapped THEN [regs EXCEPT ![q.addr] = q.data] ELSE regs

\* One port alone performing a write stores it, and nothing else.
LEMMA WriteChangesOne ==
  ASSUME NEW in, NEW q \in Requests, regs \in [Mapped -> Values],
         do_write(in, decode(q.addr)),
         aw_eff(in, decode(q.addr)) = <<q.addr>>, w_eff(in, decode(q.addr)) = <<q.data>>,
         \A k \in 0..NoMatch : k # decode(q.addr) => ~do_write(in, k)
  PROVE  NextRegs(in) = Stored(q)
<1>1. ASSUME NEW a \in Mapped
      PROVE  NextRegs(in)[a] = IF a = q.addr THEN q.data ELSE regs[a]
  <2>1. Window[a] \in 0..NoMatch
    BY BusAssumption DEF Mapped, NoMatch
  <2>2. NextRegs(in)[a] = IF do_write(in, Window[a]) /\ aw_eff(in, Window[a]) = <<a>>
                          THEN w_eff(in, Window[a])[1] ELSE regs[a]
    BY DEF NextRegs
  <2>3. CASE a = q.addr
    <3>1. Window[a] = decode(q.addr)
      BY <2>3, RequestFacts
    <3> QED
      BY <2>2, <2>3, <3>1
  <2>4. CASE a # q.addr
    BY <2>1, <2>2, <2>4
  <2> QED
    BY <2>3, <2>4
<1>2. NextRegs(in) = [a \in Mapped |-> NextRegs(in)[a]]
  BY DEF NextRegs
<1>3. Stored(q) = [a \in Mapped |-> IF a = q.addr THEN q.data ELSE regs[a]]
  BY DEF Stored
<1> QED
  BY <1>1, <1>2, <1>3

(***************************************************************************)
(* A write.  aw and w are the phases the target holds so far; the bridge   *)
(* drives the others.  Whatever is taken in this cycle, the target holds   *)
(* it afterwards, or has committed the write.                              *)
(***************************************************************************)
LEMMA WriteEdge ==
  ASSUME NEW in \in Inputs, NEW q \in Requests, regs \in [Mapped -> Values],
         NEW aw \in {<< >>, <<q.addr>>}, NEW w \in {<< >>, <<q.data>>},
         driven(in) = <<q>>, ~arvalid(in), rd_q = << >>,
         s = Only(decode(q.addr), Phases(aw, w, FALSE, << >>)),
         awvalid(in) <=> aw = << >>,
         wvalid(in) <=> w = << >>,
         wr_q = IF aw = << >> THEN << >> ELSE <<decode(q.addr)>>
  PROVE  LET t == decode(q.addr)
             aw2 == IF aw_hs(in) THEN <<q.addr>> ELSE aw
             w2 == IF w_hs(in) THEN <<q.data>> ELSE w
             ports == [k \in 0..NoMatch |-> NextPort(in, k)]
         IN /\ aw_hs(in) => wr_sel_live(in) = t /\ aw = << >>
            /\ w_hs(in) => w = << >>
            /\ ~ar_hs(in) /\ ~r_hs(in) /\ ~b_hs
            /\ \/ /\ aw2 # << >> /\ w2 # << >>
                  /\ ports = Only(t, Phases(<< >>, << >>, TRUE, << >>))
                  /\ NextRegs(in) = Stored(q)
               \/ /\ ports = Only(t, Phases(aw2, w2, FALSE, << >>))
                  /\ NextRegs(in) = regs
<1> DEFINE t == decode(q.addr)
           aw2 == IF aw_hs(in) THEN <<q.addr>> ELSE aw
           w2 == IF w_hs(in) THEN <<q.data>> ELSE w
           ports == [k \in 0..NoMatch |-> NextPort(in, k)]
<1>1. t \in 0..NoMatch
  BY RequestFacts
<1>2. /\ s[t].aw = aw /\ s[t].w = w /\ s[t].b = FALSE /\ s[t].r = << >>
      /\ \A k \in 0..NoMatch : k # t =>
           s[k].aw = << >> /\ s[k].w = << >> /\ s[k].b = FALSE /\ s[k].r = << >>
  BY <1>1, PortFields
<1>3. driven(in)[1] = q
  OBVIOUS
<1>4. awvalid(in) => wr_sel_live(in) = t
  BY <1>3 DEF wr_sel_live
<1>5. wr_sel_eff(in) = t
  <2>1. CASE aw = << >>
    BY <2>1, <1>4 DEF wr_sel_eff
  <2>2. CASE aw # << >>
    BY <2>2 DEF wr_sel_eff
  <2> QED
    BY <2>1, <2>2
<1>6. aw_hs(in) => wr_sel_live(in) = t /\ aw = << >>
  BY <1>4 DEF aw_hs
<1>7. w_hs(in) => w = << >>
  BY DEF w_hs
<1>8. ~ar_hs(in) /\ ~r_hs(in) /\ ~b_hs
  <2>1. ~b_hs
    <3>1. CASE aw = << >>
      BY <3>1 DEF b_hs
    <3>2. CASE aw # << >>
      BY <3>2, <1>2 DEF b_hs
    <3> QED
      BY <3>1, <3>2
  <2> QED
    BY <2>1 DEF ar_hs, r_hs
<1>9. \A k \in 0..NoMatch : k # t => ~do_write(in, k) /\ NextPort(in, k) = Empty
  <2> SUFFICES ASSUME NEW k \in 0..NoMatch, k # t
               PROVE  ~do_write(in, k) /\ NextPort(in, k) = Empty
    OBVIOUS
  <2>1. /\ ~(aw_hs(in) /\ wr_sel_live(in) = k)
        /\ ~(w_hs(in) /\ wr_sel_eff(in) = k)
        /\ ~(ar_hs(in) /\ rd_sel_live(in) = k)
    BY <1>5, <1>6, <1>8
  <2> QED
    BY <1>2, <2>1, QuietPort
<1>10. aw_eff(in, t) = aw2 /\ w_eff(in, t) = w2
  BY <1>2, <1>3, <1>5, <1>6 DEF aw_eff, w_eff
<1>11. NextPort(in, t).r = << >>
  BY <1>2, <1>8 DEF NextPort
<1>12. CASE do_write(in, t)
  <2>1. /\ aw2 = <<q.addr>> /\ w2 = <<q.data>>
        /\ aw2 # << >> /\ w2 # << >>
    BY <1>10, <1>12 DEF do_write
  <2>2. NextPort(in, t) = Phases(<< >>, << >>, TRUE, << >>)
    <3>1. (do_write(in, t) \/ (s[t].b /\ wr_q # <<t>>)) = TRUE
      BY <1>12
    <3> QED
      BY <1>2, <1>8, <1>12, <3>1 DEF NextPort, Phases
  <2>3. ports = Only(t, Phases(<< >>, << >>, TRUE, << >>))
    BY <1>9, <2>2 DEF Only
  <2>4. NextRegs(in) = Stored(q)
    BY <1>9, <1>10, <1>12, <2>1, WriteChangesOne
  <2> QED
    BY <1>6, <1>7, <1>8, <2>1, <2>3, <2>4
<1>13. CASE ~do_write(in, t)
  <2>1. NextPort(in, t) = Phases(aw2, w2, FALSE, << >>)
    <3>1. (do_write(in, t) \/ (s[t].b /\ wr_q # <<t>>)) = FALSE
      BY <1>2, <1>13
    <3> QED
      BY <1>2, <1>8, <1>10, <1>13, <3>1 DEF NextPort, Phases
  <2>2. ports = Only(t, Phases(aw2, w2, FALSE, << >>))
    BY <1>9, <2>1 DEF Only
  <2>3. NextRegs(in) = regs
    BY <1>9, <1>13, NoWriteNoChange
  <2> QED
    BY <1>6, <1>7, <1>8, <2>2, <2>3
<1> QED
  BY <1>12, <1>13

\* With every port empty it does not matter which one is meant.
LEMMA AllEmpty ==
  ASSUME NEW t \in 0..NoMatch
  PROVE  Only(t, Empty) = Only(0, Empty)
BY DEF Only

\* The request lines carry one request or none.
LEMMA OptionFacts ==
  ASSUME NEW in \in Inputs
  PROVE  /\ in.q = << >> \/ \E q \in Requests : in.q = <<q>>
         /\ in.rr \in BOOLEAN
BY DEF Inputs, Option

(***************************************************************************)
(* One lemma per kind of edge says what it leaves behind.                  *)
(***************************************************************************)
\* Nothing is asked and nothing is under way.
LEMMA IdleEdge ==
  ASSUME BusInv, NEW in \in Inputs, Edge(in), state_q = "IDLE", in.q = << >>
  PROVE  /\ answer' = << >>
         /\ UNCHANGED <<state_q, req_q, wr_q, rd_q, s, regs>>
<1>1. req_q = << >> /\ wr_q = << >> /\ rd_q = << >> /\ s = Only(0, Empty)
  BY DEF BusInv, BusShape
<1>2. /\ ~awvalid(in) /\ ~wvalid(in) /\ ~arvalid(in) /\ ~launch(in, TRUE) /\ ~launch(in, FALSE)
  BY DEF awvalid, wvalid, arvalid, launch
<1>3. ~aw_hs(in) /\ ~w_hs(in) /\ ~ar_hs(in) /\ ~r_hs(in) /\ ~b_hs
  BY <1>1, <1>2 DEF aw_hs, w_hs, ar_hs, r_hs, b_hs
<1>4. ASSUME NEW k \in 0..NoMatch PROVE ~do_write(in, k) /\ NextPort(in, k) = Empty
  <2>1. s[k].aw = << >> /\ s[k].w = << >> /\ s[k].b = FALSE /\ s[k].r = << >>
    BY <1>1, <1>4 DEF Only, Empty, Phases
  <2> QED
    BY <1>3, <1>4, <2>1, QuietPort
<1>5. s' = s
  BY <1>1, <1>4 DEF Edge, Only
<1>6. regs' = regs
  BY <1>4, NoWriteNoChange DEF Edge, BusInv
<1>7. next_state(in) = "IDLE" /\ next_answer(in) = << >>
  BY <1>2, <1>3 DEF next_state, next_answer
<1> QED
  BY <1>1, <1>3, <1>5, <1>6, <1>7 DEF Edge

\* A read is offered, live or from the latch, and taken at once or not.
LEMMA ReadEdge ==
  ASSUME BusInv, NEW in \in Inputs, Edge(in), NEW q \in Requests, ~q.we,
         driven(in) = <<q>>,
         \/ state_q = "IDLE" /\ in.q = <<q>>
         \/ state_q = "RD_ADDR" /\ req_q = <<q>>
  PROVE  /\ req_q' = <<q>> /\ wr_q' = << >> /\ regs' = regs /\ answer' = << >>
         /\ \/ /\ state_q' = "RD_WAIT" /\ rd_q' = <<decode(q.addr)>>
               /\ s' = Only(decode(q.addr), Phases(<< >>, << >>, FALSE,
                         <<IF q.addr \in Mapped THEN regs[q.addr] ELSE 0>>))
            \/ state_q' = "RD_ADDR" /\ rd_q' = << >> /\ s' = Only(0, Empty)
<1> DEFINE t == decode(q.addr)
           v == IF q.addr \in Mapped THEN regs[q.addr] ELSE 0
<1>1. wr_q = << >> /\ rd_q = << >> /\ s = Only(0, Empty)
  BY DEF BusInv, BusShape
<1>2. /\ ~awvalid(in) /\ ~wvalid(in) /\ arvalid(in) /\ ~launch(in, TRUE)
      /\ launch(in, FALSE) \/ state_q = "RD_ADDR"
  BY RequestFacts DEF awvalid, wvalid, arvalid, launch
<1>3. ~aw_hs(in) /\ ~w_hs(in) /\ ~r_hs(in) /\ ~b_hs
  BY <1>1, <1>2 DEF aw_hs, w_hs, r_hs, b_hs
<1>4. driven(in)[1] = q /\ rd_sel_live(in) = t /\ t \in 0..NoMatch
  BY <1>2, RequestFacts DEF rd_sel_live
<1>5. read_value(in) = v
  BY <1>4, RequestFacts DEF read_value
<1>6. ASSUME NEW k \in 0..NoMatch
      PROVE  s[k].aw = << >> /\ s[k].w = << >> /\ s[k].b = FALSE /\ s[k].r = << >>
  BY <1>1, <1>6 DEF Only, Empty, Phases
<1>7. ASSUME NEW k \in 0..NoMatch, ~(ar_hs(in) /\ k = t)
      PROVE  ~do_write(in, k) /\ NextPort(in, k) = Empty
  BY <1>3, <1>4, <1>6, <1>7, QuietPort
<1>8. ASSUME NEW k \in 0..NoMatch PROVE ~do_write(in, k)
  BY <1>3, <1>6, <1>8 DEF do_write, aw_eff
<1>9. regs' = regs
  BY <1>8, NoWriteNoChange DEF Edge, BusInv
<1>10. next_state(in) = IF ar_hs(in) THEN "RD_WAIT" ELSE "RD_ADDR"
  BY <1>2 DEF next_state, launch
<1>11. next_answer(in) = << >>
  BY <1>3 DEF next_answer
<1>12. req_q' = <<q>> /\ wr_q' = << >>
  BY <1>1, <1>3, <1>10 DEF Edge
<1>13. CASE ar_hs(in)
  <2>1. NextPort(in, t) = Phases(<< >>, << >>, FALSE, <<v>>)
    <3>1. aw_eff(in, t) = << >> /\ w_eff(in, t) = << >>
      BY <1>3, <1>4, <1>6 DEF aw_eff, w_eff
    <3>2. (do_write(in, t) \/ (s[t].b /\ wr_q # <<t>>)) = FALSE
      BY <1>4, <1>6, <1>8
    <3> QED
      BY <1>4, <1>5, <1>8, <1>13, <3>1, <3>2 DEF NextPort, Phases
  <2>2. s' = Only(t, Phases(<< >>, << >>, FALSE, <<v>>))
    BY <1>7, <2>1 DEF Edge, Only
  <2> QED
    BY <1>4, <1>9, <1>10, <1>11, <1>12, <1>13, <2>2 DEF Edge
<1>14. CASE ~ar_hs(in)
  <2>1. s' = Only(0, Empty)
    BY <1>7, <1>14 DEF Edge, Only
  <2> QED
    BY <1>1, <1>3, <1>9, <1>10, <1>11, <1>12, <1>14, <2>1 DEF Edge
<1> QED
  BY <1>13, <1>14

\* The answer of a read waits for the LSU.
LEMMA FetchEdge ==
  ASSUME BusInv, NEW in \in Inputs, Edge(in), NEW q \in Requests, NEW v,
         state_q = "RD_WAIT", req_q = <<q>>,
         s = Only(decode(q.addr), Phases(<< >>, << >>, FALSE, <<v>>))
  PROVE  /\ wr_q' = << >> /\ regs' = regs
         /\ \/ /\ state_q' = "IDLE" /\ req_q' = << >> /\ rd_q' = << >>
               /\ s' = Only(0, Empty) /\ answer' = <<[we |-> FALSE, val |-> v]>>
            \/ answer' = << >> /\ UNCHANGED <<state_q, req_q, rd_q, s>>
<1> DEFINE t == decode(q.addr)
<1>1. t \in 0..NoMatch /\ Target = t
  BY RequestFacts DEF Target, Under
<1>2. wr_q = << >> /\ rd_q = <<t>>
  BY <1>1 DEF BusInv, BusShape
<1>3. /\ s[t].aw = << >> /\ s[t].w = << >> /\ s[t].b = FALSE /\ s[t].r = <<v>>
      /\ \A k \in 0..NoMatch : k # t =>
           s[k].aw = << >> /\ s[k].w = << >> /\ s[k].b = FALSE /\ s[k].r = << >>
  BY <1>1, PortFields
<1>4. ~launch(in, TRUE) /\ ~launch(in, FALSE) /\ ~aw_hs(in) /\ ~w_hs(in) /\ ~ar_hs(in) /\ ~b_hs
  BY <1>2 DEF launch, aw_hs, w_hs, ar_hs, b_hs, awvalid, wvalid, arvalid
<1>5. ASSUME NEW k \in 0..NoMatch PROVE ~do_write(in, k)
  BY <1>3, <1>4 DEF do_write, aw_eff
<1>6. regs' = regs
  BY <1>5, NoWriteNoChange DEF Edge, BusInv
<1>7. ASSUME NEW k \in 0..NoMatch, k # t PROVE NextPort(in, k) = Empty
  BY <1>3, <1>4, <1>7, QuietPort
<1>8. NextPort(in, t) = Phases(<< >>, << >>, FALSE, IF r_hs(in) THEN << >> ELSE <<v>>)
  <2>1. aw_eff(in, t) = << >> /\ w_eff(in, t) = << >>
    BY <1>3, <1>4 DEF aw_eff, w_eff
  <2>2. (do_write(in, t) \/ (s[t].b /\ wr_q # <<t>>)) = FALSE
    BY <1>1, <1>3, <1>5
  <2> QED
    BY <1>1, <1>2, <1>3, <1>4, <1>5, <2>1, <2>2 DEF NextPort, Phases
<1>9. next_state(in) = IF r_hs(in) THEN "IDLE" ELSE "RD_WAIT"
  BY <1>4 DEF next_state
<1>10. CASE r_hs(in)
  <2>1. s' = Only(0, Empty)
    <3>1. s' = Only(t, Empty)
      BY <1>7, <1>8, <1>10 DEF Edge, Only, Empty
    <3> QED
      BY <1>1, <3>1, AllEmpty
  <2>2. next_answer(in) = <<[we |-> FALSE, val |-> v]>>
    <3>1. rd_q[1] = t /\ s[t].r[1] = v
      BY <1>2, <1>3, Holds
    <3> QED
      BY <1>10, <3>1 DEF next_answer
  <2> QED
    BY <1>2, <1>4, <1>6, <1>9, <1>10, <2>1, <2>2 DEF Edge
<1>11. CASE ~r_hs(in)
  <2>1. s' = s
    BY <1>7, <1>8, <1>11 DEF Edge, Only
  <2>2. next_answer(in) = << >> /\ driven(in) = req_q
    BY <1>11 DEF next_answer, driven
  <2> QED
    BY <1>2, <1>4, <1>6, <1>9, <1>11, <2>1, <2>2 DEF Edge
<1> QED
  BY <1>10, <1>11

\* The answer of a write is taken at once.
LEMMA AckEdge ==
  ASSUME BusInv, NEW in \in Inputs, Edge(in), NEW q \in Requests,
         state_q = "WR_WAIT", req_q = <<q>>,
         s = Only(decode(q.addr), Phases(<< >>, << >>, TRUE, << >>))
  PROVE  /\ state_q' = "IDLE" /\ req_q' = << >> /\ wr_q' = << >> /\ rd_q' = << >>
         /\ s' = Only(0, Empty) /\ regs' = regs
         /\ answer' = <<[we |-> TRUE, val |-> 0]>>
<1> DEFINE t == decode(q.addr)
<1>1. t \in 0..NoMatch /\ Target = t
  BY RequestFacts DEF Target, Under
<1>2. wr_q = <<t>> /\ rd_q = << >>
  BY <1>1 DEF BusInv, BusShape
<1>3. /\ s[t].aw = << >> /\ s[t].w = << >> /\ s[t].b = TRUE /\ s[t].r = << >>
      /\ \A k \in 0..NoMatch : k # t =>
           s[k].aw = << >> /\ s[k].w = << >> /\ s[k].b = FALSE /\ s[k].r = << >>
  BY <1>1, PortFields
<1>4. /\ ~launch(in, TRUE) /\ ~launch(in, FALSE)
      /\ ~aw_hs(in) /\ ~w_hs(in) /\ ~ar_hs(in) /\ ~r_hs(in) /\ b_hs
  BY <1>2, <1>3 DEF launch, aw_hs, w_hs, ar_hs, r_hs, b_hs, awvalid, wvalid, arvalid, rready
<1>5. ASSUME NEW k \in 0..NoMatch PROVE ~do_write(in, k)
  BY <1>3, <1>4 DEF do_write, aw_eff
<1>6. regs' = regs
  BY <1>5, NoWriteNoChange DEF Edge, BusInv
<1>7. ASSUME NEW k \in 0..NoMatch, k # t PROVE NextPort(in, k) = Empty
  BY <1>3, <1>4, <1>7, QuietPort
<1>8. NextPort(in, t) = Empty
  <2>1. aw_eff(in, t) = << >> /\ w_eff(in, t) = << >>
    BY <1>3, <1>4 DEF aw_eff, w_eff
  <2>2. (do_write(in, t) \/ (s[t].b /\ wr_q # <<t>>)) = FALSE
    BY <1>1, <1>2, <1>5
  <2> QED
    BY <1>1, <1>2, <1>3, <1>4, <1>5, <2>1, <2>2 DEF NextPort, Phases, Empty
<1>9. s' = Only(0, Empty)
  BY <1>7, <1>8 DEF Edge, Only
<1>10. next_state(in) = "IDLE" /\ next_answer(in) = <<[we |-> TRUE, val |-> 0]>>
  BY <1>4 DEF next_state, next_answer
<1> QED
  BY <1>2, <1>4, <1>6, <1>9, <1>10 DEF Edge

\* A write that is not committed yet moves on: phases are taken, and with
\* both of them the slave commits it when it likes.
LEMMA WritePhaseEdge ==
  ASSUME BusInv, NEW in \in Inputs, Edge(in), NEW q \in Requests, q.we,
         driven(in) = <<q>>,
         \/ state_q = "IDLE" /\ in.q = <<q>>
         \/ state_q \in {"WR_BOTH", "WR_ADDR", "WR_DATA"} /\ req_q = <<q>>
         \/ /\ state_q = "WR_WAIT" /\ req_q = <<q>>
            /\ s = Only(decode(q.addr), Phases(<<q.addr>>, <<q.data>>, FALSE, << >>))
  PROVE  LET t == decode(q.addr) IN
         /\ req_q' = <<q>> /\ rd_q' = << >> /\ answer' = << >>
         /\ \/ /\ state_q' = "WR_WAIT" /\ wr_q' = <<t>> /\ regs' = Stored(q)
               /\ s' = Only(t, Phases(<< >>, << >>, TRUE, << >>))
            \/ /\ regs' = regs
               /\ \/ state_q' = "WR_BOTH" /\ wr_q' = << >> /\ s' = Only(0, Empty)
                  \/ /\ state_q' = "WR_ADDR" /\ wr_q' = <<t>>
                     /\ s' = Only(t, Phases(<<q.addr>>, << >>, FALSE, << >>))
                  \/ /\ state_q' = "WR_DATA" /\ wr_q' = << >>
                     /\ s' = Only(t, Phases(<< >>, <<q.data>>, FALSE, << >>))
                  \/ /\ state_q' = "WR_WAIT" /\ wr_q' = <<t>>
                     /\ s' = Only(t, Phases(<<q.addr>>, <<q.data>>, FALSE, << >>))
<1> DEFINE t == decode(q.addr)
           aw == IF state_q \in {"WR_ADDR", "WR_WAIT"} THEN <<q.addr>> ELSE << >>
           w == IF state_q \in {"WR_DATA", "WR_WAIT"} THEN <<q.data>> ELSE << >>
           aw2 == IF aw_hs(in) THEN <<q.addr>> ELSE aw
           w2 == IF w_hs(in) THEN <<q.data>> ELSE w
           ports == [k \in 0..NoMatch |-> NextPort(in, k)]
<1>1. t \in 0..NoMatch
  BY RequestFacts
<1>2. ASSUME state_q # "IDLE" PROVE Under = q /\ Target = t
  BY <1>2, Holds DEF Target, Under
<1>3. /\ launch(in, TRUE) <=> state_q = "IDLE"
      /\ ~launch(in, FALSE)
  <2>1. q.we = TRUE
    BY RequestFacts
  <2>2. state_q = "IDLE" => in.q # << >> /\ in.q[1].we = TRUE
    BY <2>1, Holds
  <2> QED
    BY <2>2 DEF launch
<1>4. /\ awvalid(in) <=> aw = << >>
      /\ wvalid(in) <=> w = << >>
      /\ ~arvalid(in)
  BY <1>3 DEF awvalid, wvalid, arvalid
<1>5. rd_q = << >> /\ wr_q = IF aw = << >> THEN << >> ELSE <<t>>
  BY <1>2 DEF BusInv, BusShape
<1>6. s = Only(t, Phases(aw, w, FALSE, << >>))
  <2>1. CASE state_q \in {"IDLE", "WR_BOTH"}
    BY <2>1, <1>1, AllEmpty DEF BusInv, BusShape, Empty
  <2>2. CASE state_q = "WR_ADDR"
    BY <2>2, <1>2 DEF BusInv, BusShape
  <2>3. CASE state_q = "WR_DATA"
    BY <2>3, <1>2 DEF BusInv, BusShape
  <2>4. CASE state_q = "WR_WAIT"
    BY <2>4
  <2> QED
    BY <2>1, <2>2, <2>3, <2>4
<1>7. regs \in [Mapped -> Values] /\ aw \in {<< >>, <<q.addr>>} /\ w \in {<< >>, <<q.data>>}
  BY DEF BusInv
<1> HIDE DEF aw, w
<1>8. /\ aw_hs(in) => wr_sel_live(in) = t /\ aw = << >>
      /\ w_hs(in) => w = << >>
      /\ ~ar_hs(in) /\ ~r_hs(in) /\ ~b_hs
      /\ \/ /\ aw2 # << >> /\ w2 # << >>
            /\ ports = Only(t, Phases(<< >>, << >>, TRUE, << >>))
            /\ NextRegs(in) = Stored(q)
         \/ /\ ports = Only(t, Phases(aw2, w2, FALSE, << >>))
            /\ NextRegs(in) = regs
  BY <1>4, <1>5, <1>6, <1>7, WriteEdge, ZenonT(60)
<1>9. next_state(in) = IF aw2 # << >> THEN (IF w2 # << >> THEN "WR_WAIT" ELSE "WR_ADDR")
                       ELSE (IF w2 # << >> THEN "WR_DATA" ELSE "WR_BOTH")
  <2>1. CASE state_q \in {"IDLE", "WR_BOTH"}
    <3>1. next_state(in) = after_write(in) /\ aw = << >> /\ w = << >>
      BY <1>3, <2>1 DEF next_state, aw, w, launch
    <3> QED
      BY <3>1 DEF after_write
  <2>2. CASE state_q = "WR_ADDR"
    <3>1. aw2 # << >> /\ w = << >>
      BY <2>2 DEF aw, w
    <3> QED
      BY <2>2, <1>3, <3>1 DEF next_state
  <2>3. CASE state_q = "WR_DATA"
    <3>1. w2 # << >> /\ aw = << >>
      BY <2>3 DEF aw, w
    <3> QED
      BY <2>3, <1>3, <3>1 DEF next_state
  <2>4. CASE state_q = "WR_WAIT"
    <3>1. w2 # << >> /\ aw2 # << >>
      BY <2>4 DEF aw, w
    <3> QED
      BY <2>4, <1>3, <1>8, <3>1 DEF next_state
  <2> QED
    BY <2>1, <2>2, <2>3, <2>4
<1>10. next_answer(in) = << >>
  BY <1>8 DEF next_answer
<1>11. /\ req_q' = <<q>> /\ rd_q' = << >> /\ answer' = << >>
       /\ wr_q' = IF aw2 = << >> THEN << >> ELSE <<t>>
       /\ s' = ports /\ regs' = NextRegs(in) /\ state_q' = next_state(in)
  BY <1>5, <1>8, <1>9, <1>10 DEF Edge
<1>12. aw2 \in {<< >>, <<q.addr>>} /\ w2 \in {<< >>, <<q.data>>}
  BY <1>7
<1>13. Only(t, Phases(<< >>, << >>, FALSE, << >>)) = Only(0, Empty)
  BY <1>1, AllEmpty DEF Empty
<1> HIDE DEF aw2, w2, ports, t
<1>14. CASE aw2 # << >> /\ w2 # << >>
  BY <1>8, <1>9, <1>11, <1>12, <1>14 DEF t
<1>15. CASE aw2 # << >> /\ w2 = << >>
  BY <1>8, <1>9, <1>11, <1>12, <1>15 DEF t
<1>16. CASE aw2 = << >> /\ w2 # << >>
  BY <1>8, <1>9, <1>11, <1>12, <1>16 DEF t
<1>17. CASE aw2 = << >> /\ w2 = << >>
  BY <1>8, <1>9, <1>11, <1>12, <1>13, <1>17 DEF t
<1> QED
  BY <1>14, <1>15, <1>16, <1>17

(***************************************************************************)
(* The refinement mapping.  DoneIn and ValueIn are what the ports f say of *)
(* the access, so that one lemma serves the state before and after a step. *)
(***************************************************************************)
DoneIn(f) == \E k \in 0..NoMatch : f[k].b \/ f[k].r # << >>
ValueIn(f) ==
  IF \E k \in 0..NoMatch : f[k].r # << >>
  THEN f[CHOOSE k \in 0..NoMatch : f[k].r # << >>].r[1] ELSE 0

Job ==
  IF state_q = "IDLE" THEN << >>
  ELSE <<[req |-> req_q[1], done |-> DoneIn(s), val |-> ValueIn(s)]>>

\* A port with an answer is the one that performed the access.
LEMMA OnlyAnswers ==
  ASSUME NEW f, NEW t \in 0..NoMatch
  PROVE  /\ \A aw, w : f = Only(t, Phases(aw, w, FALSE, << >>)) =>
              DoneIn(f) = FALSE /\ ValueIn(f) = 0
         /\ f = Only(t, Phases(<< >>, << >>, TRUE, << >>)) =>
              DoneIn(f) = TRUE /\ ValueIn(f) = 0
         /\ \A v : f = Only(t, Phases(<< >>, << >>, FALSE, <<v>>)) =>
              DoneIn(f) = TRUE /\ ValueIn(f) = v
<1>1. ASSUME NEW aw, NEW w, f = Only(t, Phases(aw, w, FALSE, << >>))
      PROVE  DoneIn(f) = FALSE /\ ValueIn(f) = 0
  <2>1. \A k \in 0..NoMatch : f[k].b = FALSE /\ f[k].r = << >>
    BY <1>1 DEF Only, Phases, Empty
  <2> QED
    BY <2>1 DEF DoneIn, ValueIn
<1>2. ASSUME f = Only(t, Phases(<< >>, << >>, TRUE, << >>))
      PROVE  DoneIn(f) = TRUE /\ ValueIn(f) = 0
  <2>1. f[t].b = TRUE /\ \A k \in 0..NoMatch : f[k].r = << >>
    BY <1>2 DEF Only, Phases, Empty
  <2> QED
    BY <2>1 DEF DoneIn, ValueIn
<1>3. ASSUME NEW v, f = Only(t, Phases(<< >>, << >>, FALSE, <<v>>))
      PROVE  DoneIn(f) = TRUE /\ ValueIn(f) = v
  <2>1. f[t].r = <<v>> /\ \A k \in 0..NoMatch : k # t => f[k].r = << >>
    BY <1>3 DEF Only, Phases, Empty
  <2>2. f[t].r # << >> /\ f[t].r[1] = v
    BY <2>1, Holds
  <2>3. DoneIn(f) = TRUE
    BY <2>2 DEF DoneIn
  <2>4. (CHOOSE k \in 0..NoMatch : f[k].r # << >>) = t
    BY <2>1, <2>2
  <2> QED
    BY <2>2, <2>3, <2>4 DEF ValueIn
<1> QED
  BY <1>1, <1>2, <1>3

\* The access under way, as the mapping reads it off the ports.
LEMMA JobNow ==
  ASSUME NEW q, NEW t \in 0..NoMatch, state_q # "IDLE", req_q = <<q>>
  PROVE  /\ \A aw, w : s = Only(t, Phases(aw, w, FALSE, << >>)) =>
              Job = <<[req |-> q, done |-> FALSE, val |-> 0]>>
         /\ s = Only(t, Phases(<< >>, << >>, TRUE, << >>)) =>
              Job = <<[req |-> q, done |-> TRUE, val |-> 0]>>
         /\ \A v : s = Only(t, Phases(<< >>, << >>, FALSE, <<v>>)) =>
              Job = <<[req |-> q, done |-> TRUE, val |-> v]>>
<1>1. Job = <<[req |-> q, done |-> DoneIn(s), val |-> ValueIn(s)]>>
  BY Holds DEF Job, DoneIn, ValueIn
<1>2. ASSUME NEW aw, NEW w, s = Only(t, Phases(aw, w, FALSE, << >>))
      PROVE  DoneIn(s) = FALSE /\ ValueIn(s) = 0
  BY <1>2, OnlyAnswers
<1>3. ASSUME s = Only(t, Phases(<< >>, << >>, TRUE, << >>))
      PROVE  DoneIn(s) = TRUE /\ ValueIn(s) = 0
  BY <1>3, OnlyAnswers
<1>4. ASSUME NEW v, s = Only(t, Phases(<< >>, << >>, FALSE, <<v>>))
      PROVE  DoneIn(s) = TRUE /\ ValueIn(s) = v
  BY <1>4, OnlyAnswers
<1> QED
  BY <1>1, <1>2, <1>3, <1>4

\* The same for the state after the edge.
LEMMA JobNext ==
  ASSUME NEW q, NEW t \in 0..NoMatch, state_q' # "IDLE", req_q' = <<q>>
  PROVE  /\ \A aw, w : s' = Only(t, Phases(aw, w, FALSE, << >>)) =>
              Job' = <<[req |-> q, done |-> FALSE, val |-> 0]>>
         /\ s' = Only(t, Phases(<< >>, << >>, TRUE, << >>)) =>
              Job' = <<[req |-> q, done |-> TRUE, val |-> 0]>>
         /\ \A v : s' = Only(t, Phases(<< >>, << >>, FALSE, <<v>>)) =>
              Job' = <<[req |-> q, done |-> TRUE, val |-> v]>>
<1>1. Job' = <<[req |-> q, done |-> DoneIn(s'), val |-> ValueIn(s')]>>
  BY Holds DEF Job, DoneIn, ValueIn
<1>2. ASSUME NEW aw, NEW w, s' = Only(t, Phases(aw, w, FALSE, << >>))
      PROVE  DoneIn(s') = FALSE /\ ValueIn(s') = 0
  BY <1>2, OnlyAnswers
<1>3. ASSUME s' = Only(t, Phases(<< >>, << >>, TRUE, << >>))
      PROVE  DoneIn(s') = TRUE /\ ValueIn(s') = 0
  BY <1>3, OnlyAnswers
<1>4. ASSUME NEW v, s' = Only(t, Phases(<< >>, << >>, FALSE, <<v>>))
      PROVE  DoneIn(s') = TRUE /\ ValueIn(s') = v
  BY <1>4, OnlyAnswers
<1> QED
  BY <1>1, <1>2, <1>3, <1>4

\* The steps of PeriPort, in terms of Job.
Reading(q) == IF q.we \/ q.addr \in Unmapped THEN 0 ELSE regs[q.addr]
Writing(q) == IF q.we /\ q.addr \in Mapped THEN [regs EXCEPT ![q.addr] = q.data] ELSE regs

\* The four ways in which an edge is a step of the abstract port.
LEMMA PortSteps ==
  ASSUME NEW q \in Requests
  PROVE  /\ /\ Job = << >> /\ answer' = << >> /\ regs' = regs
            /\ Job' = <<[req |-> q, done |-> FALSE, val |-> 0]>>
            => Port!PortNext
         /\ /\ Job = << >> \/ Job = <<[req |-> q, done |-> FALSE, val |-> 0]>>
            /\ answer' = << >> /\ regs' = Writing(q)
            /\ Job' = <<[req |-> q, done |-> TRUE, val |-> Reading(q)]>>
            => Port!PortNext
         /\ \A v : /\ Job = <<[req |-> q, done |-> TRUE, val |-> v]>>
                  /\ Job' = << >> /\ regs' = regs
                  /\ answer' = <<[we |-> q.we, val |-> v]>>
                  => Port!PortNext
         /\ answer' = << >> /\ regs' = regs /\ Job' = Job => Port!PortNext
<1> USE DEF Port!PortNext, Job, DoneIn, ValueIn, Performed, PerformedValue
<1>1. ASSUME Job = << >>, answer' = << >>, regs' = regs,
             Job' = <<[req |-> q, done |-> FALSE, val |-> 0]>>
      PROVE  Port!PortNext
  BY <1>1 DEF Port!Accept
<1>2. ASSUME Job = << >> \/ Job = <<[req |-> q, done |-> FALSE, val |-> 0]>>,
             answer' = << >>, regs' = Writing(q),
             Job' = <<[req |-> q, done |-> TRUE, val |-> Reading(q)]>>
      PROVE  Port!PortNext
  BY <1>2 DEF Port!Accept, Port!Perform, Port!Effect, Port!Value, Reading, Writing
<1>3. ASSUME NEW v, Job = <<[req |-> q, done |-> TRUE, val |-> v]>>,
             Job' = << >>, regs' = regs, answer' = <<[we |-> q.we, val |-> v]>>
      PROVE  Port!PortNext
  BY <1>3 DEF Port!Finish
<1>4. ASSUME answer' = << >>, regs' = regs, Job' = Job
      PROVE  Port!PortNext
  BY <1>4 DEF Port!Wait
<1> QED
  BY <1>1, <1>2, <1>3, <1>4

\* The read performed now returns what PeriPort says, and the write changes
\* what it says.
LEMMA EffectsAgree ==
  ASSUME NEW q \in Requests, regs \in [Mapped -> Values]
  PROVE  /\ ~q.we => /\ (IF q.addr \in Mapped THEN regs[q.addr] ELSE 0) = Reading(q)
                     /\ Writing(q) = regs /\ Reading(q) \in Values
         /\ q.we => Stored(q) = Writing(q) /\ Reading(q) = 0 /\ Writing(q) \in [Mapped -> Values]
<1>1. ASSUME ~q.we
      PROVE  /\ (IF q.addr \in Mapped THEN regs[q.addr] ELSE 0) = Reading(q)
             /\ Writing(q) = regs /\ Reading(q) \in Values
  <2>1. CASE q.addr \in Mapped
    <3>1. q.addr \notin Unmapped
      BY <2>1, BusAssumption DEF Mapped
    <3> QED
      BY <1>1, <2>1, <3>1 DEF Reading, Writing
  <2>2. CASE q.addr \notin Mapped
    <3>1. q.addr \in Unmapped
      BY <2>2, RequestFacts
    <3> QED
      BY <1>1, <2>2, <3>1, BusAssumption DEF Reading, Writing
  <2> QED
    BY <2>1, <2>2
<1>2. ASSUME q.we
      PROVE  Stored(q) = Writing(q) /\ Reading(q) = 0 /\ Writing(q) \in [Mapped -> Values]
  BY <1>2, RequestFacts DEF Stored, Writing, Reading
<1> QED
  BY <1>1, <1>2

(***************************************************************************)
(* Every edge keeps BusInv and is a step of PeriPort.                      *)
(***************************************************************************)
LEMMA EdgeStep ==
  ASSUME BusInv, NEW in \in Inputs, Edge(in)
  PROVE  BusInv' /\ Port!PortNext
<1>0. regs \in [Mapped -> Values]
  BY DEF BusInv
<1>1. ASSUME NEW q \in Requests, ~q.we, driven(in) = <<q>>,
             \/ state_q = "IDLE" /\ in.q = <<q>>
             \/ state_q = "RD_ADDR" /\ req_q = <<q>>
      PROVE  BusInv' /\ Port!PortNext
  <2> DEFINE t == decode(q.addr)
  <2>1. t \in 0..NoMatch
    BY RequestFacts
  <2>2. Job = << >> \/ Job = <<[req |-> q, done |-> FALSE, val |-> 0]>>
    <3>1. CASE state_q = "IDLE"
      BY <3>1 DEF Job
    <3>2. CASE state_q = "RD_ADDR"
      <4>1. s = Only(t, Phases(<< >>, << >>, FALSE, << >>))
        BY <2>1, <3>2, AllEmpty DEF BusInv, BusShape, Empty
      <4> QED
        BY <1>1, <2>1, <3>2, <4>1, JobNow
    <3> QED
      BY <1>1, <3>1, <3>2
  <2>3. req_q' = <<q>> /\ wr_q' = << >> /\ regs' = regs /\ answer' = << >>
    BY <1>1, ReadEdge
  <2>4. Under' = q /\ Target' = t
    BY <2>3, Holds DEF Under, Target, decode
  <2>5. CASE /\ state_q' = "RD_WAIT" /\ rd_q' = <<t>>
             /\ s' = Only(t, Phases(<< >>, << >>, FALSE,
                       <<IF q.addr \in Mapped THEN regs[q.addr] ELSE 0>>))
    <3>1. s' = Only(t, Phases(<< >>, << >>, FALSE, <<Reading(q)>>)) /\ Reading(q) \in Values
      BY <1>0, <1>1, <2>5, EffectsAgree
    <3>2. BusInv'
      BY <1>0, <1>1, <2>3, <2>4, <2>5, <3>1 DEF BusInv, BusShape
    <3>3. Job' = <<[req |-> q, done |-> TRUE, val |-> Reading(q)]>>
      BY <2>1, <2>3, <2>5, <3>1, JobNext
    <3>4. regs' = Writing(q)
      BY <1>0, <1>1, <2>3, EffectsAgree
    <3> QED
      BY <2>2, <2>3, <3>2, <3>3, <3>4, PortSteps
  <2>6. CASE state_q' = "RD_ADDR" /\ rd_q' = << >> /\ s' = Only(0, Empty)
    <3>1. BusInv'
      BY <1>0, <1>1, <2>3, <2>4, <2>6 DEF BusInv, BusShape
    <3>2. Job' = <<[req |-> q, done |-> FALSE, val |-> 0]>>
      <4>1. s' = Only(t, Phases(<< >>, << >>, FALSE, << >>))
        BY <2>1, <2>6, AllEmpty DEF Empty
      <4> QED
        BY <2>1, <2>3, <2>6, <4>1, JobNext
    <3> QED
      BY <2>2, <2>3, <3>1, <3>2, PortSteps
  <2> QED
    BY <1>1, <2>5, <2>6, ReadEdge
<1>2. ASSUME NEW q \in Requests, q.we, driven(in) = <<q>>,
             \/ state_q = "IDLE" /\ in.q = <<q>>
             \/ state_q \in {"WR_BOTH", "WR_ADDR", "WR_DATA"} /\ req_q = <<q>>
             \/ /\ state_q = "WR_WAIT" /\ req_q = <<q>>
                /\ s = Only(decode(q.addr), Phases(<<q.addr>>, <<q.data>>, FALSE, << >>))
      PROVE  BusInv' /\ Port!PortNext
  <2> DEFINE t == decode(q.addr)
  <2>1. t \in 0..NoMatch
    BY RequestFacts
  <2>2. Job = << >> \/ Job = <<[req |-> q, done |-> FALSE, val |-> 0]>>
    <3>1. CASE state_q = "IDLE"
      BY <3>1 DEF Job
    <3>2. CASE state_q # "IDLE"
      <4>1. req_q = <<q>> /\ Under = q /\ Target = t
        BY <1>2, <3>2, Holds DEF Under, Target
      <4>2. \E aw, w : s = Only(t, Phases(aw, w, FALSE, << >>))
        <5>1. CASE state_q = "WR_BOTH"
          BY <2>1, <5>1, AllEmpty DEF BusInv, BusShape, Empty
        <5>2. CASE state_q # "WR_BOTH"
          BY <1>2, <3>2, <4>1, <5>2 DEF BusInv, BusShape
        <5> QED
          BY <5>1, <5>2
      <4> QED
        BY <2>1, <3>2, <4>1, <4>2, JobNow
    <3> QED
      BY <3>1, <3>2
  <2>3. req_q' = <<q>> /\ rd_q' = << >> /\ answer' = << >>
    BY <1>2, WritePhaseEdge
  <2>4. Under' = q /\ Target' = t
    BY <2>3, Holds DEF Under, Target, decode
  <2>5. CASE /\ state_q' = "WR_WAIT" /\ wr_q' = <<t>> /\ regs' = Stored(q)
             /\ s' = Only(t, Phases(<< >>, << >>, TRUE, << >>))
    <3>1. regs' = Writing(q) /\ Reading(q) = 0 /\ regs' \in [Mapped -> Values]
      BY <1>0, <1>2, <2>5, EffectsAgree
    <3>2. BusInv'
      BY <1>2, <2>3, <2>4, <2>5, <3>1 DEF BusInv, BusShape
    <3>3. Job' = <<[req |-> q, done |-> TRUE, val |-> Reading(q)]>>
      BY <2>1, <2>3, <2>5, <3>1, JobNext
    <3> QED
      BY <2>2, <2>3, <3>1, <3>2, <3>3, PortSteps
  <2>6. ASSUME regs' = regs,
               \/ state_q' = "WR_BOTH" /\ wr_q' = << >> /\ s' = Only(0, Empty)
               \/ /\ state_q' = "WR_ADDR" /\ wr_q' = <<t>>
                  /\ s' = Only(t, Phases(<<q.addr>>, << >>, FALSE, << >>))
               \/ /\ state_q' = "WR_DATA" /\ wr_q' = << >>
                  /\ s' = Only(t, Phases(<< >>, <<q.data>>, FALSE, << >>))
               \/ /\ state_q' = "WR_WAIT" /\ wr_q' = <<t>>
                  /\ s' = Only(t, Phases(<<q.addr>>, <<q.data>>, FALSE, << >>))
        PROVE  BusInv' /\ Port!PortNext
    <3>1. BusInv'
      BY <1>0, <1>2, <2>3, <2>4, <2>6 DEF BusInv, BusShape
    <3>2. \E aw, w : s' = Only(t, Phases(aw, w, FALSE, << >>))
      <4>1. CASE s' = Only(0, Empty)
        BY <2>1, <4>1, AllEmpty DEF Empty
      <4> QED
        BY <2>6, <4>1
    <3>3. Job' = <<[req |-> q, done |-> FALSE, val |-> 0]>>
      BY <2>1, <2>3, <2>6, <3>2, JobNext
    <3> QED
      BY <2>2, <2>3, <2>6, <3>1, <3>3, PortSteps
  <2> QED
    BY <1>2, <2>5, <2>6, WritePhaseEdge
<1>3. CASE state_q = "IDLE" /\ in.q = << >>
  <2>1. answer' = << >> /\ UNCHANGED <<state_q, req_q, wr_q, rd_q, s, regs>>
    BY <1>3, IdleEdge
  <2>2. BusInv'
    BY <2>1 DEF BusInv, BusShape, Under, Target
  <2> QED
    BY <2>1, <2>2 DEF Port!PortNext, Port!Wait, Performed, PerformedValue
<1>4. CASE state_q = "IDLE" /\ in.q # << >>
  <2>1. PICK q \in Requests : in.q = <<q>>
    BY <1>4, OptionFacts
  <2>2. driven(in) = <<q>>
    BY <1>4, <2>1 DEF driven
  <2> QED
    BY <1>1, <1>2, <1>4, <2>1, <2>2
<1>5. CASE state_q # "IDLE"
  <2>1. PICK q \in Requests : req_q = <<q>>
    BY <1>5 DEF BusInv, BusShape
  <2> DEFINE t == decode(q.addr)
  <2>2. driven(in) = <<q>> /\ Under = q /\ Target = t /\ t \in 0..NoMatch
    BY <1>5, <2>1, Holds, RequestFacts DEF driven, Under, Target
  <2>3. CASE state_q = "RD_ADDR"
    BY <1>1, <2>1, <2>2, <2>3 DEF BusInv, BusShape
  <2>4. CASE state_q \in {"WR_BOTH", "WR_ADDR", "WR_DATA"}
    BY <1>2, <2>1, <2>2, <2>4 DEF BusInv, BusShape
  <2>5. CASE state_q = "RD_WAIT"
    <3>1. PICK v \in Values : s = Only(t, Phases(<< >>, << >>, FALSE, <<v>>))
      BY <2>2, <2>5 DEF BusInv, BusShape
    <3>2. q.we = FALSE
      BY <2>2, <2>5, RequestFacts DEF BusInv, BusShape
    <3>3. Job = <<[req |-> q, done |-> TRUE, val |-> v]>>
      BY <1>5, <2>1, <2>2, <3>1, JobNow
    <3>4. wr_q' = << >> /\ regs' = regs
      BY <2>1, <2>5, <3>1, FetchEdge
    <3>5. CASE /\ state_q' = "IDLE" /\ req_q' = << >> /\ rd_q' = << >>
               /\ s' = Only(0, Empty) /\ answer' = <<[we |-> FALSE, val |-> v]>>
      <4>1. BusInv'
        BY <1>0, <3>4, <3>5 DEF BusInv, BusShape
      <4>2. Job' = << >>
        BY <3>5 DEF Job
      <4> QED
        BY <3>2, <3>3, <3>4, <3>5, <4>1, <4>2, PortSteps
    <3>6. CASE answer' = << >> /\ UNCHANGED <<state_q, req_q, rd_q, s>>
      <4>1. wr_q' = wr_q
        BY <2>5, <3>4 DEF BusInv, BusShape
      <4>2. BusInv'
        BY <3>4, <3>6, <4>1 DEF BusInv, BusShape, Under, Target
      <4> QED
        BY <3>4, <3>6, <4>2 DEF Port!PortNext, Port!Wait, Performed, PerformedValue
    <3> QED
      BY <2>1, <2>5, <3>1, <3>5, <3>6, FetchEdge
  <2>6. CASE state_q = "WR_WAIT"
    <3>1. q.we = TRUE
      BY <2>2, <2>6, RequestFacts DEF BusInv, BusShape
    <3>2. CASE s = Only(t, Phases(<<q.addr>>, <<q.data>>, FALSE, << >>))
      BY <1>2, <2>1, <2>2, <2>6, <3>1, <3>2
    <3>3. CASE s = Only(t, Phases(<< >>, << >>, TRUE, << >>))
      <4>1. Job = <<[req |-> q, done |-> TRUE, val |-> 0]>>
        BY <1>5, <2>1, <2>2, <3>3, JobNow
      <4>2. /\ state_q' = "IDLE" /\ req_q' = << >> /\ wr_q' = << >> /\ rd_q' = << >>
            /\ s' = Only(0, Empty) /\ regs' = regs
            /\ answer' = <<[we |-> TRUE, val |-> 0]>>
        BY <2>1, <2>6, <3>3, AckEdge
      <4>3. BusInv'
        BY <1>0, <4>2 DEF BusInv, BusShape
      <4>4. Job' = << >>
        BY <4>2 DEF Job
      <4> QED
        BY <3>1, <4>1, <4>2, <4>3, <4>4, PortSteps
    <3> QED
      BY <2>2, <2>6, <3>2, <3>3 DEF BusInv, BusShape
  <2> QED
    BY <1>5, <2>3, <2>4, <2>5, <2>6 DEF BusInv, BusShape
<1> QED
  BY <1>3, <1>4, <1>5

\* The bus is in order after reset.
LEMMA BusInvInit == BusInit => BusInv
<1> SUFFICES ASSUME BusInit PROVE BusInv
  OBVIOUS
<1>1. s = Only(0, Empty)
  BY DEF BusInit, Only, Empty, Phases
<1>2. regs \in [Mapped -> Values]
  BY BusAssumption DEF BusInit
<1> QED
  BY <1>1, <1>2 DEF BusInit, BusInv, BusShape

\* Every edge keeps the bus in order.
LEMMA BusInvStep ==
  ASSUME BusInv, [Cycle]_busVars
  PROVE  BusInv'
<1>1. CASE Cycle
  BY <1>1, EdgeStep DEF Cycle
<1>2. CASE UNCHANGED busVars
  BY <1>2 DEF busVars, BusInv, BusShape, Under, Target
<1> QED
  BY <1>1, <1>2

\* The bus is in order in every reachable state.
LEMMA BusInvariant == BusSpec => []BusInv
<1>1. BusInv /\ [Cycle]_busVars => BusInv'
  BY BusInvStep
<1> QED
  BY BusInvInit, <1>1, PTL DEF BusSpec

(***************************************************************************)
(* Theorems.                                                               *)
(***************************************************************************)
\* Whenever the bridge is in S_IDLE nothing of an earlier access is left in
\* the crossbar or in any slave, whatever the slaves refused and in which
\* order they took the phases.
THEOREM BusQuiescent == BusSpec => []Quiescent
<1>1. BusInv => Quiescent
  BY DEF BusInv, BusShape, Quiescent, Only, Empty, Phases
<1> QED
  BY BusInvariant, <1>1, PTL

\* Bridge, crossbar, terminator and slaves implement the peripheral port for
\* every register map: one access at a time, performed exactly once on the
\* register it names, and answered with what it read.
THEOREM BusRefinesPort == BusSpec => BusImplementsPort
<1>1. BusInit => Port!PortInit
  BY DEF BusInit, Port!PortInit
<1>2. BusInv /\ [Cycle]_busVars => [Port!PortNext]_(Port!portVars)
  <2> SUFFICES ASSUME BusInv, [Cycle]_busVars
               PROVE  [Port!PortNext]_(Port!portVars)
    OBVIOUS
  <2>1. CASE Cycle
    BY <2>1, EdgeStep DEF Cycle
  <2>2. CASE UNCHANGED busVars
    BY <2>2 DEF busVars, Port!portVars, Performed, PerformedValue
  <2> QED
    BY <2>1, <2>2
<1> QED
  BY BusInvariant, <1>1, <1>2, PTL DEF BusSpec, BusImplementsPort, Port!PortSpec
=============================================================================
