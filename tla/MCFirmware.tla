----------------------------- MODULE MCFirmware ------------------------------
EXTENDS Firmware
\* Strings of up to 5 characters; the memory behind them is neither zero nor what
\* the destination holds.
MCStrings == UNION {[1..n -> {1, 3}] : n \in 0..5}
MCRam(s, a) == [k \in 0..RAM-1 |-> IF k \in a..a+Len(s)-1 THEN s[k - a + 1]
                                 ELSE IF k = a + Len(s) THEN 0
                                 ELSE IF k < RAM \div 2 THEN 2 ELSE 1]
MCStrcpy == {[f |-> "strcpy", dst |-> d, src |-> a, ram |-> MCRam(s, a)] :
               d \in 12..15, a \in 0..3, s \in MCStrings}
MCMem == {[f |-> "memcpy", dst |-> 13, src |-> 2, n |-> k, ram |-> MCRam(<<1, 3>>, 3)] : k \in 0..4}
         \cup {[f |-> "memset", dst |-> 5, n |-> k, c |-> 3, ram |-> MCRam(<<1>>, 4)] : k \in 0..4}
MCMalloc == {[f |-> "malloc", n |-> k] : k \in {1, 4, 6, 9, LONG - HEAP_BYTES - 4}}
Arg(n) == [n |-> n % LONG, s |-> <<>>, c |-> "0"]
Num(k, w, n) == [kind |-> k, width |-> w, n |-> n, s |-> <<>>]
Txt(s) == [kind |-> "text", width |-> 0, n |-> 0, s |-> s]
Wide(k) == IF k = "x" THEN HEX_BUF ELSE DEC_BUF
MCNumbers ==
  {[f |-> "printf", fmt |-> <<"%">> \o w[1] \o <<k>>, args |-> <<Arg(n)>>,
    spec |-> <<Num(k, IF w[2] < Wide(k) THEN w[2] ELSE Wide(k), n)>>] :
     k \in {"u", "x"}, w \in {<<<<>>, 0>>, <<<<"0", "2">>, 2>>, <<<<"1", "5", "l">>, 15>>}, n \in 0..LONG-1}
MCSigned ==
  {[f |-> "printf", fmt |-> <<"%", "3", "d">>, args |-> <<Arg(n)>>, spec |-> <<Num("d", 3, n)>>] :
     n \in -(LONG \div 2)..(LONG \div 2 - 1)}
MCMixed ==
  {[f |-> "printf",
    fmt |-> <<"%", "s", "a", "nl", "%", "%", "%", "l", "u", ".", "%", "0", "2", "u", "%", "c", "%", "q">>,
    args |-> <<[Arg(0) EXCEPT !.s = <<"b", "nl">>], Arg(n), Arg(n), [Arg(0) EXCEPT !.c = "z"]>>,
    spec |-> <<Txt(<<"b", "cr", "nl", "a", "cr", "nl", "%">>), Num("u", 0, n), Txt(<<".">>), Num("u", 2, n), Txt(<<"z">>)>>] :
     n \in {0, 9, 10}}
MCChar == {hex[d] : d \in 1..16} \cup {"cr", "nl", "-", "%", ".", "l", "q", "s", "u", "x", "z"}
MCCalls == MCStrcpy \cup MCMem \cup MCMalloc \cup MCNumbers \cup MCSigned \cup MCMixed

\* "hello", and a text longer than the buffer.
MCTexts == {Hello, [k \in 1..INPUT_MAX+1 |-> 32 + (k % 90)]}
=============================================================================
