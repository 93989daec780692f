----------------------------- MODULE Induction ------------------------------
(***************************************************************************)
(* Induction and recursion over the natural numbers, from the one          *)
(* induction theorem of the library that speaks of a set and not of an     *)
(* operator: a non-empty subset of a well-founded order has a minimal      *)
(* member (WFMin).                                                         *)
(*                                                                         *)
(* The proofs about the divider and about the bytes of the echo program    *)
(* rest on recursive functions of the models; RecursionExists gives such a *)
(* function its defining equation, SetInduction what holds of all its      *)
(* values.                                                                 *)
(***************************************************************************)

EXTENDS Integers, WellFoundedInduction, TLAPS

\* A set of natural numbers that is not empty has a least member.
LEMMA LeastMember ==
  ASSUME NEW T, T \subseteq Nat, T # {}
  PROVE  \E n \in T : \A m \in T : n <= m
<1>1. PICK x \in T : \A y \in T : ~ (<<y, x>> \in OpToRel(<, Nat))
  BY NatLessThanWellFounded, WFMin
<1>2. \A y \in T : ~(y < x)
  BY <1>1 DEF OpToRel
<1> QED
  BY <1>2

\* Induction: a set with 0 that is closed under successor has every natural number.
LEMMA SetInduction ==
  ASSUME NEW T, 0 \in T, \A n \in Nat : n \in T => n + 1 \in T
  PROVE  \A n \in Nat : n \in T
<1> SUFFICES ASSUME Nat \ T # {} PROVE FALSE
  OBVIOUS
<1>1. PICK n \in Nat \ T : \A m \in Nat \ T : n <= m
  BY LeastMember, Nat \ T \subseteq Nat
<1>2. n - 1 \in Nat /\ n - 1 \notin T
  BY <1>1
<1> QED
  BY <1>1, <1>2

\* f follows the recursion from b with g, up to n.
Follows(f, n, b, g) == f[0] = b /\ \A k \in 0 .. n-1 : f[k + 1] = g[k][f[k]]

\* Two functions that follow the same recursion agree as far as both go.
LEMMA FollowsUnique ==
  ASSUME NEW S, NEW b \in S, NEW g \in [Nat -> [S -> S]],
         NEW m \in Nat, NEW n \in Nat, NEW f, NEW h, 
         Follows(f, m, b, g), Follows(h, n, b, g)
  PROVE  \A k \in Nat : k <= m /\ k <= n => f[k] = h[k]
<1> DEFINE T == {k \in Nat : k <= m /\ k <= n => f[k] = h[k]}
<1>1. 0 \in T
  BY DEF Follows
<1>2. ASSUME NEW k \in Nat, k \in T PROVE k + 1 \in T
  <2> SUFFICES ASSUME k + 1 <= m, k + 1 <= n PROVE f[k+1] = h[k+1]
    OBVIOUS
  <2>1. f[k] = h[k] /\ k \in 0 .. m-1 /\ k \in 0 .. n-1
    BY <1>2
  <2> QED
    BY <2>1 DEF Follows
<1> HIDE DEF T
<1>3. \A k \in Nat : k \in T
  BY <1>1, <1>2, SetInduction
<1> QED
  BY <1>3 DEF T

\* Some function follows the recursion up to n, for every n: the one up to n goes on
\* by one more value.
LEMMA FollowsExists ==
  ASSUME NEW S, NEW b \in S, NEW g \in [Nat -> [S -> S]]
  PROVE  \A n \in Nat : \E f \in [0..n -> S] : Follows(f, n, b, g)
<1> DEFINE T == {n \in Nat : \E f \in [0..n -> S] : Follows(f, n, b, g)}
<1>1. 0 \in T
  <2>1. [k \in 0..0 |-> b] \in [0..0 -> S] /\ Follows([k \in 0..0 |-> b], 0, b, g)
    BY DEF Follows
  <2> QED
    BY <2>1
<1>2. ASSUME NEW n \in Nat, n \in T PROVE n + 1 \in T
  <2>1. PICK f \in [0..n -> S] : Follows(f, n, b, g)
    BY <1>2
  <2>2. PICK v \in S : v = g[n][f[n]]
    OBVIOUS
  <2> DEFINE h == [k \in 0 .. n+1 |-> IF k = n + 1 THEN v ELSE f[k]]
  <2>3. /\ h[n + 1] = v
        /\ \A k \in 0..n : h[k] = f[k]
    OBVIOUS
  <2>4. h \in [0 .. n+1 -> S]
    OBVIOUS
  <2> HIDE DEF h
  <2>5. h[0] = b
    BY <2>1, <2>3 DEF Follows
  <2>6. ASSUME NEW k \in 0 .. (n+1)-1 PROVE h[k + 1] = g[k][h[k]]
    <3>1. CASE k = n
      BY <3>1, <2>2, <2>3
    <3>2. CASE k # n
      <4>1. k \in 0 .. n-1
        BY <3>2
      <4> QED
        BY <4>1, <2>1, <2>3 DEF Follows
    <3> QED
      BY <3>1, <3>2
  <2>7. Follows(h, n + 1, b, g)
    BY <2>5, <2>6 DEF Follows
  <2> QED
    BY <2>4, <2>7
<1> HIDE DEF T
<1>3. \A n \in Nat : n \in T
  BY <1>1, <1>2, SetInduction
<1> QED
  BY <1>3 DEF T

\* f is the function with values in S that has b at 0 and goes on with g.
IsRecursion(f, S, b, g) ==
  f \in [Nat -> S] /\ f[0] = b /\ \A n \in Nat : f[n + 1] = g[n][f[n]]

\* Recursion: there is a function on the natural numbers with a given first value
\* and a given step.
LEMMA RecursionExists ==
  ASSUME NEW S, NEW b \in S, NEW g \in [Nat -> [S -> S]]
  PROVE  \E f : IsRecursion(f, S, b, g)
<1> DEFINE c(n) == CHOOSE f \in [0..n -> S] : Follows(f, n, b, g)
           h == [n \in Nat |-> c(n)[n]]
<1>1. ASSUME NEW n \in Nat PROVE c(n) \in [0..n -> S] /\ Follows(c(n), n, b, g)
  BY FollowsExists
<1> HIDE DEF c
<1>2. h \in [Nat -> S]
  BY <1>1
<1>3. h[0] = b
  BY <1>1 DEF Follows
<1>4. ASSUME NEW n \in Nat PROVE h[n + 1] = g[n][h[n]]
  <2>1. n + 1 \in Nat /\ n \in 0 .. (n + 1) - 1
    OBVIOUS
  <2>2. Follows(c(n), n, b, g) /\ Follows(c(n + 1), n + 1, b, g)
    BY <1>1, <2>1
  <2>3. c(n + 1)[n] = c(n)[n]
    BY <2>1, <2>2, FollowsUnique, SMTT(40)
  <2>4. c(n + 1)[n + 1] = g[n][c(n + 1)[n]]
    BY <2>1, <2>2 DEF Follows
  <2> QED
    BY <2>1, <2>3, <2>4
<1> HIDE DEF h
<1> QED
  BY <1>2, <1>3, <1>4 DEF IsRecursion

\* Induction along 0..n.
LEMMA FiniteInduction ==
  ASSUME NEW n \in Nat, NEW T, 0 \in T, \A k \in 1..n : k - 1 \in T => k \in T
  PROVE  \A k \in 0..n : k \in T
<1> DEFINE U == {k \in Nat : k <= n => k \in T}
<1>1. 0 \in U
  OBVIOUS
<1>2. ASSUME NEW k \in Nat, k \in U PROVE k + 1 \in U
  <2> SUFFICES ASSUME k + 1 <= n PROVE k + 1 \in T
    OBVIOUS
  <2>1. k + 1 \in 1..n /\ (k + 1) - 1 = k /\ k \in T
    BY <1>2
  <2> QED
    BY <2>1
<1> HIDE DEF U
<1>3. \A k \in Nat : k \in U
  BY <1>1, <1>2, SetInduction
<1> QED
  BY <1>3 DEF U

\* f is the function on 0..n that has b at 0 and goes on with g.
IsFiniteRecursion(f, S, n, b, g) ==
  f \in [0..n -> S] /\ f[0] = b /\ \A k \in 1..n : f[k] = g[k][f[k - 1]]

\* Recursion along 1..n: a function with a given first value and a given step for
\* each argument.  A recursive function of a finite sequence is one.
LEMMA FiniteRecursion ==
  ASSUME NEW S, NEW b \in S, NEW n \in Nat, NEW g \in [1..n -> [S -> S]]
  PROVE  \E f : IsFiniteRecursion(f, S, n, b, g)
<1> DEFINE G == [k \in Nat |-> IF k + 1 \in 1..n THEN g[k + 1] ELSE [v \in S |-> v]]
<1>1. G \in [Nat -> [S -> S]]
  OBVIOUS
<1>2. ASSUME NEW k \in 1..n PROVE k - 1 \in Nat /\ G[k - 1] = g[k]
  OBVIOUS
<1> HIDE DEF G
<1>3. PICK h : IsRecursion(h, S, b, G)
  BY <1>1, RecursionExists
<1> DEFINE f == [k \in 0..n |-> h[k]]
<1>4. f \in [0..n -> S] /\ f[0] = b
  BY <1>3 DEF IsRecursion
<1>5. ASSUME NEW k \in 1..n PROVE f[k] = g[k][f[k - 1]]
  <2>1. k - 1 \in Nat /\ (k - 1) + 1 = k /\ k \in 0..n /\ k - 1 \in 0..n
    OBVIOUS
  <2>2. h[k] = G[k - 1][h[k - 1]]
    BY <1>3, <2>1 DEF IsRecursion
  <2> QED
    BY <1>2, <2>1, <2>2
<1> HIDE DEF f
<1> QED
  BY <1>4, <1>5 DEF IsFiniteRecursion
=============================================================================
