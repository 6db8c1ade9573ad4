------------------------------ MODULE Induction ------------------------------
(***************************************************************************)
(* What proofs about recursive functions rest on: a set of naturals that   *)
(* is not empty has a least element, and a function that is defined by     *)
(* recursion on a bounded natural exists and has its type.  (A proof by    *)
(* induction looks at the least counterexample.)                           *)
(***************************************************************************)
EXTENDS Integers
LOCAL INSTANCE WellFoundedInduction
LOCAL INSTANCE TLAPS

\* A least counterexample exists whenever there is any.
LEMMA NatLeast ==
  ASSUME NEW T \in SUBSET Nat, T # {}
  PROVE  \E n \in T : \A m \in T : n <= m
<1> DEFINE R == OpToRel(<, Nat)
<1>1. IsWellFoundedOn(R, Nat)
  BY NatLessThanWellFounded
<1>2. \A x, y \in Nat : <<y, x>> \in R <=> y < x
  BY DEF OpToRel
<1> HIDE DEF R
<1>3. PICK x \in T : \A y \in T : ~(<<y, x>> \in R)
  <2>1. \E x \in T : \A y \in T : ~(<<y, x>> \in R)
    BY <1>1, WFMin
  <2> QED
    BY <2>1
<1>4. ASSUME NEW y \in T PROVE x <= y
  <2>1. x \in Nat /\ y \in Nat
    OBVIOUS
  <2>2. ~(y < x)
    BY <1>2, <1>3, <2>1
  <2> QED
    BY <2>1, <2>2
<1> QED
  BY <1>4

\* The function that starts with a and of which step makes each value from the
\* one before it.
Iterates(g, a, step, last) ==
    g = [i \in 0 .. last |-> IF i = 0 THEN a ELSE step[i][g[i - 1]]]

LEMMA IterationExists ==
  ASSUME NEW last \in Nat, NEW S, NEW a \in S, NEW step \in [1 .. last -> [S -> S]]
  PROVE  \E g \in [0 .. last -> S] : Iterates(g, a, step, last)
<1> DEFINE Exists(n) == \E g \in [0 .. n -> S] : Iterates(g, a, step, n)
           Fails == {n \in 0 .. last : ~Exists(n)}
<1>1. SUFFICES ASSUME Fails # {} PROVE FALSE
  <2>1. Fails = {} => Exists(last)
    <3> HIDE DEF Exists
    <3> QED
      OBVIOUS
  <2> QED
    BY <2>1
<1>2. PICK n \in Fails : \A m \in Fails : n <= m
  <2>1. Fails \in SUBSET Nat
    OBVIOUS
  <2> HIDE DEF Fails
  <2> QED
    BY <1>1, <2>1, NatLeast
<1>3. n \in 0 .. last /\ ~Exists(n)
  OBVIOUS
<1>4. CASE n = 0
  <2> DEFINE g == [i \in 0 .. 0 |-> a]
  <2>1. g \in [0 .. 0 -> S] /\ Iterates(g, a, step, 0)
    BY DEF Iterates
  <2> QED
    BY <2>1, <1>3, <1>4
<1>5. CASE n # 0
  <2>1. n - 1 \in 0 .. last /\ n \in 1 .. last /\ n - 1 \notin Fails
    <3>1. n - 1 \in 0 .. last /\ n \in 1 .. last
      BY <1>3, <1>5
    <3> HIDE DEF Fails
    <3> QED
      BY <3>1, <1>2
  <2>2. PICK h \in [0 .. n - 1 -> S] : Iterates(h, a, step, n - 1)
    <3>1. Exists(n - 1)
      <4> HIDE DEF Exists
      <4> QED
        BY <2>1
    <3> QED
      BY <3>1
  <2> DEFINE g == [i \in 0 .. n |-> IF i = n THEN step[n][h[n - 1]] ELSE h[i]]
  <2>3. h[n - 1] \in S /\ step[n] \in [S -> S]
    BY <2>1, <1>3
  <2>4. g \in [0 .. n -> S]
    BY <2>3, <1>3
  <2>5. ASSUME NEW i \in 0 .. n PROVE g[i] = IF i = 0 THEN a ELSE step[i][g[i - 1]]
    <3>1. CASE i = n
      BY <3>1, <1>3, <1>5
    <3>2. CASE i # n
      <4>1. i \in 0 .. n - 1 /\ (i # 0 => i - 1 \in 0 .. n /\ i - 1 # n)
        BY <3>2, <1>3
      <4>2. h[i] = IF i = 0 THEN a ELSE step[i][h[i - 1]]
        BY <4>1, <2>2 DEF Iterates
      <4> QED
        BY <4>1, <4>2, <3>2
    <3> QED
      BY <3>1, <3>2
  <2>6. Iterates(g, a, step, n)
    BY <2>4, <2>5 DEF Iterates
  <2> QED
    BY <2>4, <2>6, <1>3
<1> QED
  BY <1>4, <1>5

=============================================================================
