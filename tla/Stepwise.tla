------------------------------ MODULE Stepwise ------------------------------
(***************************************************************************)
(* What is defined one step after another, and least elements: the two     *)
(* forms of induction the proofs of the modules about sequences take.      *)
(***************************************************************************)
EXTENDS Integers, WellFoundedInduction, TLAPS

\* A set of numbers that is not empty has a least one.
LEMMA LeastOf ==
    ASSUME NEW S, S \subseteq Nat, S # {}
    PROVE  \E x \in S : \A y \in S : x <= y
  <1>1. PICK x \in S : \A y \in S : ~(<<y, x>> \in OpToRel(<, Nat))
    BY NatLessThanWellFounded, WFMin
  <1>2. \A y \in S : ~(y < x)
    BY <1>1 DEF OpToRel
  <1> QED  BY <1>2

\* f goes from base by the steps of g.
GoesBy(f, n, S, base, g) ==
    f \in [0 .. n -> S] /\ f[0] = base /\ \A i \in 1 .. n : f[i] = g[<<i, f[i-1]>>]

\* What is defined step by step from a first value is defined.
LEMMA Stepwise ==
    ASSUME NEW S, NEW n \in Nat, NEW base \in S, NEW g \in [(1 .. n) \X S -> S]
    PROVE  \E f : GoesBy(f, n, S, base, g)
  <1> DEFINE Steps(k, f) == f[0] = base /\ \A i \in 1 .. k : f[i] = g[<<i, f[i-1]>>]
             Bad == {k \in 0 .. n : ~\E f \in [0 .. k -> S] : Steps(k, f)}
  <1>1. SUFFICES ASSUME Bad # {} PROVE FALSE
    <2>1. n \notin Bad
      BY <1>1
    <2>2. \E f \in [0 .. n -> S] : Steps(n, f)
      BY <2>1
    <2> QED BY <2>2 DEF GoesBy
  <1>2. PICK k \in Bad : \A j \in Bad : k <= j
    <2>1. Bad \subseteq Nat
      OBVIOUS
    <2> HIDE DEF Bad
    <2> QED  BY <1>1, <2>1, LeastOf
  <1>3. k # 0
    <2>1. SUFFICES ASSUME k = 0 PROVE FALSE
      OBVIOUS
    <2> DEFINE first == [i \in 0 .. 0 |-> base]
    <2>2. first \in [0 .. 0 -> S] /\ first[0] = base
      OBVIOUS
    <2>3. Steps(0, first)
      BY <2>2
    <2> QED BY <1>2, <2>1, <2>2, <2>3
  <1>4. k \in 1 .. n /\ k - 1 \in 0 .. n
    BY <1>2, <1>3
  <1>5. PICK f \in [0 .. k-1 -> S] : Steps(k - 1, f)
    <2>1. k - 1 \notin Bad
      <3> HIDE DEF Bad
      <3> QED  BY <1>2, <1>4
    <2> HIDE DEF Steps
    <2> QED  BY <1>4, <2>1
  <1> DEFINE h == [i \in 0 .. k |-> IF i = k THEN g[<<k, f[k-1]>>] ELSE f[i]]
  <1>6. h \in [0 .. k -> S]
    BY <1>5, <1>4
  <1>7. Steps(k, h)
    <2>1. h[0] = base
      BY <1>5, <1>4
    <2>2. ASSUME NEW i \in 1 .. k PROVE h[i] = g[<<i, h[i-1]>>]
      <3>1. i \in 0 .. k /\ i - 1 \in 0 .. k /\ i - 1 # k
        BY <1>4
      <3>2. h[i-1] = f[i-1]
        BY <3>1
      <3>3. CASE i = k
        BY <3>2, <3>3, <3>1
      <3>4. CASE i # k
        <4>1. h[i] = f[i] /\ i \in 1 .. k - 1
          BY <3>1, <3>4, <1>4
        <4> QED BY <4>1, <3>2, <1>5
      <3> QED  BY <3>3, <3>4
    <2> QED  BY <2>1, <2>2
  <1> QED  BY <1>6, <1>7, <1>2

\* f and h begin alike, and go on alike.
GoAlike(f, h, n) == f[0] = h[0] /\ \A i \in 1 .. n : f[i-1] = h[i-1] => f[i] = h[i]
Alike(f, h, n) == \A i \in 0 .. n : f[i] = h[i]

\* Then they are alike.
LEMMA StepsAgree ==
    ASSUME NEW n \in Nat, NEW f, NEW h, GoAlike(f, h, n)
    PROVE  Alike(f, h, n)
  <1> DEFINE Bad == {i \in 0 .. n : f[i] # h[i]}
  <1>1. SUFFICES ASSUME Bad # {} PROVE FALSE
    BY DEF Alike
  <1>2. Bad \subseteq Nat
    OBVIOUS
  <1>3. PICK i \in Bad : \A j \in Bad : i <= j
    <2> HIDE DEF Bad
    <2> QED  BY <1>1, <1>2, LeastOf
  <1>4. i # 0 /\ i \in 1 .. n /\ i - 1 \in 0 .. n
    BY <1>3 DEF GoAlike
  <1>5. i - 1 \notin Bad
    <2> HIDE DEF Bad
    <2> QED  BY <1>2, <1>3, <1>4
  <1> QED  BY <1>3, <1>4, <1>5 DEF GoAlike
=============================================================================
