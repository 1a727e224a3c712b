-------------------------------- MODULE Induction --------------------------------
(* Induction for facts about recursive functions.  An induction theorem     *)
(* whose hypothesis is an operator cannot be cited with a formula in its    *)
(* place; here the hypothesis is a set, of the numbers the fact holds of.   *)
EXTENDS Integers, Sequences, WellFoundedInduction, TLAPS

(* A non-empty set of natural numbers has a least element.                  *)
LEMMA LeastElement ==
  ASSUME NEW S, S \subseteq Nat, S # {}
  PROVE  \E n \in S : \A m \in S : n <= m
<1>1. \A x, y \in Nat : <<y, x>> \in OpToRel(<, Nat) <=> y < x
  BY DEF OpToRel
<1>2. \E x \in S : \A y \in S : ~(<<y, x>> \in OpToRel(<, Nat))
  BY NatLessThanWellFounded, WFMin
<1>3. PICK x \in S : \A y \in S : ~(<<y, x>> \in OpToRel(<, Nat))
  BY <1>2
<1>4. \A y \in S : ~(y < x)
  BY <1>1, <1>3, Zenon
<1>5. QED BY <1>4

(* Induction over the numbers from 0 to n.                                  *)
LEMMA UpTo ==
  ASSUME NEW n \in Nat, NEW S, 0 \in S,
         \A i \in 0..(n - 1) : i \in S => i + 1 \in S
  PROVE  0..n \subseteq S
<1> DEFINE T == (0..n) \ S
<1>1. CASE T = {}
  BY <1>1
<1>2. CASE T # {}
  <2>0. T \subseteq Nat
    OBVIOUS
  <2> HIDE DEF T
  <2>1. PICK m \in T : \A k \in T : m <= k
    BY <1>2, <2>0, LeastElement
  <2> USE DEF T
  <2>2. m # 0 /\ m \in 0..n
    BY <2>1
  <2>3. m - 1 \in 0..(n - 1) /\ m - 1 \in S
    BY <2>1, <2>2
  <2>4. QED BY <2>1, <2>2, <2>3
<1>3. QED BY <1>1, <1>2

(* A function on 0..n can be defined step by step: its value at i from the  *)
(* one at i - 1.                                                            *)
StepByStep(n, D, b, step, f) ==
    f \in [0..n -> D] /\ f[0] = b /\ \A i \in 1..n : f[i] = step[i][f[i - 1]]

LEMMA DefinedStepByStep ==
  \A n, D, b, step : n \in Nat /\ b \in D /\ step \in [1..n -> [D -> D]]
                       => \E f : StepByStep(n, D, b, step, f)
<1> SUFFICES ASSUME NEW n \in Nat, NEW D, NEW b \in D, NEW step \in [1..n -> [D -> D]]
             PROVE  \E f : StepByStep(n, D, b, step, f)
  OBVIOUS
<1> DEFINE Good(m, f) == f[0] = b /\ \A i \in 1..m : f[i] = step[i][f[i - 1]]
           S == {m \in 0..n : \E f \in [0..m -> D] : Good(m, f)}
<1>1. 0 \in S
  <2>1. [i \in 0..0 |-> b] \in [0..0 -> D] /\ Good(0, [i \in 0..0 |-> b])
    OBVIOUS
  <2>2. 0 \in 0..n
    OBVIOUS
  <2> HIDE DEF Good
  <2>3. QED BY <2>1, <2>2
<1>2. ASSUME NEW m \in 0..(n - 1), m \in S
      PROVE  m + 1 \in S
  <2>1. PICK f \in [0..m -> D] : Good(m, f)
    BY <1>2
  <2> DEFINE g == [i \in 0..(m + 1) |-> IF i = m + 1 THEN step[i][f[m]] ELSE f[i]]
  <2>2. g \in [0..(m + 1) -> D]
    <3>1. step[m + 1] \in [D -> D] /\ f[m] \in D
      BY <2>1
    <3>2. QED BY <2>1, <3>1
  <2>3. ASSUME NEW i \in 1..(m + 1)
        PROVE  g[i] = step[i][g[i - 1]]
    <3>1. CASE i = m + 1
      BY <3>1
    <3>2. CASE i # m + 1
      <4>1. i \in 1..m /\ g[i] = f[i] /\ g[i - 1] = f[i - 1]
        BY <3>2
      <4>2. f[i] = step[i][f[i - 1]]
        BY <2>1, <4>1
      <4>3. QED BY <4>1, <4>2
    <3>3. QED BY <3>1, <3>2
  <2>4. Good(m + 1, g)
    BY <2>1, <2>3
  <2>5. m + 1 \in 0..n
    BY <1>2
  <2> HIDE DEF g, Good
  <2>6. QED BY <2>2, <2>4, <2>5
<1>3. n \in S
  <2> HIDE DEF S
  <2>1. 0..n \subseteq S
    BY <1>1, <1>2, UpTo
  <2>2. QED BY <2>1
<1>4. QED BY <1>3 DEF StepByStep
==================================================================================
