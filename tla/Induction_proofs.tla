--------------------------- MODULE Induction_proofs ---------------------------
(***************************************************************************)
(* Induction and recursion over the numbers up to a bound, stated with     *)
(* sets and functions, and what follows for sequences that are built       *)
(* element by element, the way the loops of the program build them.        *)
(***************************************************************************)
EXTENDS Integers, Sequences, WellFoundedInduction, TLAPS

\* A set of naturals that is not empty has a least member.
LEMMA LeastMember ==
  ASSUME NEW P, P \subseteq Nat, P # {}
  PROVE  \E i \in P : \A j \in P : i <= j
<1>1. \E x \in P : \A y \in P : ~(<<y, x>> \in OpToRel(<, Nat))
  BY NatLessThanWellFounded, WFMin
<1>2. \A x, y \in Nat : y < x => <<y, x>> \in OpToRel(<, Nat)
  BY DEF OpToRel
<1>3. \E x \in P : \A y \in P : ~(y < x)
  BY <1>1, <1>2
<1> QED
  BY <1>3

\* A set with 0 and, up to the bound, the successor of each member has all
\* numbers up to the bound.
LEMMA InductionUpTo ==
  ASSUME NEW N \in Nat, NEW S, 0 \in S, \A n \in 1..N : n - 1 \in S => n \in S
  PROVE  \A n \in 0..N : n \in S
<1> DEFINE Missing == {n \in 0..N : n \notin S}
<1> SUFFICES ASSUME Missing # {} PROVE FALSE
  OBVIOUS
<1>0. Missing \subseteq Nat
  OBVIOUS
<1>1. PICK n \in Missing : \A m \in Missing : n <= m
  <2> HIDE DEF Missing
  <2> QED BY <1>0, LeastMember
<1>2. n \in 1..N /\ n - 1 \in 0..N /\ n - 1 < n
  BY <1>1
<1> QED
  BY <1>1, <1>2

\* A step function has an iteration from every base, up to every bound.
LEMMA RecursionUpTo ==
  ASSUME NEW V, NEW base \in V, NEW N \in Nat, NEW step \in [1..N -> [V -> V]]
  PROVE  \E f \in [0..N -> V] : f[0] = base /\ \A n \in 1..N : f[n] = step[n][f[n - 1]]
<1> DEFINE Iterates(f, m) == f[0] = base /\ \A n \in 1..m : f[n] = step[n][f[n - 1]]
           Reached        == {m \in 0..N : \E f \in [0..m -> V] : Iterates(f, m)}
<1>1. 0 \in Reached
  <2> DEFINE g == [n \in 0..0 |-> base]
  <2>1. g \in [0..0 -> V] /\ Iterates(g, 0)
    OBVIOUS
  <2> HIDE DEF g, Iterates
  <2> QED BY <2>1
<1>2. ASSUME NEW m \in 1..N, m - 1 \in Reached
      PROVE  m \in Reached
  <2>1. PICK f \in [0..m - 1 -> V] : Iterates(f, m - 1)
    BY <1>2
  <2> DEFINE g == [n \in 0..m |-> IF n = m THEN step[m][f[m - 1]] ELSE f[n]]
  <2>2. f[m - 1] \in V /\ step[m][f[m - 1]] \in V
    OBVIOUS
  <2>3. g \in [0..m -> V]
    BY <2>2
  <2>4. Iterates(g, m)
    <3>1. g[0] = base
      BY <2>1
    <3>2. ASSUME NEW n \in 1..m PROVE g[n] = step[n][g[n - 1]]
      <4>1. CASE n = m
        BY <4>1
      <4>2. CASE n # m
        BY <2>1, <4>2
      <4> QED BY <4>1, <4>2
    <3> HIDE DEF g
    <3> QED BY <3>1, <3>2
  <2> HIDE DEF g, Iterates
  <2> QED BY <2>3, <2>4
<1> HIDE DEF Reached
<1>3. \A n \in 0..N : n \in Reached
  BY <1>1, <1>2, InductionUpTo
<1> QED
  BY <1>3 DEF Reached

=============================================================================
