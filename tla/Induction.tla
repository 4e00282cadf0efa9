------------------------------ MODULE Induction ------------------------------
(***************************************************************************)
(* Induction over the natural numbers for the proofs about recursive       *)
(* functions, stated for sets: a set of numbers with 0 in it that has the  *)
(* successor of each of its members has them all.                          *)
(***************************************************************************)
EXTENDS Naturals, WellFoundedInduction, TLAPS

LEMMA Least ==
  ASSUME NEW T \in SUBSET Nat, T # {}
  PROVE  \E n \in T : \A m \in T : n <= m
<1>1. OpToRel(<, Nat) = {ss \in Nat \X Nat : ss[1] < ss[2]}
  BY Zenon DEF OpToRel
<1>2. PICK n \in T : \A m \in T : <<m, n>> \notin OpToRel(<, Nat)
  BY NatLessThanWellFounded, WFMin, Zenon
<1>3. \A m \in T : <<m, n>> \notin {ss \in Nat \X Nat : ss[1] < ss[2]}
  BY <1>1, <1>2, Zenon
<1>4. \A m \in T : ~(m < n)
  BY <1>3
<1> QED
  BY <1>4

\* What holds of 0 and is handed on from n to n + 1 holds of every number.
THEOREM Upwards ==
  ASSUME NEW T, 0 \in T, \A n \in Nat : n \in T => n + 1 \in T
  PROVE  Nat \subseteq T
<1> SUFFICES ASSUME Nat \ T # {} PROVE FALSE
  OBVIOUS
<1>1. PICK n \in Nat \ T : \A m \in Nat \ T : n <= m
  BY Least
<1>2. n \in Nat /\ n # 0 /\ n - 1 \in Nat
  BY <1>1
<1>3. n - 1 \in T
  BY <1>1, <1>2
<1> QED
  BY <1>2, <1>3, <1>1

\* The same up to a bound.
THEOREM UpTo ==
  ASSUME NEW N \in Nat, NEW T, 0 \in T,
         \A n \in 0 .. N : n \in T /\ n < N => n + 1 \in T
  PROVE  0 .. N \subseteq T
<1> DEFINE S == {n \in Nat : n <= N => n \in T}
<1>1. 0 \in S /\ \A n \in Nat : n \in S => n + 1 \in S
  OBVIOUS
<1>2. Nat \subseteq S
  BY <1>1, Upwards
<1> QED
  BY <1>2

\* The same from a bound down to 0.
THEOREM DownFrom ==
  ASSUME NEW N \in Nat, NEW T, N \in T,
         \A n \in 0 .. N : n \in T /\ n > 0 => n - 1 \in T
  PROVE  0 .. N \subseteq T
<1> DEFINE S == {n \in Nat : n <= N => N - n \in T}
<1>1. 0 \in S
  OBVIOUS
<1>2. ASSUME NEW n \in Nat, n \in S PROVE n + 1 \in S
  <2>1. CASE n + 1 <= N
    <3>1. N - n \in 0 .. N /\ N - n > 0 /\ N - n \in T
      BY <1>2, <2>1
    <3>2. (N - n) - 1 \in T /\ (N - n) - 1 = N - (n + 1)
      BY <3>1
    <3> QED
      BY <3>2
  <2> QED
    BY <2>1
<1>3. Nat \subseteq S
  BY <1>1, <1>2, Upwards
<1>4. ASSUME NEW m \in 0 .. N PROVE m \in T
  <2>1. N - m \in S /\ N - (N - m) = m /\ N - m <= N
    BY <1>3
  <2> QED
    BY <2>1
<1> QED
  BY <1>4
==============================================================================
