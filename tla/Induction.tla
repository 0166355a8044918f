----------------------------- MODULE Induction -----------------------------
(***************************************************************************)
(* Induction in the form the provers can use: over sets, which are values, *)
(* rather than over predicates, which are operators.  It follows from the  *)
(* well-foundedness of the natural numbers.                                *)
(***************************************************************************)
EXTENDS Integers, Sequences, WellFoundedInduction, TLAPS

(* A set of natural numbers that is not empty has a least member. *)
LEMMA LeastMember ==
    ASSUME NEW T \in SUBSET Nat, T # {}
    PROVE  \E n \in T : \A k \in T : n <= k
<1>1. \E n \in T : \A k \in T : ~(<<k, n>> \in OpToRel(<, Nat))
  BY NatLessThanWellFounded, WFMin
<1>2. \E n \in T : \A k \in T : ~(k < n)
  BY <1>1 DEF OpToRel
<1> QED
  BY <1>2

(* A set with 0 and the successor of each of its members holds every       *)
(* natural number.                                                         *)
LEMMA NatSetInduction ==
    ASSUME NEW S, 0 \in S, \A n \in Nat : n \in S => n + 1 \in S
    PROVE  \A n \in Nat : n \in S
<1> SUFFICES ASSUME NEW x \in Nat, x \notin S PROVE FALSE
  OBVIOUS
<1>1. PICK n \in Nat \ S : \A k \in Nat \ S : n <= k
  BY LeastMember
<1>2. n # 0 /\ n - 1 \in Nat /\ n - 1 \in S
  BY <1>1
<1> QED
  BY <1>1, <1>2

(* And up to a limit. *)
LEMMA UpToInduction ==
    ASSUME NEW N \in Nat, NEW S, 0 \in S, \A n \in 0..(N - 1) : n \in S => n + 1 \in S
    PROVE  \A n \in 0..N : n \in S
<1> DEFINE T == {n \in Nat : n <= N => n \in S}
<1>1. 0 \in T
  OBVIOUS
<1>2. \A n \in Nat : n \in T => n + 1 \in T
  OBVIOUS
<1> HIDE DEF T
<1>3. \A n \in Nat : n \in T
  BY <1>1, <1>2, NatSetInduction
<1> QED
  BY <1>3 DEF T

(* A set of sequences with the empty one and every extension of each of    *)
(* its members at the end holds every sequence.                            *)
LEMMA SeqSetInduction ==
    ASSUME NEW A, NEW S, <<>> \in S, \A s \in Seq(A), x \in A : s \in S => Append(s, x) \in S
    PROVE  \A s \in Seq(A) : s \in S
<1> DEFINE T == {n \in Nat : \A s \in Seq(A) : Len(s) = n => s \in S}
<1>1. 0 \in T
  OBVIOUS
<1>2. ASSUME NEW n \in Nat, n \in T PROVE n + 1 \in T
  <2> SUFFICES ASSUME NEW s \in Seq(A), Len(s) = n + 1 PROVE s \in S
    BY <1>2
  <2> DEFINE r == SubSeq(s, 1, n)
  <2>1. r \in Seq(A) /\ Len(r) = n /\ s[n + 1] \in A /\ s = Append(r, s[n + 1])
    OBVIOUS
  <2> HIDE DEF r
  <2>2. r \in S
    BY <1>2, <2>1
  <2> QED
    BY <2>1, <2>2
<1> HIDE DEF T
<1>3. \A n \in Nat : n \in T
  BY <1>1, <1>2, NatSetInduction
<1> QED
  BY <1>3 DEF T

(* A step that leads from a value and a number to a value, and what it     *)
(* leads to when it is repeated.                                           *)
IsStep(step, V, N) == step \in [V \X (1..N) -> V]
IsIteration(f, base, step, V, N) ==
    f \in [0..N -> V] /\ f[0] = base /\ \A i \in 1..N : f[i] = step[<<f[i - 1], i>>]

(* A step can be repeated: a recursive function on 0..N is the function    *)
(* its definition describes.                                               *)
LEMMA Iteration ==
    ASSUME NEW V, NEW base, NEW N, NEW step, base \in V, N \in Nat, IsStep(step, V, N)
    PROVE  \E f : IsIteration(f, base, step, V, N)
<1> USE DEF IsStep
<1> DEFINE Good(f, n) == /\ f[0] = base
                         /\ \A i \in 1..n : f[i] = step[<<f[i - 1], i>>]
           S == {n \in Nat : \E f \in [0..n -> V] : Good(f, n)}
<1>0. \A n \in Nat : n \in S <=> \E f \in [0..n -> V] : Good(f, n)
  OBVIOUS
<1> HIDE DEF S
<1>1. 0 \in S
  <2> DEFINE f == [i \in 0..0 |-> base]
  <2>1. f \in [0..0 -> V] /\ Good(f, 0)
    OBVIOUS
  <2> HIDE DEF f
  <2> QED
    BY <1>0, <2>1
<1>2. ASSUME NEW n \in 0..(N - 1), n \in S PROVE n + 1 \in S
  <2>1. PICK f \in [0..n -> V] : Good(f, n)
    BY <1>0, <1>2
  <2> DEFINE next == step[<<f[n], n + 1>>]
             g == [i \in 0..(n + 1) |-> IF i = n + 1 THEN next ELSE f[i]]
  <2>2. next \in V
    <3>1. f[n] \in V /\ n + 1 \in 1..N
      BY <2>1
    <3> QED
      BY <3>1
  <2> HIDE DEF next
  <2>3. g \in [0..(n + 1) -> V]
    BY <2>1, <2>2
  <2>4. g[0] = base /\ g[n + 1] = next /\ \A i \in 0..n : g[i] = f[i]
    BY <2>1
  <2> HIDE DEF g
  <2>5. ASSUME NEW i \in 1..(n + 1) PROVE g[i] = step[<<g[i - 1], i>>]
    <3>1. CASE i = n + 1
      <4>1. i - 1 = n /\ g[n] = f[n]
        BY <2>4, <3>1
      <4> QED
        BY <2>4, <3>1, <4>1 DEF next
    <3>2. CASE i # n + 1
      <4>1. i \in 1..n /\ i - 1 \in 0..n /\ i \in 0..n
        BY <3>2
      <4>2. g[i] = f[i] /\ g[i - 1] = f[i - 1]
        BY <2>4, <4>1
      <4> QED
        BY <2>1, <4>1, <4>2
    <3> QED
      BY <3>1, <3>2
  <2>6. Good(g, n + 1) /\ n + 1 \in Nat
    BY <2>4, <2>5
  <2> QED
    BY <1>0, <2>3, <2>6
<1>3. N \in S
  BY <1>1, <1>2, UpToInduction
<1>4. PICK f \in [0..N -> V] : Good(f, N)
  BY <1>0, <1>3
<1> QED
  BY <1>4 DEF IsIteration
=============================================================================
