---------------------------- MODULE MCConsumerFin ----------------------------
(* The final consumer with a few intermediate consumers, for TLC. *)
EXTENDS ConsumerFin, TLC

CONSTANTS m1, m2, m3

TwoMids == {m1, m2}

ThreeMids == {m1, m2, m3}

(* The intermediate consumers differ in nothing. *)
Symmetry == Permutations(Mids)

=============================================================================
