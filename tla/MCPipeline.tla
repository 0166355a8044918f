----------------------------- MODULE MCPipeline -----------------------------
(* The whole program with few types and short queues. *)
EXTENDS Pipeline, TLC

(* The types are interchangeable; only safety runs use this. *)
Symmetry == Permutations(Types)

=============================================================================
