------------------------------ MODULE MCSmLog ------------------------------
(* The log with two printing threads, for TLC. *)
EXTENDS SmLog

=============================================================================
