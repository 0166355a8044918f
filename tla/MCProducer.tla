----------------------------- MODULE MCProducer -----------------------------
(* One producer object for TLC: objects share nothing, so one shows all. *)
EXTENDS Producer


=============================================================================
