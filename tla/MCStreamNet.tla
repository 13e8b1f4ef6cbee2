----------------------------- MODULE MCStreamNet -----------------------------
(* StreamNet on a small instance. *)
EXTENDS StreamNet

CONSTANT m1
=============================================================================
