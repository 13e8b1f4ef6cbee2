------------------------- MODULE MCServerTransmitter -------------------------
(* ServerTransmitter on small instances. *)
EXTENDS ServerTransmitter, TLC

CONSTANTS c1, c2, m1, m2

Alike == Permutations(Clients) \cup Permutations(Messages)
=============================================================================
