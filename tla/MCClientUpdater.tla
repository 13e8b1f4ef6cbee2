--------------------------- MODULE MCClientUpdater ---------------------------
(* ClientUpdater on small instances. *)
EXTENDS ClientUpdater, TLC

CONSTANTS s1, s2

ServersAlike == Permutations(Servers)

\* Every server may accept or reject.
AnyAnswer == [s \in Servers |-> {"ACCEPT", "REJECT"}]

\* s1 accepts, as mtn-server always does; s2 is down.
OneSilent == [s \in Servers |-> IF s = s1 THEN {"ACCEPT"} ELSE {}]
=============================================================================
