-------------------------- MODULE MCMessageLoader --------------------------
(* Two files under two names, and the bounds of the cfgs.                  *)
EXTENDS MessageLoader, TLC

CONSTANTS n1, n2, t1, t2

Budget(drops, signals, restarts, changes) ==
  [drops |-> drops, signals |-> signals, restarts |-> restarts, changes |-> changes]

RestartOrClock == {Budget(2, 2, 1, 0), Budget(2, 1, 1, 2)}

FilesOrSignals == {Budget(2, 1, 1, 0), Budget(1, 2, 1, 0)}

OneSignal == {Budget(2, 1, 0, 0)}

Symmetry == Permutations(Names) \cup Permutations(Texts)
=============================================================================
