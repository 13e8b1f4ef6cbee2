---------------------------- MODULE MCArrayHeap ----------------------------
(* Five servers, two of them tied; is_greater is connect_sooner, or differs *)
(* from it in any way on three of the servers.                              *)
EXTENDS ArrayHeap

CONSTANTS s1, s2, s3, s4, s5

Counts == [s \in {s1, s2, s3, s4, s5} |-> IF s \in {s1, s2} THEN 0 ELSE 1]

Attempts == [s \in {s1, s2, s3, s4, s5} |-> IF s = s5 THEN 9 ELSE IF s = s1 THEN 7 ELSE 8]

Pairs == {p \in {s2, s3, s5} \X {s2, s3, s5} : p[1] # p[2]}

Outcomes ==
  {[p \in Servers \X Servers |-> IF p \in Pairs THEN f[p] ELSE connect_sooner[p]] :
     f \in [Pairs -> BOOLEAN]}
=============================================================================
