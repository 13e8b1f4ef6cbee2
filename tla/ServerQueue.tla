----------------------------- MODULE ServerQueue -----------------------------
(***************************************************************************)
(* What mtn-client may rely on of subscribed_queue and not_subscribed_queue: *)
(* the set of the servers in a queue and the one at its front.              *)
(*                                                                         *)
(* connect_sooner takes the address of an array slot for the address of a  *)
(* server_data, so it compares bytes of neighbouring slots or past the     *)
(* array: any outcome.  A push then leaves the front or puts the new server *)
(* there, and a pop may leave any server at the front.  ArrayHeap shows    *)
(* that the heap of array_heap.c does no more than that.                   *)
(***************************************************************************)
CONSTANT NoServer   \* the null pointer

EmptyQueue == [members |-> {}, first |-> NoServer]

Push(q, s) ==
  { [members |-> q.members \cup {s}, first |-> f] :
      f \in IF q.members = {} THEN {s} ELSE {q.first, s} }

\* heap_first without heap_pop.
PopNothing(q) == {q}

Pop(q) ==
  LET rest == q.members \ {q.first}
  IN  { [members |-> rest, first |-> f] :
          f \in IF rest = {} THEN {NoServer} ELSE rest }
=============================================================================
