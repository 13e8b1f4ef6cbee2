------------------------------ MODULE ArrayHeap ------------------------------
(***************************************************************************)
(* The binary heap of array_heap.c, on the server_data pointers of one of  *)
(* mtn-client's queues.  The array is a sequence, so slot i of the C array *)
(* is heap[i + 1].  A step is one turn of a loop: of heap_build's together *)
(* with one call of heapify, of heapify's calls of itself, or of           *)
(* heap_push's.  In each turn is_greater is any of Comparisons:            *)
(* connect_sooner as it is meant, which orders servers by their fields,    *)
(* and what comes of it as it is called, on the addresses of slots.        *)
(***************************************************************************)
EXTENDS Naturals, Sequences, FiniteSets, ServerQueue

CONSTANTS
  Servers,
  not_connect_count,           \* of each server; both do not change while
  last_connect_attempt_time,   \* the server is in a queue
  Comparisons                  \* the outcomes is_greater may have

VARIABLES
  heap,    \* heap.array
  doing,   \* the operation under way
  at,      \* the slot heapify or heap_push's loop is at
  left,    \* the slot heap_build's loop is at; 1 in the other operations
  seen,    \* history: what the last operation that is over left to the caller
  meant    \* history: so far is_greater was connect_sooner as it is meant

vars == <<heap, doing, at, left, seen, meant>>

Elements == {heap[i] : i \in 1 .. Len(heap)}

connect_sooner ==
  [pair \in Servers \X Servers |->
     LET first == pair[1]  second == pair[2]
     IN  \/ not_connect_count[first] < not_connect_count[second]
         \/ /\ not_connect_count[first] = not_connect_count[second]
            /\ last_connect_attempt_time[first] <= last_connect_attempt_time[second]]

ASSUME HeapAssumption ==
  /\ IsFiniteSet(Servers)
  /\ NoServer \notin Servers
  /\ not_connect_count \in [Servers -> Nat]
  /\ last_connect_attempt_time \in [Servers -> Nat]
  /\ Comparisons \subseteq [Servers \X Servers -> BOOLEAN]

swap(h, i, j) == [h EXCEPT ![i] = h[j], ![j] = h[i]]

Distinct(h) == \A i, j \in 1 .. Len(h) : h[i] = h[j] => i = j

\* What heap_first and heap_is_empty tell of the heap, and what is in it.
Queue(h) ==
  IF h = <<>> THEN EmptyQueue
  ELSE [members |-> {h[i] : i \in 1 .. Len(h)}, first |-> h[1]]

Compare(is_greater) == meant' = (meant /\ is_greater = connect_sooner)

\* The operation returns.
Return ==
  /\ doing' = "nothing" /\ at' = 1 /\ left' = 1
  /\ seen' = Queue(heap)
  /\ UNCHANGED heap

-----------------------------------------------------------------------------
(* heapify, for heap_build and heap_pop.                                   *)

greater(k, largest, is_greater) ==
  IF k <= Len(heap) /\ is_greater[<<heap[k], heap[largest]>>] THEN k ELSE largest

\* Without the comparison with the right child.
LargestOfLeft(i, is_greater) == greater(2 * i, i, is_greater)

\* Slot i or that of its children which is the greatest.
Largest(i, is_greater) ==
  greater(2 * i + 1, greater(2 * i, i, is_greater), is_greater)

Sink ==
  /\ doing \in {"build", "pop"}
  /\ \E is_greater \in Comparisons :
       LET largest == Largest(at, is_greater)
       IN  /\ largest # at
           /\ heap' = swap(heap, at, largest)
           /\ at' = largest
           /\ Compare(is_greater)
  /\ UNCHANGED <<doing, left, seen>>

\* Nothing greater is below: heap_build goes on to the slot before.
Settle ==
  /\ doing \in {"build", "pop"}
  /\ \E is_greater \in Comparisons :
       Largest(at, is_greater) = at /\ Compare(is_greater)
  /\ IF left > 1
       THEN /\ left' = left - 1 /\ at' = left - 1
            /\ UNCHANGED <<heap, doing, seen>>
       ELSE Return

-----------------------------------------------------------------------------
(* heap_push: append, and up to the first parent that is greater.  A server *)
(* that is pushed is in no queue (OnePlace of ClientUpdater).               *)

HeapPush(elem) ==
  /\ doing = "nothing"
  /\ elem \notin Elements
  /\ heap' = Append(heap, elem)
  /\ doing' = "push" /\ at' = Len(heap) + 1
  /\ UNCHANGED <<left, seen, meant>>

Rise ==
  /\ doing = "push" /\ at > 1
  /\ \E is_greater \in Comparisons :
       /\ ~ is_greater[<<heap[at \div 2], heap[at]>>]
       /\ Compare(is_greater)
  /\ heap' = swap(heap, at, at \div 2)
  /\ at' = at \div 2
  /\ UNCHANGED <<doing, left, seen>>

RiseEnd ==
  /\ doing = "push"
  /\ \/ at = 1 /\ UNCHANGED meant
     \/ /\ at > 1
        /\ \E is_greater \in Comparisons :
             is_greater[<<heap[at \div 2], heap[at]>>] /\ Compare(is_greater)
  /\ Return

-----------------------------------------------------------------------------
(* heap_pop: the last element takes the first one's place, and sinks.  When *)
(* nothing is left, Settle ends it.                                        *)

\* The last element is removed, not the first.
PoppedLast(h) == SubSeq(h, 1, Len(h) - 1)

\* Without utarray_pop_back.
PoppedTwice(h) == [h EXCEPT ![1] = h[Len(h)]]

Popped(h) == SubSeq([h EXCEPT ![1] = h[Len(h)]], 1, Len(h) - 1)

HeapPop ==
  /\ doing = "nothing"
  /\ heap # <<>>
  /\ heap' = Popped(heap)
  /\ doing' = "pop" /\ at' = 1 /\ left' = 1
  /\ UNCHANGED <<seen, meant>>

-----------------------------------------------------------------------------
(* update_control appends the servers of the list to not_subscribed_queue  *)
(* and calls heap_build.                                                   *)

Lists == UNION {[1 .. n -> Servers] : n \in 0 .. Cardinality(Servers)}

LastParent(h) == IF Len(h) < 2 THEN 1 ELSE Len(h) \div 2

Init ==
  /\ heap \in Lists /\ Distinct(heap)
  /\ doing = IF heap = <<>> THEN "nothing" ELSE "build"
  /\ left = LastParent(heap) /\ at = left
  /\ seen = [members |-> Elements, first |-> NoServer]
  /\ meant = TRUE

Next ==
  \/ Sink \/ Settle
  \/ Rise \/ RiseEnd
  \/ HeapPop
  \/ \E elem \in Servers : HeapPush(elem)

Spec == Init /\ [][Next]_vars

-----------------------------------------------------------------------------
(* Properties.                                                             *)

\* Type invariant; no server is in the array twice.
TypeOK ==
  /\ heap \in Seq(Servers) /\ Distinct(heap)
  /\ doing \in {"nothing", "build", "push", "pop"}
  /\ at \in Nat \ {0} /\ left \in Nat \ {0}
  /\ seen \in [members : SUBSET Servers, first : Servers \cup {NoServer}]
  /\ meant \in BOOLEAN

\* With the comparison that is meant, heap_first is a server no other of the
\* queue is to be asked before, whatever was built, pushed and popped.
FirstIsSoonest ==
  doing = "nothing" /\ meant =>
    \A i \in 1 .. Len(heap) : connect_sooner[<<heap[1], heap[i]>>]

\* With any comparison, even one that answers otherwise in the next turn, each
\* operation does what the client's model takes of a queue: heap_build keeps
\* all servers, heap_pop takes the one heap_first showed, heap_push adds one and
\* leaves the front or puts that one there.
ImplementsQueue ==
  [][ \/ doing' # "nothing" /\ UNCHANGED seen
      \/ /\ doing = "build"
         /\ seen'.members = seen.members /\ seen'.first \in seen.members
      \/ doing = "pop" /\ seen' \in Pop(seen)
      \/ doing = "push" /\ \E s \in Servers \ seen.members : seen' \in Push(seen, s) ]_vars
=============================================================================
