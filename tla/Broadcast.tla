------------------------------ MODULE Broadcast ------------------------------
(***************************************************************************)
(* What mtn-server promises of its data messages, without threads,         *)
(* semaphores and locks: messages go out one at a time in the order they   *)
(* came; the audience of a message is fixed when its round opens; a round  *)
(* closes when everyone of the audience was sent the message or was        *)
(* excused before it came to them; and nobody else is sent anything.       *)
(* Once a round was disturbed nothing is promised any more.                *)
(***************************************************************************)
EXTENDS Integers, Sequences

CONSTANTS Clients, Messages

VARIABLES
  waiting,     \* messages not out yet, in order
  out,         \* messages whose round is closed
  open,        \* whether the first message of waiting has its round
  expected,    \* the audience of that round
  got,         \* the messages that were sent, with the client each went to
  disturbed

vars == <<waiting, out, open, expected, got, disturbed>>

Init ==
  /\ waiting = <<>>
  /\ out = {}
  /\ open = FALSE
  /\ expected = {}
  /\ got = {}
  /\ disturbed = FALSE

Submit(m) ==
  /\ ~ open
  /\ \A i \in 1 .. Len(waiting) : waiting[i] # m
  /\ m \notin out
  /\ waiting' = Append(waiting, m)
  /\ UNCHANGED <<out, open, expected, got, disturbed>>

Open(audience) ==
  /\ ~ open
  /\ waiting # <<>>
  /\ open' = TRUE
  /\ expected' = audience
  /\ UNCHANGED <<waiting, out, got, disturbed>>

Excuse(c) ==
  /\ open
  /\ c \in expected
  /\ <<Head(waiting), c>> \notin got
  /\ expected' = expected \ {c}
  /\ UNCHANGED <<waiting, out, open, got, disturbed>>

Deliver(c) ==
  /\ open
  /\ c \in expected
  /\ <<Head(waiting), c>> \notin got
  /\ got' = got \cup {<<Head(waiting), c>>}
  /\ UNCHANGED <<waiting, out, open, expected, disturbed>>

Close ==
  /\ open
  /\ \A c \in expected : <<Head(waiting), c>> \in got
  /\ open' = FALSE
  /\ out' = out \cup {Head(waiting)}
  /\ waiting' = Tail(waiting)
  /\ UNCHANGED <<expected, got, disturbed>>

Next ==
  \/ disturbed'
  \/ \E m \in Messages : Submit(m)
  \/ \E audience \in SUBSET Clients : Open(audience)
  \/ \E c \in Clients : Excuse(c) \/ Deliver(c)
  \/ Close

Spec == Init /\ [][Next]_vars
=============================================================================
