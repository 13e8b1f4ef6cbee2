----------------------------- MODULE RequestPool -----------------------------
(***************************************************************************)
(* What the client's updater promises of its requests, without queues,     *)
(* clocks, answers or locks: a server is idle or has one request running,  *)
(* at most MAX_ACTIVE_REQUESTS run, a finished request's place is used     *)
(* again.  The one way out is a thread that could not be created: it takes *)
(* its server and its place with it.                                       *)
(***************************************************************************)
EXTENDS Integers, FiniteSets

CONSTANTS Servers, MAX_ACTIVE_REQUESTS

VARIABLES
  idle,      \* servers that wait for their next request
  running,   \* servers with a request
  free       \* places for further requests

vars == <<idle, running, free>>

Gone == Servers \ (idle \cup running)

Init ==
  /\ idle = Servers
  /\ running = {}
  /\ free = MAX_ACTIVE_REQUESTS

Start(s) ==
  /\ s \in idle
  /\ free > 0
  /\ idle' = idle \ {s}
  /\ running' = running \cup {s}
  /\ free' = free - 1

Lose(s) ==
  /\ s \in idle
  /\ free > 0
  /\ idle' = idle \ {s}
  /\ free' = free - 1
  /\ UNCHANGED running

Finish(s) ==
  /\ s \in running
  /\ running' = running \ {s}
  /\ idle' = idle \cup {s}
  /\ UNCHANGED free

\* The place of a finished request comes back after the request has ended.
Release ==
  /\ free + Cardinality(running) + Cardinality(Gone) < MAX_ACTIVE_REQUESTS
  /\ free' = free + 1
  /\ UNCHANGED <<idle, running>>

Next ==
  \/ \E s \in Servers : Start(s) \/ Lose(s) \/ Finish(s)
  \/ Release

Spec == Init /\ [][Next]_vars

\* Every request ends and every place comes back.
FairSpec ==
  /\ Spec
  /\ \A s \in Servers : WF_vars(Finish(s))
  /\ WF_vars(Release)
=============================================================================
