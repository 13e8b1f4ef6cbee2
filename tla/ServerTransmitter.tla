-------------------------- MODULE ServerTransmitter --------------------------
(***************************************************************************)
(* The sending half of mtn-server: transmission_thread takes the data      *)
(* messages of to_send_queue one by one, starts a sender thread for every  *)
(* subscribed client and waits for all of them before it retires the       *)
(* message; request_control_thread subscribes and refreshes clients        *)
(* meanwhile, in the same client map and without its mutex.                *)
(*                                                                         *)
(*   transmission_thread          mtn-server-transmitter.c                 *)
(*   send_data_message_to_client  mtn-server-transmitter.c                 *)
(*   receive_subscription         mtn-server-receiver.c                    *)
(*   Load                         what mtn-server-data-message.c does to   *)
(*                                the queue                                *)
(*                                                                         *)
(* A uthash macro is one step.  to_send_queue_mutex is held by the         *)
(* transmitter wherever its pc is not in QueueFree, server_client_map_mutex *)
(* is taken by nobody else.  A client's last_update_time is kept as an age. *)
(***************************************************************************)
EXTENDS Integers, Sequences, FiniteSets

CONSTANTS
  Clients,              \* addresses that may subscribe
  Messages,             \* data messages that will ever be loaded
  NoClient,             \* the null pointer
  NoMessage,
  MAX_ACTIVE_SENDINGS,  \* initial value of max_sendings_semaphore
  SUBSCR_EXPIRE_TIME    \* seconds a subscription lasts

ASSUME ServerAssumption ==
  /\ IsFiniteSet(Clients) /\ IsFiniteSet(Messages)
  /\ NoClient \notin Clients
  /\ NoMessage \notin Messages
  /\ MAX_ACTIVE_SENDINGS \in Nat \ {0}
  /\ SUBSCR_EXPIRE_TIME \in Nat

VARIABLES
  queue,       \* to_send_queue
  sent,        \* sent_map
  clients,     \* server_client_map, in the order HASH_ITER follows
  age,         \* age of client_data.last_update_time
  main,        \* transmission_thread: pc, node and tmp of HASH_ITER, message in hand
  done,        \* sending_done_semaphore
  slots,       \* max_sendings_semaphore
  sender,      \* where the thread that sends a message to a client is
  message,     \* the message that thread found at the head of the queue
  recv,        \* request_control_thread: pc and client
  due,         \* history: clients counted in this round and not yet come to
  audience,    \* history: clients counted in this round and not removed by it
  surplus,     \* history: some round came to a client it had not counted
  unspawned    \* history: senders that could not be created

round == <<due, audience, surplus>>
sendings == <<done, slots, sender, message, unspawned>>
vars == <<queue, sent, clients, age, main, recv, round, sendings>>

Elements(seq) == {seq[i] : i \in 1 .. Len(seq)}

-----------------------------------------------------------------------------
(* Helpers.                                                                *)

MaxAge == SUBSCR_EXPIRE_TIME + 1

\* A subscription that ends with its last second.
ExpiredAtOnce(c) == age[c] >= SUBSCR_EXPIRE_TIME

Expired(c) == age[c] > SUBSCR_EXPIRE_TIME

Position(c) == CHOOSE i \in 1 .. Len(clients) : clients[i] = c

\* node->hh.next
After(c) == IF Position(c) < Len(clients) THEN clients[Position(c) + 1] ELSE NoClient

\* HASH_DEL
Without(c) ==
  [i \in 1 .. Len(clients) - 1 |-> IF i < Position(c) THEN clients[i] ELSE clients[i + 1]]

QueueFree == {"lock", "idle", "file"}

At(pc, node, tmp) == [pc |-> pc, node |-> node, tmp |-> tmp, message |-> main.message]

Goto(pc) == main' = At(pc, main.node, main.tmp)

\* The step expression of HASH_ITER: tmp was fetched before the body ran.
Advance ==
  main' = IF main.tmp = NoClient
            THEN At("barrier", NoClient, NoClient)
            ELSE At("visit", main.tmp, After(main.tmp))

\* sem_trywait with its result ignored.
TakeDoneAnyway == done' = done - 1

\* sem_wait of sending_done_semaphore.
TakeDone ==
  /\ done > 0
  /\ done' = done - 1

\* pthread_cond_broadcast(to_send_queue_cond())
WakeIdle == IF main.pc = "idle" THEN Goto("lock") ELSE UNCHANGED main

-----------------------------------------------------------------------------
(* The loader, as far as the queue is concerned.                           *)

Load(m) ==
  /\ main.pc \in QueueFree
  /\ m \notin Elements(queue) \cup sent \cup {main.message}
  /\ queue' = Append(queue, m)
  /\ WakeIdle
  /\ UNCHANGED <<sent, clients, age, recv, round, sendings>>

-----------------------------------------------------------------------------
(* transmission_thread.                                                    *)

TransmitterIdle ==
  /\ main.pc = "lock"
  /\ queue = <<>>
  /\ Goto("idle")
  /\ UNCHANGED <<queue, sent, clients, age, recv, round, sendings>>

\* Expired clients left out of the count, though the round comes to them.
TransmitterCountFresh ==
  /\ main.pc = "lock"
  /\ queue # <<>>
  /\ Goto("first")
  /\ done' = Cardinality({c \in Elements(clients) : ~ Expired(c)})
  /\ due' = Elements(clients)
  /\ audience' = Elements(clients)
  /\ UNCHANGED <<queue, sent, clients, age, recv, surplus, slots, sender, message,
                 unspawned>>

TransmitterCount ==
  /\ main.pc = "lock"
  /\ queue # <<>>
  /\ Goto("first")
  /\ done' = Len(clients)
  /\ due' = Elements(clients)
  /\ audience' = Elements(clients)
  /\ UNCHANGED <<queue, sent, clients, age, recv, surplus, slots, sender, message,
                 unspawned>>

\* The initialisation of HASH_ITER: the list may have grown since the count.
TransmitterFirst ==
  /\ main.pc = "first"
  /\ main' = IF clients = <<>>
               THEN At("barrier", NoClient, NoClient)
               ELSE At("visit", Head(clients), After(Head(clients)))
  /\ UNCHANGED <<queue, sent, clients, age, recv, round, sendings>>

TransmitterVisit ==
  /\ main.pc = "visit"
  /\ Goto(IF Expired(main.node) THEN "expired" ELSE "spawn")
  /\ due' = due \ {main.node}
  /\ surplus' = (surplus \/ main.node \notin due)
  /\ UNCHANGED <<queue, sent, clients, age, recv, audience, sendings>>

TransmitterDelete ==
  /\ main.pc = "expired"
  /\ Goto("drop")
  /\ clients' = Without(main.node)
  /\ audience' = audience \ {main.node}
  /\ UNCHANGED <<queue, sent, age, recv, due, surplus, sendings>>

\* Line 89 left out.
TransmitterDropNothing ==
  /\ main.pc = "drop"
  /\ Advance
  /\ UNCHANGED <<queue, sent, clients, age, recv, round, sendings>>

\* The transmitter's own sending_done: nobody waits for its signal.
TransmitterDrop ==
  /\ main.pc = "drop"
  /\ TakeDone
  /\ Advance
  /\ UNCHANGED <<queue, sent, clients, age, recv, round, slots, sender, message,
                 unspawned>>

\* sem_wait, then pthread_create, whose result nobody looks at.
TransmitterSpawn ==
  LET m == Head(queue)
  IN  /\ main.pc = "spawn"
      /\ slots > 0
      /\ slots' = slots - 1
      /\ \/ /\ sender' = [sender EXCEPT ![m][main.node] = "start"]
            /\ UNCHANGED unspawned
         \/ /\ unspawned' = unspawned \cup {<<m, main.node>>}
            /\ UNCHANGED sender
      /\ Advance
      /\ UNCHANGED <<queue, sent, clients, age, recv, round, done, message>>

TransmitterSleep ==
  /\ main.pc = "barrier"
  /\ done # 0
  /\ Goto("asleep")
  /\ UNCHANGED <<queue, sent, clients, age, recv, round, sendings>>

\* Lines 103 to 108 left out.
TransmitterPassAtOnce ==
  /\ main.pc = "barrier"
  /\ Goto("retire")
  /\ UNCHANGED <<queue, sent, clients, age, recv, round, sendings>>

TransmitterPass ==
  /\ main.pc = "barrier"
  /\ done = 0
  /\ Goto("retire")
  /\ UNCHANGED <<queue, sent, clients, age, recv, round, sendings>>

TransmitterRetire ==
  /\ main.pc = "retire"
  /\ main' = [pc |-> "file", node |-> NoClient, tmp |-> NoClient, message |-> Head(queue)]
  /\ queue' = Tail(queue)
  /\ UNCHANGED <<sent, clients, age, recv, round, sendings>>

\* Whatever becomes of the file, the message goes to the map of sent ones.
TransmitterFile ==
  /\ main.pc = "file"
  /\ main' = [pc |-> "lock", node |-> NoClient, tmp |-> NoClient, message |-> NoMessage]
  /\ sent' = sent \cup {main.message}
  /\ UNCHANGED <<queue, clients, age, recv, round, sendings>>

-----------------------------------------------------------------------------
(* send_data_message_to_client.                                            *)

\* The message appended last, not the first.
SenderReadLast(m, c) ==
  /\ sender[m][c] = "start"
  /\ queue # <<>>
  /\ sender' = [sender EXCEPT ![m][c] = "sending"]
  /\ message' = [message EXCEPT ![m][c] = queue[Len(queue)]]
  /\ UNCHANGED <<queue, sent, clients, age, main, recv, round, done, slots, unspawned>>

\* The queue is read without its mutex.
SenderRead(m, c) ==
  /\ sender[m][c] = "start"
  /\ queue # <<>>
  /\ sender' = [sender EXCEPT ![m][c] = "sending"]
  /\ message' = [message EXCEPT ![m][c] = Head(queue)]
  /\ UNCHANGED <<queue, sent, clients, age, main, recv, round, done, slots, unspawned>>

\* Read through the null pointer of an empty queue: the whole server ends.
SenderCrash(m, c) ==
  /\ sender[m][c] = "start"
  /\ queue = <<>>
  /\ sender' = [n \in Messages |-> [d \in Clients |-> "dead"]]
  /\ Goto("dead")
  /\ recv' = [pc |-> "dead", client |-> recv.client]
  /\ UNCHANGED <<queue, sent, clients, age, round, done, slots, message, unspawned>>

\* Line 231 left out.
SenderPostNothing(m, c) ==
  /\ sender[m][c] = "sending"
  /\ sender' = [sender EXCEPT ![m][c] = "posted"]
  /\ UNCHANGED <<queue, sent, clients, age, main, recv, round, done, slots, message,
                 unspawned>>

\* The head and the blocks are sent; a sendto that fails is only reported.
SenderPost(m, c) ==
  /\ sender[m][c] = "sending"
  /\ sender' = [sender EXCEPT ![m][c] = "posted"]
  /\ slots' = slots + 1
  /\ UNCHANGED <<queue, sent, clients, age, main, recv, round, done, message, unspawned>>

SenderDone(m, c) ==
  /\ sender[m][c] = "posted"
  /\ TakeDone
  /\ sender' = [sender EXCEPT ![m][c] = "signal"]
  /\ UNCHANGED <<queue, sent, clients, age, main, recv, round, slots, message, unspawned>>

\* The signal one unit too early.
SenderSignalAtOne(m, c) ==
  /\ sender[m][c] = "signal"
  /\ sender' = [sender EXCEPT ![m][c] = "end"]
  /\ IF done = 1 /\ main.pc = "asleep" THEN Goto("barrier") ELSE UNCHANGED main
  /\ UNCHANGED <<queue, sent, clients, age, recv, round, done, slots, message, unspawned>>

\* Under sending_done_mutex.
SenderSignal(m, c) ==
  /\ sender[m][c] = "signal"
  /\ sender' = [sender EXCEPT ![m][c] = "end"]
  /\ IF done = 0 /\ main.pc = "asleep" THEN Goto("barrier") ELSE UNCHANGED main
  /\ UNCHANGED <<queue, sent, clients, age, recv, round, done, slots, message, unspawned>>

-----------------------------------------------------------------------------
(* receive_subscription.  It never takes server_client_map_mutex.          *)

\* An expired client taken for a new one.
ReceiveFindFresh(c) ==
  /\ recv.pc = "idle"
  /\ recv' = [pc |-> IF c \in Elements(clients) /\ ~ Expired(c) THEN "found" ELSE "missing",
              client |-> c]
  /\ UNCHANGED <<queue, sent, clients, age, main, round, sendings>>

ReceiveFind(c) ==
  /\ recv.pc = "idle"
  /\ recv' = [pc |-> IF c \in Elements(clients) THEN "found" ELSE "missing", client |-> c]
  /\ UNCHANGED <<queue, sent, clients, age, main, round, sendings>>

\* The new time left out.
ReceiveRefreshNothing ==
  /\ recv.pc = "found"
  /\ recv' = [pc |-> "accept", client |-> recv.client]
  /\ UNCHANGED <<queue, sent, clients, age, main, round, sendings>>

\* If the node was freed since it was found, the new time is written to memory
\* that is nobody's.
ReceiveRefresh ==
  /\ recv.pc = "found"
  /\ age' = IF recv.client \in Elements(clients) THEN [age EXCEPT ![recv.client] = 0] ELSE age
  /\ recv' = [pc |-> "accept", client |-> recv.client]
  /\ UNCHANGED <<queue, sent, clients, main, round, sendings>>

ReceiveAdd ==
  /\ recv.pc = "missing"
  /\ clients' = Append(clients, recv.client)
  /\ age' = [age EXCEPT ![recv.client] = 0]
  /\ recv' = [pc |-> "accept", client |-> recv.client]
  /\ UNCHANGED <<queue, sent, main, round, sendings>>

\* The ACCEPT is sent, or reported not to have been.
ReceiveAnswer ==
  /\ recv.pc = "accept"
  /\ recv' = [pc |-> "idle", client |-> NoClient]
  /\ UNCHANGED <<queue, sent, clients, age, main, round, sendings>>

Tick ==
  /\ age' = [c \in Clients |-> IF age[c] < MaxAge THEN age[c] + 1 ELSE age[c]]
  /\ UNCHANGED <<queue, sent, clients, main, recv, round, sendings>>

-----------------------------------------------------------------------------
Init ==
  /\ queue = <<>>
  /\ sent = {}
  /\ clients = <<>>
  /\ age = [c \in Clients |-> MaxAge]
  /\ main = [pc |-> "lock", node |-> NoClient, tmp |-> NoClient, message |-> NoMessage]
  /\ done = 0
  /\ slots = MAX_ACTIVE_SENDINGS
  /\ sender = [m \in Messages |-> [c \in Clients |-> "none"]]
  /\ message = [m \in Messages |-> [c \in Clients |-> NoMessage]]
  /\ recv = [pc |-> "idle", client |-> NoClient]
  /\ due = {}
  /\ audience = {}
  /\ surplus = FALSE
  /\ unspawned = {}

TransmissionThread ==
  \/ TransmitterIdle
  \/ TransmitterCount
  \/ TransmitterFirst
  \/ TransmitterVisit
  \/ TransmitterDelete
  \/ TransmitterDrop
  \/ TransmitterSpawn
  \/ TransmitterSleep
  \/ TransmitterPass
  \/ TransmitterRetire
  \/ TransmitterFile

SenderThread(m, c) ==
  \/ SenderRead(m, c)
  \/ SenderCrash(m, c)
  \/ SenderPost(m, c)
  \/ SenderDone(m, c)
  \/ SenderSignal(m, c)

RequestControlThread ==
  \/ \E c \in Clients : ReceiveFind(c)
  \/ ReceiveRefresh
  \/ ReceiveAdd
  \/ ReceiveAnswer

Next ==
  \/ \E m \in Messages : Load(m)
  \/ TransmissionThread
  \/ \E m \in Messages, c \in Clients : SenderThread(m, c)
  \/ RequestControlThread
  \/ Tick

Spec == Init /\ [][Next]_vars

Fairness ==
  /\ WF_vars(TransmissionThread)
  /\ \A m \in Messages, c \in Clients : WF_vars(SenderThread(m, c))

FairSpec == Spec /\ Fairness

-----------------------------------------------------------------------------
(* Properties.                                                             *)

main_pcs ==
  {"lock", "idle", "first", "visit", "expired", "drop", "spawn", "barrier", "asleep",
   "retire", "file", "dead"}

sender_pcs == {"none", "start", "sending", "posted", "signal", "end", "dead"}

\* Type invariant.
TypeOK ==
  /\ queue \in Seq(Messages)
  /\ sent \subseteq Messages
  /\ clients \in Seq(Clients)
  /\ age \in [Clients -> 0 .. MaxAge]
  /\ main \in [pc : main_pcs, node : Clients \cup {NoClient},
               tmp : Clients \cup {NoClient}, message : Messages \cup {NoMessage}]
  /\ done \in Nat /\ slots \in Nat
  /\ sender \in [Messages -> [Clients -> sender_pcs]]
  /\ message \in [Messages -> [Clients -> Messages \cup {NoMessage}]]
  /\ recv \in [pc : {"idle", "found", "missing", "accept", "dead"}, client : Clients \cup {NoClient}]
  /\ due \subseteq Clients /\ audience \subseteq Clients
  /\ surplus \in BOOLEAN
  /\ unspawned \subseteq Messages \X Clients

Senders(pcs) == {p \in Messages \X Clients : sender[p[1]][p[2]] \in pcs}
SendersOf(m, pcs) == {c \in Clients : sender[m][c] \in pcs}

\* Every unit of max_sendings_semaphore is free, used by a sender that has not
\* posted it yet, or gone with a sender that was never created; at no time do
\* more than MAX_ACTIVE_SENDINGS threads send.
SlotsBalanced ==
  main.pc # "dead" =>
    slots + Cardinality(Senders({"start", "sending"})) + Cardinality(unspawned)
      = MAX_ACTIVE_SENDINGS

\* The map holds an address once, and HASH_ITER's node and prefetched tmp are
\* nodes of the map that were not freed, although clients join meanwhile.
IterationSafe ==
  /\ \A i, j \in 1 .. Len(clients) : clients[i] = clients[j] => i = j
  /\ main.pc \in {"visit", "expired", "spawn"} => main.node \in Elements(clients)
  /\ main.pc \in {"visit", "expired", "drop", "spawn"} /\ main.tmp # NoClient
       => main.tmp \in Elements(clients)

\* While every round has met only the clients it counted, sending_done_semaphore
\* holds one unit for each client not yet come to, each sender not yet done, and
\* each sender that was never created; when it is 0 the message is out.
Outstanding(m) ==
  Cardinality(due) + Cardinality(SendersOf(m, {"start", "sending", "posted"}))
    + Cardinality({c \in Clients : <<m, c>> \in unspawned})
    + IF main.pc \in {"expired", "drop", "spawn"} THEN 1 ELSE 0

BarrierExact ==
  ~ surplus /\ main.pc \notin QueueFree => done = Outstanding(Head(queue))

\* A message leaves the queue only when each of its senders is through, and
\* each of them sent that message and not the next; so a client gets the
\* messages whole and in the order of the queue.
RoundComplete ==
  ~ surplus =>
    \A m \in Messages, c \in Clients :
      /\ m \notin Elements(queue) => sender[m][c] \in {"none", "signal", "end"}
      /\ sender[m][c] \in {"sending", "posted", "signal", "end"} => message[m][c] = m

\* A message that is retired was sent to every client that was subscribed when
\* its round began, the expired ones apart that the round removed.
AudienceServed ==
  ~ surplus /\ main.pc = "retire" =>
    \A c \in audience : sender[Head(queue)][c] \in {"signal", "end"}

\* A sender's client is not freed while the sender uses its address.
ClientsAlive ==
  ~ surplus =>
    \A m \in Messages, c \in Clients :
      sender[m][c] \in {"start", "sending"} => c \in Elements(clients)

\* The transmitter does not sleep on over a message in the queue or a round that
\* is over: then some sender is still to signal.
NoLostSignal ==
  /\ main.pc = "idle" => queue = <<>>
  /\ main.pc = "asleep" /\ done = 0 => Senders({"signal"}) # {}

\* The messages that went out, with the client each went to.
WentOut ==
  {p \in Messages \X Clients :
     \E m \in Messages : /\ message[m][p[2]] = p[1]
                         /\ sender[m][p[2]] \in {"posted", "signal", "end"}}

\* While no round met a client it had not counted, the threads together do what
\* one would write down as a broadcast: one message at a time, in order, to all
\* who were subscribed when its round began, and to nobody twice.
Broadcasting == INSTANCE Broadcast WITH
  waiting <- queue,
  out <- sent \cup ({main.message} \ {NoMessage}),
  open <- main.pc \notin QueueFree,
  expected <- audience,
  got <- WentOut,
  disturbed <- surplus

BroadcastSpec == Broadcasting!Spec

\* Every loaded message is sent at last, if no round meets a client it has not
\* counted and every sender is created: both break the count for good.
MessagesGetOut ==
  []~ surplus /\ [](unspawned = {}) =>
    \A m \in Messages : m \in Elements(queue) ~> m \in sent

\* Comment at mtn-server-transmitter.c:102, "wait until data message was send to
\* every client": when the wait is over, no sender of the message is still at it.
BarrierWaitsForAll ==
  main.pc = "retire" => SendersOf(Head(queue), {"start", "sending"}) = {}
=============================================================================
