------------------------------- MODULE StreamNet -------------------------------
(***************************************************************************)
(* One mtn-client and one mtn-server over a network that loses, repeats    *)
(* and delays datagrams, and a server that may be started again.  The      *)
(* client's threads are those of ClientUpdater, the server's those of      *)
(* ServerTransmitter; what they share is the wire and the clock.           *)
(***************************************************************************)
EXTENDS Integers, Sequences, FiniteSets

CONSTANTS
  Server, Client, Messages,
  NoServer, NoClient, NoMessage,
  MAX_ACTIVE_REQUESTS, MAX_NOT_CONNECT_COUNT, SERVER_RESPONSE_TIMEOUT,
  NEXT_CONNECT_ATTEMPT_TIME,
  SUBSCR_EXPIRE_TIME,   \* mtn-common.h:26, the same for both
  MAX_ACTIVE_SENDINGS,
  MAX_FAULTS            \* how many faults may happen

\* What ClientUpdater and ServerTransmitter assume, and that an answer is given
\* some time to come.
ASSUME NetAssumption ==
  /\ Server # NoServer /\ Client # NoClient
  /\ IsFiniteSet(Messages) /\ NoMessage \notin Messages
  /\ MAX_ACTIVE_REQUESTS \in Nat \ {0} /\ MAX_NOT_CONNECT_COUNT \in Nat \ {0}
  /\ SERVER_RESPONSE_TIMEOUT \in Nat \ {0}
  /\ SUBSCR_EXPIRE_TIME \in Nat /\ NEXT_CONNECT_ATTEMPT_TIME \in Nat
  /\ SERVER_RESPONSE_TIMEOUT <= NEXT_CONNECT_ATTEMPT_TIME
  /\ SUBSCR_EXPIRE_TIME <= NEXT_CONNECT_ATTEMPT_TIME
  /\ MAX_ACTIVE_SENDINGS \in Nat \ {0}
  /\ MAX_FAULTS \in Nat

VARIABLES
  \* the client
  state, not_connect_count, since_attempt, response, locked, not_subscribed,
  subscribed, sub, upd, request, since_send, posting, semaphore, client_recv,
  asked, lost, opened,
  \* the server
  queue, sent, clients, age, main, done, slots, sender, message, recv, due,
  audience, surplus, unspawned,
  \* between them
  wire,        \* kinds of the datagrams on their way
  faults,      \* faults up to now: of the network, of pthread_create, restarts
  late,        \* history: the last request was disturbed, or there was none yet
  promised     \* history: the round began while the client was well subscribed

C == INSTANCE ClientUpdater WITH
  Servers <- {Server},
  Answers <- [s \in {Server} |-> {"ACCEPT"}],
  InitStates <- {"SEND_REQ"},
  InitCounts <- {0},
  InitAges <- {NEXT_CONNECT_ATTEMPT_TIME},
  recv <- client_recv

S == INSTANCE ServerTransmitter WITH Clients <- {Client}

client_vars ==
  <<state, not_connect_count, since_attempt, response, locked, not_subscribed,
    subscribed, sub, upd, request, since_send, posting, semaphore, client_recv,
    asked, lost, opened>>

server_vars ==
  <<queue, sent, clients, age, main, done, slots, sender, message, recv, due,
    audience, surplus, unspawned>>

net_vars == <<wire, faults, late, promised>>
vars == <<client_vars, server_vars, net_vars>>

-----------------------------------------------------------------------------
(* History.                                                                *)

\* Some thread has a request or its answer in hand, one is on the wire, or a
\* refresh is due.  A client that only waits for what was lost is not meant.
UnderWay ==
  \/ C!Held(sub) # {} \/ C!Held(upd) # {}
  \/ request[Server] \notin {"none", "asleep"}
  \/ wire # {} \/ recv.pc \notin {"idle", "dead"} \/ client_recv.pc # "idle"
  \/ Server \in subscribed.members /\ since_attempt[Server] >= SUBSCR_EXPIRE_TIME

\* The client takes its subscription for good and is not busy with it.
Subscribed == Server \in subscribed.members /\ state[Server] = "SUBSCR"

\* A request that starts with nothing left over from those before: no datagram,
\* no answer, and no subscription that is over but not removed yet, or about to be.
CleanStart ==
  /\ wire = {} /\ recv.pc = "idle" /\ client_recv.pc = "idle"
  /\ state[Server] # "RESP"
  /\ Client \in S!Elements(clients) => ~ S!Expired(Client) /\ main.pc # "expired"

Smooth == UNCHANGED <<faults, late, promised>>

Late == late' = TRUE /\ promised' = FALSE

Fault ==
  /\ faults < MAX_FAULTS
  /\ faults' = faults + 1
  /\ Late

-----------------------------------------------------------------------------
(* Steps of the one that the other does not see.                           *)

ClientStep ==
  /\ IF lost' = lost THEN Smooth ELSE Fault
  /\ UNCHANGED <<server_vars, wire>>

SubscriptionThread == C!SubscriptionThread /\ ClientStep

UpdateThread == C!UpdateThread /\ ClientStep

RequestTimeout == C!RequestTimeout(Server) /\ ClientStep

RequestThread ==
  /\ \/ C!RequestMustWait(Server) \/ C!RequestSleep(Server)
     \/ C!RequestAnswered(Server) \/ C!RequestMissed(Server)
     \/ C!RequestParseBegin(Server) \/ C!RequestParseEnd(Server)
     \/ C!RequestChoose(Server)
     \/ C!RequestToSubscribed(Server) \/ C!RequestToNotSubscribed(Server)
     \/ C!RequestPost
  /\ ClientStep

ClientReceiveThread == (C!ReceiveStore \/ C!ReceiveEnd) /\ ClientStep

ServerStep ==
  /\ IF unspawned' = unspawned THEN Smooth ELSE Fault
  /\ UNCHANGED <<client_vars, wire>>

Load == (\E m \in Messages : S!Load(m)) /\ ServerStep

TransmissionThread ==
  /\ \/ S!TransmitterIdle \/ S!TransmitterFirst \/ S!TransmitterVisit
     \/ S!TransmitterDelete \/ S!TransmitterDrop \/ S!TransmitterSpawn
     \/ S!TransmitterSleep \/ S!TransmitterPass
     \/ S!TransmitterRetire \/ S!TransmitterFile
  /\ ServerStep

SenderThread(m) ==
  /\ \/ S!SenderRead(m, Client) \/ S!SenderPost(m, Client)
     \/ S!SenderDone(m, Client) \/ S!SenderSignal(m, Client)
  /\ ServerStep

RequestControlThread == (S!ReceiveRefresh \/ S!ReceiveAdd) /\ ServerStep

\* The whole server ends: not the environment's fault.
ServerCrashes ==
  /\ \E m \in Messages : S!SenderCrash(m, Client)
  /\ Late
  /\ UNCHANGED <<client_vars, wire, faults>>

RoundBegins ==
  /\ S!TransmitterCount
  /\ promised' = (Subscribed /\ ~ late)
  /\ UNCHANGED <<client_vars, wire, faults, late>>

-----------------------------------------------------------------------------
(* The wire.                                                               *)

\* A datagram is taken from the wire, or is there twice.
Taken(d) ==
  /\ d \in wire
  /\ \/ wire' = wire \ {d} /\ Smooth
     \/ wire' = wire /\ Fault

ClientSends ==
  /\ C!RequestSend(Server)
  /\ wire' = wire \cup {"SUBSCR"}
  /\ IF CleanStart
       THEN late' = FALSE /\ UNCHANGED promised
       ELSE Late
  /\ UNCHANGED <<server_vars, faults>>

ClientSendFails ==
  /\ C!RequestSendFails(Server)
  /\ Fault
  /\ UNCHANGED <<server_vars, wire>>

ServerHears ==
  /\ S!ReceiveFind(Client)
  /\ Taken("SUBSCR")
  /\ UNCHANGED client_vars

ServerAnswers ==
  /\ S!ReceiveAnswer
  /\ \/ wire' = wire \cup {"ACCEPT"} /\ Smooth
     \/ wire' = wire /\ Fault
  /\ UNCHANGED client_vars

ClientHears ==
  /\ C!ReceiveBegin(Server, "ACCEPT")
  /\ Taken("ACCEPT")
  /\ UNCHANGED server_vars

\* The network loses it, or the server has crashed and nobody is there.
Lose(d) ==
  /\ d \in wire
  /\ wire' = wire \ {d}
  /\ \/ Fault
     \/ d = "SUBSCR" /\ main.pc = "dead" /\ Late /\ UNCHANGED faults
  /\ UNCHANGED <<client_vars, server_vars>>

Tick ==
  /\ C!Tick /\ S!Tick
  /\ IF UnderWay THEN Fault ELSE Smooth
  /\ UNCHANGED wire

\* The server's memory is gone; sent stands for the files it has moved away.
ServerRestart ==
  /\ queue' = <<>>
  /\ clients' = <<>>
  /\ age' = [c \in {Client} |-> S!MaxAge]
  /\ main' = [pc |-> "lock", node |-> NoClient, tmp |-> NoClient, message |-> NoMessage]
  /\ done' = 0
  /\ slots' = MAX_ACTIVE_SENDINGS
  /\ sender' = [m \in Messages |-> [c \in {Client} |-> "none"]]
  /\ message' = [m \in Messages |-> [c \in {Client} |-> NoMessage]]
  /\ recv' = [pc |-> "idle", client |-> NoClient]
  /\ due' = {} /\ audience' = {} /\ surplus' = FALSE /\ unspawned' = {}
  /\ Fault
  /\ UNCHANGED <<client_vars, sent, wire>>

-----------------------------------------------------------------------------
Init ==
  /\ C!Init /\ S!Init
  /\ wire = {}
  /\ faults = 0
  /\ late = TRUE
  /\ promised = FALSE

ClientAlone ==
  \/ SubscriptionThread \/ UpdateThread
  \/ RequestThread \/ RequestTimeout
  \/ ClientReceiveThread

ServerAlone ==
  \/ Load \/ TransmissionThread
  \/ \E m \in Messages : SenderThread(m)
  \/ RequestControlThread

Next ==
  \/ ClientAlone \/ ServerAlone \/ ServerCrashes \/ RoundBegins
  \/ ClientSends \/ ClientSendFails \/ ServerHears
  \/ ServerAnswers \/ ClientHears
  \/ \E d \in wire : Lose(d)
  \/ Tick
  \/ ServerRestart

Spec == Init /\ [][Next]_vars

\* What the two programs do of themselves, what the wire delivers, and time.
Progress ==
  \/ ClientAlone \/ TransmissionThread \/ RoundBegins
  \/ \E m \in Messages : SenderThread(m)
  \/ RequestControlThread
  \/ ClientSends \/ ServerHears \/ ServerAnswers \/ ClientHears
  \/ Tick

\* Something of this goes on as long as it can, without a fault.  This is less
\* than fairness to each thread, the wire and the clock, and it is enough:
\* between two ticks only finitely much happens.
Fairness == WF_vars(Progress /\ faults' = faults)

FairSpec == Spec /\ Fairness

-----------------------------------------------------------------------------
\* Type invariant.
TypeOK ==
  /\ C!TypeOK /\ S!TypeOK
  /\ wire \subseteq {"SUBSCR", "ACCEPT"}
  /\ faults \in 0 .. MAX_FAULTS
  /\ late \in BOOLEAN /\ promised \in BOOLEAN

\* If nothing disturbed the last request and each refresh comes before the next
\* second, the client the server accepted stays in the server's map: the client
\* refreshes at an age of SUBSCR_EXPIRE_TIME, the server removes above it, and
\* neither clock starts before the other's.
StaysSubscribed ==
  ~ late /\ Subscribed => Client \in S!Elements(clients) /\ ~ S!Expired(Client)

\* A message whose round began while the client was well subscribed was sent to
\* it when the round is over, unless an earlier round met a client it had not
\* counted: that breaks the count of the rounds behind it too.
SubscriberServed ==
  promised /\ ~ surplus /\ main.pc = "retire" =>
    sender[Head(queue)][Client] \in {"signal", "end"}

\* Faults that end are forgotten: if the server is up at last and no request
\* thread failed to start, the client comes back into the map, and stays.
SubscriptionRestored ==
  <>[](main.pc # "dead" /\ lost = {}) => <>[](Client \in S!Elements(clients))
=============================================================================
