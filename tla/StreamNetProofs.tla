---------------------------- MODULE StreamNetProofs ----------------------------
(* Theorems about StreamNet, for any messages, limits, timeouts and faults. *)
(* What was proved of the client's updater and of the server's transmitter  *)
(* alone is taken over step by step: every step of StreamNet is one of the  *)
(* updater or leaves it alone, and one of the transmitter, leaves it alone, *)
(* or starts the server again.                                              *)
EXTENDS StreamNet, FiniteSetTheorems, TLAPS

Updater == INSTANCE ClientUpdaterProofs WITH
  Servers <- {Server},
  Answers <- [s \in {Server} |-> {"ACCEPT"}],
  InitStates <- {"SEND_REQ"},
  InitCounts <- {0},
  InitAges <- {NEXT_CONNECT_ATTEMPT_TIME},
  recv <- client_recv

Transmitter == INSTANCE ServerTransmitterProofs WITH Clients <- {Client}

-----------------------------------------------------------------------------
(* The assumptions of the two hold here.                                   *)

LEMMA UpdaterAssumed == Updater!ClientAssumption
<1>1. \A T : IsFiniteSet(T) <=> Updater!IsFiniteSet(T)
  BY DEF IsFiniteSet, Updater!IsFiniteSet
<1>2. Updater!IsFiniteSet({Server})
  BY <1>1, FS_Singleton
<1>3. 2 * MAX_NOT_CONNECT_COUNT - 1 \in Nat
  BY NetAssumption
<1>4. {0} \subseteq 0 .. 2 * MAX_NOT_CONNECT_COUNT - 1
  BY <1>3
<1>5. {NEXT_CONNECT_ATTEMPT_TIME} \subseteq 0 .. NEXT_CONNECT_ATTEMPT_TIME
  BY NetAssumption
<1>6. [s \in {Server} |-> {"ACCEPT"}] \in [{Server} -> SUBSET {"ACCEPT", "REJECT"}]
  OBVIOUS
<1> QED
  BY <1>2, <1>4, <1>5, <1>6, NetAssumption DEF Updater!server_state

LEMMA TransmitterAssumed == Transmitter!ServerAssumption
<1>1. \A T : IsFiniteSet(T) <=> Transmitter!IsFiniteSet(T)
  BY DEF IsFiniteSet, Transmitter!IsFiniteSet
<1>2. Transmitter!IsFiniteSet({Client}) /\ Transmitter!IsFiniteSet(Messages)
  BY <1>1, FS_Singleton, NetAssumption
<1> QED
  BY <1>2, NetAssumption

-----------------------------------------------------------------------------
(* The definitions of the two by their names in StreamNet: the names differ *)
(* and nothing else.                                                       *)

LEMMA UpdaterInit ==
  C!Init => Updater!Init
BY DEF C!Init, C!EmptyQueue, C!AtCheck, C!MaxAge, Updater!Init, Updater!EmptyQueue,
       Updater!AtCheck, Updater!MaxAge

LEMMA UpdaterSubscription ==
  C!SubscriptionThread => Updater!SubscriptionThread
BY DEF C!SubscriptionThread, C!SubscriptionSleep, C!SubscriptionTimedSleep,
       C!SubscriptionTimeout, C!SubscriptionPop, C!SubscriptionTimeoutPop,
       C!SubscriptionSpawn, C!TakeNotSubscribed, C!MustWait, C!CreateRequestThread,
       C!TakeSlot, C!AtCheck, C!Pop, C!fields, C!queues, C!threads, C!network,
       Updater!SubscriptionThread, Updater!SubscriptionSleep,
       Updater!SubscriptionTimedSleep, Updater!SubscriptionTimeout, Updater!SubscriptionPop,
       Updater!SubscriptionTimeoutPop, Updater!SubscriptionSpawn, Updater!TakeNotSubscribed,
       Updater!MustWait, Updater!CreateRequestThread, Updater!TakeSlot, Updater!AtCheck,
       Updater!Pop, Updater!fields, Updater!queues, Updater!threads, Updater!network

LEMMA UpdaterUpdate ==
  C!UpdateThread => Updater!UpdateThread
BY DEF C!UpdateThread, C!UpdateSleep, C!UpdateTimedSleep, C!UpdateTimeout, C!UpdatePop,
       C!UpdateTimeoutPop, C!UpdateSpawn, C!TakeSubscribed, C!CreateRequestThread,
       C!TakeSlot, C!AtCheck, C!Pop, C!fields, C!queues, C!threads, C!network,
       Updater!UpdateThread, Updater!UpdateSleep, Updater!UpdateTimedSleep,
       Updater!UpdateTimeout, Updater!UpdatePop, Updater!UpdateTimeoutPop,
       Updater!UpdateSpawn, Updater!TakeSubscribed, Updater!CreateRequestThread,
       Updater!TakeSlot, Updater!AtCheck, Updater!Pop, Updater!fields, Updater!queues,
       Updater!threads, Updater!network

LEMMA UpdaterRequest ==
  C!RequestThread(Server) => Updater!RequestThread(Server)
BY DEF C!RequestThread, C!RequestSend, C!RequestSendFails, C!RequestMustWait,
       C!RequestSleep, C!RequestAnswered, C!RequestTimeout, C!RequestMissed,
       C!RequestParseBegin, C!RequestParseEnd, C!RequestChoose, C!RequestToSubscribed,
       C!RequestToNotSubscribed, C!MaxAge, C!NextCount, C!CountCap, C!GivenUp, C!Push,
       C!Woken, C!AtCheck, C!fields, C!queues, C!threads, C!network, Updater!RequestThread,
       Updater!RequestSend, Updater!RequestSendFails, Updater!RequestMustWait,
       Updater!RequestSleep, Updater!RequestAnswered, Updater!RequestTimeout,
       Updater!RequestMissed, Updater!RequestParseBegin, Updater!RequestParseEnd,
       Updater!RequestChoose, Updater!RequestToSubscribed, Updater!RequestToNotSubscribed,
       Updater!MaxAge, Updater!NextCount, Updater!CountCap, Updater!GivenUp, Updater!Push,
       Updater!Woken, Updater!AtCheck, Updater!fields, Updater!queues, Updater!threads,
       Updater!network

LEMMA UpdaterPost ==
  C!RequestPost => Updater!RequestPost
BY DEF C!RequestPost, C!fields, C!queues, C!threads, C!network, Updater!RequestPost,
       Updater!fields, Updater!queues, Updater!threads, Updater!network

LEMMA UpdaterReceive ==
  /\ C!ReceiveBegin(Server, "ACCEPT") => Updater!ReceiveBegin(Server, "ACCEPT")
  /\ C!ReceiveStore => Updater!ReceiveStore
  /\ C!ReceiveEnd => Updater!ReceiveEnd
BY DEF C!ReceiveBegin, C!ReceiveStore, C!ReceiveEnd, C!WokenRequests, C!fields, C!queues,
       C!threads, C!network, Updater!ReceiveBegin, Updater!ReceiveStore, Updater!ReceiveEnd,
       Updater!WokenRequests, Updater!fields, Updater!queues, Updater!threads,
       Updater!network

LEMMA UpdaterTick ==
  C!Tick => Updater!Tick
BY DEF C!Tick, C!Older, C!MaxAge, C!fields, C!queues, C!threads, C!network, Updater!Tick,
       Updater!Older, Updater!MaxAge, Updater!fields, Updater!queues, Updater!threads,
       Updater!network

LEMMA UpdaterRests ==
  UNCHANGED C!vars => UNCHANGED Updater!vars
BY DEF C!vars, C!fields, C!queues, C!threads, C!network, Updater!vars, Updater!fields,
       Updater!queues, Updater!threads, Updater!network

LEMMA UpdaterTypes ==
  Updater!TypeOK => C!TypeOK
BY DEF C!TypeOK, C!server_state, C!CountCap, C!MaxAge, C!TypeOfQueue, C!TypeOfThread,
       C!request_pcs, Updater!TypeOK, Updater!server_state, Updater!CountCap,
       Updater!MaxAge, Updater!TypeOfQueue, Updater!TypeOfThread, Updater!request_pcs

LEMMA TransmitterInit ==
  S!Init => Transmitter!Init
BY DEF S!Init, S!MaxAge, Transmitter!Init, Transmitter!MaxAge

LEMMA TransmitterLoad ==
  \A m \in Messages : S!Load(m) => Transmitter!Load(m)
BY DEF S!Load, S!QueueFree, S!Elements, S!WakeIdle, S!round, S!sendings, S!At, S!Goto,
       Transmitter!Load, Transmitter!QueueFree, Transmitter!Elements, Transmitter!WakeIdle,
       Transmitter!round, Transmitter!sendings, Transmitter!At, Transmitter!Goto

LEMMA TransmitterThread ==
  S!TransmissionThread => Transmitter!TransmissionThread
BY DEF S!TransmissionThread, S!TransmitterIdle, S!TransmitterCount, S!TransmitterFirst,
       S!TransmitterVisit, S!TransmitterDelete, S!TransmitterDrop, S!TransmitterSpawn,
       S!TransmitterSleep, S!TransmitterPass, S!TransmitterRetire, S!TransmitterFile,
       S!Elements, S!After, S!Position, S!Without, S!Expired, S!Advance, S!TakeDone,
       S!round, S!sendings, S!At, S!Goto, Transmitter!TransmissionThread,
       Transmitter!TransmitterIdle, Transmitter!TransmitterCount,
       Transmitter!TransmitterFirst, Transmitter!TransmitterVisit,
       Transmitter!TransmitterDelete, Transmitter!TransmitterDrop,
       Transmitter!TransmitterSpawn, Transmitter!TransmitterSleep,
       Transmitter!TransmitterPass, Transmitter!TransmitterRetire,
       Transmitter!TransmitterFile, Transmitter!Elements, Transmitter!After,
       Transmitter!Position, Transmitter!Without, Transmitter!Expired, Transmitter!Advance,
       Transmitter!TakeDone, Transmitter!round, Transmitter!sendings, Transmitter!At,
       Transmitter!Goto

LEMMA TransmitterSender ==
  \A m \in Messages : S!SenderThread(m, Client) => Transmitter!SenderThread(m, Client)
BY DEF S!SenderThread, S!SenderRead, S!SenderCrash, S!SenderPost, S!SenderDone,
       S!SenderSignal, S!TakeDone, S!round, S!sendings, S!At, S!Goto,
       Transmitter!SenderThread, Transmitter!SenderRead, Transmitter!SenderCrash,
       Transmitter!SenderPost, Transmitter!SenderDone, Transmitter!SenderSignal,
       Transmitter!TakeDone, Transmitter!round, Transmitter!sendings, Transmitter!At,
       Transmitter!Goto

LEMMA TransmitterReceiver ==
  S!RequestControlThread => Transmitter!RequestControlThread
BY DEF S!RequestControlThread, S!ReceiveFind, S!ReceiveRefresh, S!ReceiveAdd,
       S!ReceiveAnswer, S!Elements, S!round, S!sendings, Transmitter!RequestControlThread,
       Transmitter!ReceiveFind, Transmitter!ReceiveRefresh, Transmitter!ReceiveAdd,
       Transmitter!ReceiveAnswer, Transmitter!Elements, Transmitter!round,
       Transmitter!sendings

LEMMA TransmitterTick ==
  S!Tick => Transmitter!Tick
BY DEF S!Tick, S!MaxAge, S!round, S!sendings, Transmitter!Tick, Transmitter!MaxAge,
       Transmitter!round, Transmitter!sendings

LEMMA TransmitterRests ==
  UNCHANGED S!vars => UNCHANGED Transmitter!vars
BY DEF S!vars, S!round, S!sendings, Transmitter!vars, Transmitter!round, Transmitter!sendings

LEMMA TransmitterTypes ==
  Transmitter!TypeOK => S!TypeOK
BY DEF S!TypeOK, S!main_pcs, S!sender_pcs, S!MaxAge, Transmitter!TypeOK,
       Transmitter!main_pcs, Transmitter!sender_pcs, Transmitter!MaxAge

LEMMA TransmitterServed ==
  Transmitter!AudienceServed => S!AudienceServed
BY DEF S!AudienceServed, Transmitter!AudienceServed

-----------------------------------------------------------------------------
(* Every step of StreamNet, as each of the two sees it.                    *)

LEMMA ClientSees == [Next]_vars => [C!Next]_(C!vars)
<1> SUFFICES ASSUME [Next]_vars
             PROVE  C!Next \/ UNCHANGED C!vars
  OBVIOUS
<1>1. ASSUME C!RequestThread(Server) PROVE C!Next
  BY <1>1 DEF C!Next
<1>2. ASSUME UNCHANGED client_vars PROVE UNCHANGED C!vars
  BY <1>2 DEF client_vars, C!vars, C!fields, C!queues, C!threads, C!network
<1>3. CASE ClientAlone
  <2>1. C!RequestThread(Server) \/ C!RequestPost \/ C!SubscriptionThread \/ C!UpdateThread
          \/ C!ReceiveStore \/ C!ReceiveEnd
    BY <1>3
    DEF ClientAlone, SubscriptionThread, UpdateThread, RequestThread, RequestTimeout,
        ClientReceiveThread, C!RequestThread
  <2> QED
    BY <1>1, <2>1 DEF C!Next
<1>4. CASE ClientSends \/ ClientSendFails
  BY <1>1, <1>4 DEF ClientSends, ClientSendFails, C!RequestThread
<1>5. CASE ClientHears
  BY <1>5 DEF ClientHears, C!Next
<1>6. CASE Tick
  BY <1>6 DEF Tick, C!Next
<1>7. CASE \/ ServerAlone \/ ServerCrashes \/ RoundBegins \/ ServerHears \/ ServerAnswers
           \/ (\E d \in wire : Lose(d)) \/ ServerRestart \/ UNCHANGED vars
  BY <1>2, <1>7
  DEF ServerAlone, Load, TransmissionThread, SenderThread, RequestControlThread, ServerStep,
      ServerCrashes, RoundBegins, ServerHears, ServerAnswers, Lose, ServerRestart, vars
<1> QED
  BY <1>3, <1>4, <1>5, <1>6, <1>7 DEF Next

LEMMA ServerSees == [Next]_vars => [S!Next]_(S!vars) \/ ServerRestart
<1> SUFFICES ASSUME [Next]_vars
             PROVE  S!Next \/ UNCHANGED S!vars \/ ServerRestart
  OBVIOUS
<1>1. ASSUME UNCHANGED server_vars PROVE UNCHANGED S!vars
  BY <1>1 DEF server_vars, S!vars, S!round, S!sendings
<1>2. ASSUME NEW m \in Messages, S!SenderThread(m, Client) PROVE S!Next
  BY <1>2 DEF S!Next
<1>3. CASE ServerAlone
  <2>1. ASSUME NEW m \in Messages, SenderThread(m) PROVE S!Next
    BY <1>2, <2>1 DEF SenderThread, S!SenderThread
  <2>2. ASSUME Load \/ TransmissionThread \/ RequestControlThread PROVE S!Next
    BY <2>2
    DEF Load, TransmissionThread, RequestControlThread, S!Next, S!TransmissionThread,
        S!RequestControlThread
  <2> QED
    BY <1>3, <2>1, <2>2 DEF ServerAlone
<1>4. CASE ServerCrashes
  BY <1>2, <1>4 DEF ServerCrashes, S!SenderThread
<1>5. CASE RoundBegins \/ ServerHears \/ ServerAnswers \/ Tick
  BY <1>5
  DEF RoundBegins, ServerHears, ServerAnswers, Tick, S!Next, S!TransmissionThread,
      S!RequestControlThread
<1>6. CASE \/ ClientAlone \/ ClientSends \/ ClientSendFails \/ ClientHears
           \/ (\E d \in wire : Lose(d)) \/ UNCHANGED vars
  BY <1>1, <1>6
  DEF ClientAlone, SubscriptionThread, UpdateThread, RequestThread, RequestTimeout,
      ClientReceiveThread, ClientStep, ClientSends, ClientSendFails, ClientHears, Lose, vars
<1> QED
  BY <1>3, <1>4, <1>5, <1>6 DEF Next

LEMMA UpdaterStep == [Next]_vars => [Updater!Next]_(Updater!vars)
<1>1. C!Next => Updater!Next
  BY UpdaterSubscription, UpdaterUpdate, UpdaterRequest, UpdaterPost, UpdaterReceive, UpdaterTick
  DEF C!Next, Updater!Next
<1> QED
  BY <1>1, ClientSees, UpdaterRests

LEMMA TransmitterStep ==
  [Next]_vars => [Transmitter!Next]_(Transmitter!vars) \/ ServerRestart
<1>1. S!Next => Transmitter!Next
  BY TransmitterLoad, TransmitterThread, TransmitterSender, TransmitterReceiver, TransmitterTick
  DEF S!Next, Transmitter!Next
<1> QED
  BY <1>1, ServerSees, TransmitterRests

-----------------------------------------------------------------------------
(* What holds of the two alone holds here, through every restart.          *)

ClientInv == Updater!PlaceInv

ServerInv == Transmitter!TypeInv /\ Transmitter!OrderInv /\ Transmitter!RoundInv

LEMMA ClientInvInit == Init => ClientInv
BY UpdaterAssumed, UpdaterInit, Updater!TypeInit, Updater!PlaceInit
DEF Init, ClientInv, Updater!PlaceInv

LEMMA ClientInvStep == ClientInv /\ [Next]_vars => ClientInv'
BY UpdaterAssumed, UpdaterStep, Updater!TypeStep, Updater!PlaceStep
DEF ClientInv, Updater!PlaceInv

LEMMA ServerInvInit == Init => ServerInv
BY TransmitterAssumed, TransmitterInit, Transmitter!TypeInit, Transmitter!OrderInit,
   Transmitter!RoundInit
DEF Init, ServerInv

\* A server that starts again is as good as new, but for the files it has sent.
LEMMA RestartType ==
  ASSUME Transmitter!TypeInv, ServerRestart
  PROVE  Transmitter!TypeInv'
<1>1. sent \subseteq Messages /\ sent' = sent
  BY DEF Transmitter!TypeInv, Transmitter!TypeOK, ServerRestart
<1>2. /\ queue' = <<>> /\ clients' = <<>> /\ done' = 0 /\ slots' = MAX_ACTIVE_SENDINGS
      /\ due' = {} /\ audience' = {} /\ surplus' = FALSE /\ unspawned' = {}
      /\ recv' = [pc |-> "idle", client |-> NoClient]
      /\ main' = [pc |-> "lock", node |-> NoClient, tmp |-> NoClient, message |-> NoMessage]
  BY DEF ServerRestart
<1>3. queue' \in Seq(Messages) /\ clients' \in Seq({Client}) /\ Len(clients') = 0
  BY <1>2
<1>4. S!MaxAge \in 0 .. S!MaxAge /\ S!MaxAge = Transmitter!MaxAge
  BY NetAssumption DEF S!MaxAge, Transmitter!MaxAge
<1>5. age' \in [{Client} -> 0 .. Transmitter!MaxAge]
  BY <1>4 DEF ServerRestart
<1>6. [c \in {Client} |-> "none"] \in [{Client} -> Transmitter!sender_pcs]
  BY DEF Transmitter!sender_pcs
<1>7. sender' \in [Messages -> [{Client} -> Transmitter!sender_pcs]]
  BY <1>6 DEF ServerRestart
<1>8. message' \in [Messages -> [{Client} -> Messages \cup {NoMessage}]]
  BY DEF ServerRestart
<1>9. done' \in Nat /\ slots' \in Nat
  BY <1>2, NetAssumption
<1>10. /\ main' \in [pc : Transmitter!main_pcs, node : {Client} \cup {NoClient},
                      tmp : {Client} \cup {NoClient}, message : Messages \cup {NoMessage}]
       /\ recv' \in [pc : {"idle", "found", "missing", "accept", "dead"},
                      client : {Client} \cup {NoClient}]
  BY <1>2 DEF Transmitter!main_pcs
<1>11. Transmitter!TypeOK'
  BY ONLY <1>1, <1>2, <1>3, <1>5, <1>7, <1>8, <1>9, <1>10 DEF Transmitter!TypeOK
<1>12. Transmitter!Hands'
  BY <1>2 DEF Transmitter!Hands, Transmitter!InRound, Transmitter!QueueFree
<1>13. Transmitter!ListInv'
  BY <1>2, <1>3 DEF Transmitter!ListInv, Transmitter!OnceInList, Transmitter!AtNode
<1> QED
  BY <1>11, <1>12, <1>13 DEF Transmitter!TypeInv

LEMMA RestartRounds ==
  ASSUME ServerRestart
  PROVE  Transmitter!OrderInv' /\ Transmitter!RoundInv'
<1>1. /\ queue' = <<>> /\ done' = 0 /\ unspawned' = {}
      /\ main'.pc = "lock" /\ main'.message = NoMessage
  BY DEF ServerRestart
<1>2. \A m \in Messages, c \in {Client} : sender'[m][c] = "none"
  BY DEF ServerRestart
<1>3. \A m \in Messages, c \in {Client} : ~ Transmitter!Started(m, c)'
  BY <1>1, <1>2 DEF Transmitter!Started
<1>4. Transmitter!QueueOnce'
  BY <1>1 DEF Transmitter!QueueOnce
<1>5. Transmitter!StartedOnce'
  BY <1>1, <1>2, <1>3 DEF Transmitter!StartedOnce, Transmitter!AtNode
<1>6. Transmitter!Complete'
  BY <1>2 DEF Transmitter!Complete
<1>7. Transmitter!RoundInv'
  BY <1>1, <1>6
  DEF Transmitter!RoundInv, Transmitter!RoundFacts, Transmitter!InRound, Transmitter!QueueFree
<1> QED
  BY <1>1, <1>4, <1>5, <1>7 DEF Transmitter!OrderInv

LEMMA ServerInvStep == ServerInv /\ [Next]_vars => ServerInv'
<1> SUFFICES ASSUME ServerInv, [Next]_vars PROVE ServerInv'
  OBVIOUS
<1>1. CASE ServerRestart
  BY <1>1, RestartType, RestartRounds DEF ServerInv
<1>2. CASE [Transmitter!Next]_(Transmitter!vars)
  <2>1. Transmitter!TypeInv'
    BY <1>2, TransmitterAssumed, Transmitter!TypeStep DEF ServerInv
  <2>2. Transmitter!OrderInv'
    BY <1>2, TransmitterAssumed, Transmitter!OrderStep DEF ServerInv
  <2> QED
    BY <1>2, <2>1, <2>2, TransmitterAssumed, Transmitter!RoundStep DEF ServerInv
<1> QED
  BY <1>1, <1>2, TransmitterStep

-----------------------------------------------------------------------------
(* The way of an undisturbed request, from the wire to the subscribed queue *)
(* and back.  No time passes on it: so both clocks start at 0 together.    *)

OnList == Client \in S!Elements(clients)

Fresh == OnList /\ age[Client] = 0

\* The request or its answer is on the wire or in the server's hands.
Asked ==
  /\ request[Server] \in {"await", "must_wait", "asleep"}
  /\ since_send[Server] = 0
  /\ state[Server] # "RESP"
  /\ client_recv.pc = "idle"
  /\ request[Server] = "must_wait" => Server \in locked
  /\ \/ wire = {"SUBSCR"} /\ recv.pc = "idle"
     \/ wire = {} /\ recv.pc = "missing"
     \/ wire = {} /\ recv.pc = "found" /\ OnList
     \/ wire = {} /\ recv.pc = "accept" /\ Fresh
     \/ wire = {"ACCEPT"} /\ recv.pc = "idle" /\ Fresh

\* The client's receiver stores the answer; the request waits for the mutex or
\* for the broadcast.
Told ==
  /\ wire = {} /\ recv.pc = "idle" /\ Fresh
  /\ since_send[Server] = 0
  /\ Server \in locked
  /\ response[Server] = "ACCEPT"
  /\ \/ client_recv.pc = "writing" /\ request[Server] \in {"await", "asleep"}
     \/ client_recv.pc = "stored" /\ request[Server] = "await" /\ state[Server] = "RESP"

\* The request thread parses it and puts the server in the subscribed queue.
Taking ==
  /\ wire = {} /\ recv.pc = "idle" /\ client_recv.pc = "idle" /\ Fresh
  /\ \/ /\ request[Server] = "await" /\ state[Server] = "RESP"
        /\ response[Server] = "ACCEPT"
     \/ request[Server] \in {"answered", "parsing"} /\ response[Server] = "ACCEPT"
     \/ request[Server] \in {"requeue", "to_subscribed"} /\ state[Server] = "SUBSCR"

\* It is there, until its refresh is sent.
Kept ==
  /\ wire = {} /\ recv.pc = "idle" /\ client_recv.pc = "idle"
  /\ state[Server] = "SUBSCR"
  /\ OnList /\ age[Client] <= since_attempt[Server]
  /\ Server \in subscribed.members \cup C!Held(upd) \/ request[Server] = "send"

Undisturbed ==
  /\ main.pc # "expired"
  /\ OnList => age[Client] <= SUBSCR_EXPIRE_TIME
  /\ Asked \/ Told \/ Taking \/ Kept

NetInv ==
  /\ wire \subseteq {"SUBSCR", "ACCEPT"}
  /\ faults \in 0 .. MAX_FAULTS
  /\ late \in BOOLEAN /\ promised \in BOOLEAN
  /\ ~ late => Undisturbed
  /\ promised => ~ late /\ Client \in audience

LEMMA ClientTypes ==
  ASSUME ClientInv
  PROVE  /\ state \in [{Server} -> C!server_state]
         /\ since_attempt \in [{Server} -> Nat] /\ since_send \in [{Server} -> Nat]
         /\ response \in [{Server} -> {"none", "ACCEPT", "REJECT"}]
         /\ request \in [{Server} -> C!request_pcs]
         /\ client_recv.pc # "idle" => client_recv.server = Server
         /\ client_recv = [pc |-> client_recv.pc, server |-> client_recv.server]
         /\ not_subscribed.members # {} => not_subscribed.first = Server
         /\ subscribed.members # {} => subscribed.first = Server
         /\ C!MaxAge \in Nat
<1>1. C!TypeOK
  BY UpdaterTypes DEF ClientInv, Updater!PlaceInv, Updater!TypeInv
<1>2. C!MaxAge \in Nat /\ 0 .. C!MaxAge \subseteq Nat
  BY NetAssumption DEF C!MaxAge
<1> QED
  BY <1>1, <1>2 DEF C!TypeOK, C!TypeOfQueue

\* Where the server is for the client, and where it is not then.
LEMMA ClientPlaces ==
  ASSUME ClientInv
  PROVE  /\ request[Server] # "none" =>
              /\ not_subscribed.members = {} /\ subscribed.members = {}
              /\ sub.pc # "popped" /\ upd.pc # "popped"
         /\ Server \in subscribed.members \cup C!Held(upd) =>
              /\ request[Server] = "none" /\ lost = {}
              /\ not_subscribed.members = {} /\ sub.pc # "popped"
         /\ sub.pc \in {"timed", "timeout"} => not_subscribed.members # {}
         /\ upd.pc \in {"timed", "timeout"} => subscribed.members # {}
         /\ upd.pc = "popped" => upd.server = Server
<1>1. C!TypeOK
  BY UpdaterTypes DEF ClientInv, Updater!PlaceInv, Updater!TypeInv
<1>2. /\ not_subscribed.members \subseteq {Server} /\ subscribed.members \subseteq {Server}
      /\ lost \subseteq {Server}
      /\ sub.pc = "popped" => sub.server = Server
      /\ upd.pc = "popped" => upd.server = Server
  BY <1>1 DEF C!TypeOK, C!TypeOfQueue, C!TypeOfThread
<1>3. Updater!OnePlace /\ Updater!SleepMatchesQueue
  BY DEF ClientInv, Updater!PlaceInv, Updater!TypeInv
<1> QED
  BY <1>2, <1>3
  DEF Updater!OnePlace, Updater!SleepMatchesQueue, Updater!Active, Updater!Held, C!Held

\* While a request is under way or the server is in the other queue, the
\* subscription thread has nothing to do.
LEMMA SubscriptionThreadRests ==
  ASSUME ClientInv, C!SubscriptionThread,
         request[Server] # "none" \/ Server \in subscribed.members \cup C!Held(upd)
  PROVE  UNCHANGED <<state, not_connect_count, since_attempt, response, locked, subscribed, upd,
                     request, since_send, client_recv, lost>>
<1>1. not_subscribed.members = {} /\ sub.pc \notin {"popped", "timed", "timeout"}
  BY ClientPlaces
<1> QED
  BY <1>1
  DEF C!SubscriptionThread, C!SubscriptionSleep, C!SubscriptionTimedSleep,
      C!SubscriptionTimeout, C!SubscriptionPop, C!SubscriptionTimeoutPop, C!SubscriptionSpawn,
      C!fields, C!threads, C!network, C!queues

\* Nor has the update thread while a request is under way.
LEMMA UpdateThreadRests ==
  ASSUME ClientInv, C!UpdateThread, request[Server] # "none"
  PROVE  UNCHANGED <<state, not_connect_count, since_attempt, response, locked, subscribed,
                     request, since_send, client_recv, lost>>
<1>1. subscribed.members = {} /\ upd.pc \notin {"popped", "timed", "timeout"}
  BY ClientPlaces
<1> QED
  BY <1>1
  DEF C!UpdateThread, C!UpdateSleep, C!UpdateTimedSleep, C!UpdateTimeout, C!UpdatePop,
      C!UpdateTimeoutPop, C!UpdateSpawn, C!fields, C!threads, C!network, C!queues

LEMMA ServerTypes ==
  ASSUME ServerInv
  PROVE  /\ age \in [{Client} -> Nat]
         /\ clients \in Seq({Client})
         /\ S!Elements(clients) \subseteq {Client}
         /\ recv.pc \in {"found", "missing", "accept"} => recv.client = Client
         /\ main.pc \in {"visit", "expired", "spawn"} => OnList /\ main.node = Client
<1>1. S!TypeOK
  BY TransmitterTypes DEF ServerInv, Transmitter!TypeInv
<1>2. 0 .. S!MaxAge \subseteq Nat
  BY NetAssumption DEF S!MaxAge
<1>3. age \in [{Client} -> Nat] /\ clients \in Seq({Client})
  BY <1>1, <1>2 DEF S!TypeOK
<1>4. S!Elements(clients) \subseteq {Client}
  BY <1>3 DEF S!Elements
<1>5. recv.pc \in {"found", "missing", "accept"} => recv.client = Client
  BY DEF ServerInv, Transmitter!TypeInv, Transmitter!Hands
<1>6. main.pc \in {"visit", "expired", "spawn"} => main.node \in S!Elements(clients)
  BY DEF ServerInv, Transmitter!TypeInv, Transmitter!ListInv, Transmitter!AtNode,
         Transmitter!Elements, S!Elements
<1> QED
  BY <1>3, <1>4, <1>5, <1>6 DEF OnList

-----------------------------------------------------------------------------
(* What each thread does to a request that is not disturbed.               *)

LEMMA ClientRests ==
  ASSUME Undisturbed, main'.pc # "expired",
         UNCHANGED <<state, since_attempt, response, locked, subscribed, upd, request,
                     since_send, client_recv, wire, clients, age, recv>>
  PROVE  Undisturbed'
BY DEF Undisturbed, Asked, Told, Taking, Kept, Fresh, OnList, C!Held

\* The transmitter and the senders touch neither the map nor the ages: nobody
\* in the map is expired, so nobody is removed.
LEMMA SendingDisturbsNothing ==
  ASSUME ServerInv, Undisturbed,
         Load \/ TransmissionThread \/ \E m \in Messages : SenderThread(m)
  PROVE  main'.pc # "expired" /\ UNCHANGED <<clients, age, recv, audience>>
<1> USE DEF S!round, S!sendings, S!Goto, S!At
<1>1. CASE Load
  BY <1>1 DEF Load, S!Load, S!WakeIdle, Undisturbed
<1>2. CASE \E m \in Messages : SenderThread(m)
  BY <1>2
  DEF SenderThread, S!SenderRead, S!SenderPost, S!SenderDone, S!SenderSignal, Undisturbed
<1>3. CASE S!TransmitterVisit
  <2>1. OnList /\ main.node = Client
    BY <1>3, ServerTypes DEF S!TransmitterVisit
  <2>2. ~ S!Expired(main.node)
    BY <2>1, ServerTypes, NetAssumption DEF Undisturbed, S!Expired
  <2> QED
    BY <1>3, <2>2 DEF S!TransmitterVisit
<1>4. CASE S!TransmitterDelete
  BY <1>4 DEF S!TransmitterDelete, Undisturbed
<1>5. CASE \/ S!TransmitterIdle \/ S!TransmitterFirst \/ S!TransmitterDrop
           \/ S!TransmitterSpawn \/ S!TransmitterSleep \/ S!TransmitterPass
           \/ S!TransmitterRetire \/ S!TransmitterFile
  BY <1>5
  DEF S!TransmitterIdle, S!TransmitterFirst, S!TransmitterDrop, S!TransmitterSpawn,
      S!TransmitterSleep, S!TransmitterPass, S!TransmitterRetire, S!TransmitterFile, S!Advance
<1> QED
  BY <1>1, <1>2, <1>3, <1>4, <1>5 DEF TransmissionThread

\* The server takes the request and puts the client in the map, with age 0.
LEMMA ServerTakesIt ==
  ASSUME ServerInv, Undisturbed, S!ReceiveRefresh \/ S!ReceiveAdd,
         UNCHANGED <<client_vars, wire>>
  PROVE  Undisturbed'
<1>1. recv.pc \in {"found", "missing"} /\ recv.client = Client /\ main' = main
  BY ServerTypes DEF S!ReceiveRefresh, S!ReceiveAdd
<1>2. Asked /\ wire = {} /\ (recv.pc = "found" => OnList)
  BY <1>1 DEF Undisturbed, Asked, Told, Taking, Kept
<1>3. Fresh' /\ recv'.pc = "accept"
  <2>1. CASE S!ReceiveRefresh
    <3>1. OnList /\ recv.client = Client
      BY <1>1, <1>2, <2>1 DEF S!ReceiveRefresh
    <3>2. clients' = clients /\ age' = [age EXCEPT ![Client] = 0] /\ recv'.pc = "accept"
      BY <2>1, <3>1 DEF S!ReceiveRefresh, OnList
    <3> QED
      BY <3>1, <3>2, ServerTypes DEF Fresh, OnList
  <2>2. CASE S!ReceiveAdd
    <3>1. /\ clients' = Append(clients, Client) /\ age' = [age EXCEPT ![Client] = 0]
          /\ recv'.pc = "accept"
      BY <1>1, <2>2 DEF S!ReceiveAdd
    <3>2. /\ Len(clients') = Len(clients) + 1 /\ clients'[Len(clients) + 1] = Client
          /\ Len(clients) + 1 \in 1 .. Len(clients')
      BY <3>1, ServerTypes
    <3>3. OnList'
      BY <3>2 DEF OnList, S!Elements
    <3> QED
      BY <3>1, <3>3, ServerTypes DEF Fresh
  <2> QED
    BY <2>1, <2>2
<1>4. UNCHANGED <<request, since_send, state, client_recv, locked>>
  BY DEF client_vars
<1>5. Asked'
  BY <1>2, <1>3, <1>4 DEF Asked
<1> QED
  BY <1>1, <1>3, <1>5, NetAssumption DEF Undisturbed, Fresh

LEMMA ServerHearsIt ==
  ASSUME ServerInv, Undisturbed, S!ReceiveFind(Client), "SUBSCR" \in wire,
         wire' = wire \ {"SUBSCR"}, UNCHANGED client_vars
  PROVE  Undisturbed'
<1>1. Asked /\ wire = {"SUBSCR"} /\ recv.pc = "idle"
  BY DEF Undisturbed, Asked, Told, Taking, Kept
<1>2. /\ wire' = {} /\ UNCHANGED <<clients, age, main>>
      /\ recv'.pc = IF OnList THEN "found" ELSE "missing"
  BY <1>1 DEF S!ReceiveFind, OnList
<1>3. Asked'
  BY <1>1, <1>2 DEF Asked, Fresh, OnList, client_vars
<1> QED
  BY <1>2, <1>3 DEF Undisturbed, OnList

LEMMA ServerAnswersIt ==
  ASSUME ServerInv, Undisturbed, S!ReceiveAnswer, wire' = wire \cup {"ACCEPT"},
         UNCHANGED client_vars
  PROVE  Undisturbed'
<1>1. Asked /\ wire = {} /\ Fresh
  BY DEF S!ReceiveAnswer, Undisturbed, Asked, Told, Taking, Kept
<1>2. wire' = {"ACCEPT"} /\ recv'.pc = "idle" /\ UNCHANGED <<clients, age, main>>
  BY <1>1 DEF S!ReceiveAnswer
<1>3. Asked'
  BY <1>1, <1>2 DEF Asked, Fresh, OnList, client_vars
<1> QED
  BY <1>2, <1>3 DEF Undisturbed, OnList

LEMMA ClientHearsIt ==
  ASSUME ClientInv, Undisturbed, C!ReceiveBegin(Server, "ACCEPT"), "ACCEPT" \in wire,
         wire' = wire \ {"ACCEPT"}, UNCHANGED server_vars
  PROVE  Undisturbed'
<1>1. Asked /\ wire = {"ACCEPT"} /\ recv.pc = "idle" /\ Fresh
  BY DEF Undisturbed, Asked, Told, Taking, Kept
<1>2. request[Server] \in {"await", "asleep"} /\ since_send[Server] = 0
  BY <1>1 DEF Asked, C!ReceiveBegin
<1>3. /\ wire' = {} /\ Server \in locked' /\ client_recv'.pc = "writing"
      /\ response'[Server] = "ACCEPT" /\ UNCHANGED <<request, since_send>>
  BY <1>1, ClientTypes DEF C!ReceiveBegin, C!threads
<1>4. UNCHANGED <<recv, clients, age, main>>
  BY DEF server_vars
<1>5. Told'
  BY <1>1, <1>2, <1>3, <1>4 DEF Told, Fresh, OnList
<1> QED
  BY <1>4, <1>5 DEF Undisturbed, OnList

\* While time passes unnoticed, only a kept subscription is there, and its
\* refresh is not due yet.
LEMMA TimePasses ==
  ASSUME ClientInv, ServerInv, Undisturbed, C!Tick, S!Tick, ~ UnderWay, UNCHANGED wire
  PROVE  Undisturbed'
<1>1. Kept /\ Server \in subscribed.members /\ since_attempt[Server] < SUBSCR_EXPIRE_TIME
  <2>1. since_attempt[Server] \in Nat
    BY ClientTypes
  <2> QED
    BY <2>1, NetAssumption DEF UnderWay, Undisturbed, Asked, Told, Taking, Kept
<1>2. /\ since_attempt[Server] \in Nat /\ age[Client] \in Nat
      /\ age[Client] <= since_attempt[Server]
  BY <1>1, ClientTypes, ServerTypes DEF Kept
<1>3. since_attempt'[Server] = since_attempt[Server] + 1
  BY <1>1, <1>2, NetAssumption DEF C!Tick, C!Older, C!MaxAge
<1>4. age'[Client] = age[Client] + 1
  BY <1>1, <1>2, NetAssumption DEF S!Tick, S!MaxAge
<1>5. UNCHANGED <<state, subscribed, upd, request, client_recv, recv, clients, main>>
  BY DEF C!Tick, S!Tick, C!queues, C!network
<1>6. Kept'
  BY <1>1, <1>2, <1>3, <1>4, <1>5 DEF Kept, OnList, C!Held
<1>7. age'[Client] <= SUBSCR_EXPIRE_TIME
  BY <1>1, <1>2, <1>4, NetAssumption
<1> QED
  BY <1>5, <1>6, <1>7 DEF Undisturbed

\* The threads of the client, but for the receiver and for sending.
LEMMA ClientUpdates ==
  ASSUME ClientInv, Undisturbed, C!SubscriptionThread \/ C!UpdateThread, lost' = lost,
         UNCHANGED <<server_vars, wire>>
  PROVE  Undisturbed'
<1>1. UNCHANGED <<recv, clients, age, main>> /\ main.pc # "expired"
  BY DEF server_vars, Undisturbed
<1>2. request[Server] # "none" \/ Server \in subscribed.members \cup C!Held(upd)
  BY DEF Undisturbed, Asked, Told, Taking, Kept
<1>3. CASE C!SubscriptionThread
  BY <1>1, <1>2, <1>3, SubscriptionThreadRests, ClientRests
<1>4. CASE C!UpdateThread /\ request[Server] # "none"
  <2>1. UNCHANGED <<state, since_attempt, response, locked, subscribed, request, since_send,
                    client_recv>>
    BY <1>4, UpdateThreadRests
  <2>2. upd.pc # "popped" /\ Server \notin subscribed.members
    BY <1>4, ClientPlaces
  <2>3. Kept => Kept'
    BY <1>1, <2>1, <2>2 DEF Kept, OnList, C!Held
  <2> QED
    BY <1>1, <2>1, <2>3 DEF Undisturbed, Asked, Told, Taking, Fresh, OnList
<1>5. CASE C!UpdateThread /\ request[Server] = "none"
  <2>1. Kept
    BY <1>5 DEF Undisturbed, Asked, Told, Taking
  <2>2. Server \in subscribed.members \cup C!Held(upd) /\ lost = {}
    BY <1>5, <2>1, ClientPlaces DEF Kept
  <2>3. UNCHANGED <<state, since_attempt, client_recv>>
    BY <1>5
    DEF C!UpdateThread, C!UpdateSleep, C!UpdateTimedSleep, C!UpdateTimeout, C!UpdatePop,
        C!UpdateTimeoutPop, C!UpdateSpawn, C!TakeSubscribed, C!CreateRequestThread, C!fields,
        C!network
  <2>4. Server \in (subscribed.members \cup C!Held(upd))' \/ request'[Server] = "send"
    <3>1. CASE C!UpdateSleep \/ C!UpdateTimedSleep \/ C!UpdateTimeout
      BY <2>2, <3>1
      DEF C!UpdateSleep, C!UpdateTimedSleep, C!UpdateTimeout, C!queues, C!Held
    <3>2. CASE C!UpdatePop \/ C!UpdateTimeoutPop
      <4>1. subscribed.members # {}
        BY <3>2, ClientPlaces DEF C!UpdatePop, C!UpdateTimeoutPop
      <4>2. upd' = [pc |-> "popped", server |-> Server]
        BY <3>2, <4>1, ClientTypes DEF C!UpdatePop, C!UpdateTimeoutPop, C!TakeSubscribed
      <4> QED
        BY <4>2 DEF C!Held
    <3>3. CASE C!UpdateSpawn
      <4>1. upd.server = Server /\ lost' # lost \cup {Server}
        BY <2>2, <3>3, ClientPlaces DEF C!UpdateSpawn
      <4>2. request' = [request EXCEPT ![Server] = "send"]
        BY <3>3, <4>1 DEF C!UpdateSpawn, C!CreateRequestThread
      <4> QED
        BY <4>2, ClientTypes
    <3> QED
      BY <1>5, <3>1, <3>2, <3>3 DEF C!UpdateThread
  <2>5. Kept'
    BY <1>1, <2>1, <2>3, <2>4 DEF Kept, OnList
  <2> QED
    BY <1>1, <2>5 DEF Undisturbed, OnList
<1> QED
  BY <1>3, <1>4, <1>5

LEMMA ClientReceives ==
  ASSUME ClientInv, Undisturbed, C!ReceiveStore \/ C!ReceiveEnd,
         UNCHANGED <<server_vars, wire>>
  PROVE  Undisturbed'
<1>1. UNCHANGED <<recv, clients, age, main>>
  BY DEF server_vars
<1>2. Told
  BY DEF C!ReceiveStore, C!ReceiveEnd, Undisturbed, Asked, Taking, Kept
<1>3. CASE C!ReceiveStore
  <2>1. client_recv.server = Server /\ request[Server] \in {"await", "asleep"}
    BY <1>2, <1>3, ClientTypes DEF C!ReceiveStore, Told
  <2>2. client_recv'.pc = "stored" /\ state'[Server] = "RESP"
    BY <1>3, <2>1, ClientTypes DEF C!ReceiveStore
  <2>3. request'[Server] = "await"
    BY <1>3, <2>1 DEF C!ReceiveStore, C!WokenRequests
  <2>4. Told'
    BY <1>1, <1>2, <1>3, <2>2, <2>3 DEF C!ReceiveStore, Told, Fresh, OnList
  <2> QED
    BY <1>1, <2>4 DEF Undisturbed, OnList
<1>4. CASE C!ReceiveEnd
  <2>1. client_recv'.pc = "idle" /\ UNCHANGED <<state, response, request>>
    BY <1>4 DEF C!ReceiveEnd, C!fields, C!threads
  <2>2. Taking'
    BY <1>1, <1>2, <1>4, <2>1 DEF C!ReceiveEnd, Told, Taking, Fresh, OnList
  <2> QED
    BY <1>1, <2>2 DEF Undisturbed, OnList
<1> QED
  BY <1>3, <1>4

LEMMA RequestGoesOn ==
  ASSUME ClientInv, Undisturbed, RequestThread \/ RequestTimeout,
         UNCHANGED <<server_vars, wire>>
  PROVE  Undisturbed'
<1>1. UNCHANGED <<recv, clients, age, main>> /\ main.pc # "expired"
  BY DEF server_vars, Undisturbed
<1> USE DEF C!fields, C!queues, C!threads, C!network
<1>2. ASSUME Asked' \/ Told' \/ Taking' \/ Kept'
      PROVE  Undisturbed'
  BY <1>1, <1>2 DEF Undisturbed, OnList
<1>3. CASE C!RequestPost
  BY <1>1, <1>3, ClientRests DEF C!RequestPost
<1>4. Kept => request[Server] \in {"none", "send"}
  BY ClientPlaces DEF Kept
<1>5. CASE C!RequestMustWait(Server)
  <2>1. Asked
    BY <1>4, <1>5 DEF C!RequestMustWait, Undisturbed, Told, Taking
  <2>2. request'[Server] = "must_wait" /\ Server \in locked'
    BY <1>5, ClientTypes DEF C!RequestMustWait
  <2>3. Asked'
    BY <1>1, <1>5, <2>1, <2>2 DEF C!RequestMustWait, Asked, Fresh, OnList
  <2> QED
    BY <1>2, <2>3
<1>6. CASE C!RequestSleep(Server)
  <2>1. Asked
    BY <1>4, <1>6 DEF C!RequestSleep, Undisturbed, Told, Taking
  <2>2. request'[Server] = "asleep"
    BY <1>6, ClientTypes DEF C!RequestSleep
  <2>3. Asked'
    BY <1>1, <1>6, <2>1, <2>2 DEF C!RequestSleep, Asked, Fresh, OnList
  <2> QED
    BY <1>2, <2>3
<1>7. CASE C!RequestAnswered(Server)
  <2>1. Taking /\ response[Server] = "ACCEPT"
    BY <1>4, <1>7 DEF C!RequestAnswered, Undisturbed, Asked, Told, Taking
  <2>2. request'[Server] = "answered"
    BY <1>7, ClientTypes DEF C!RequestAnswered
  <2>3. Taking'
    BY <1>1, <1>7, <2>1, <2>2 DEF C!RequestAnswered, Taking, Fresh, OnList
  <2> QED
    BY <1>2, <2>3
<1>8. ~ C!RequestTimeout(Server) /\ ~ C!RequestMissed(Server)
  <2>1. request[Server] # "timeout"
    BY <1>4 DEF Undisturbed, Asked, Told, Taking
  <2>2. request[Server] = "asleep" => since_send[Server] = 0
    BY <1>4 DEF Undisturbed, Asked, Told, Taking
  <2> QED
    BY <2>1, <2>2, NetAssumption DEF C!RequestTimeout, C!RequestMissed
<1>9. CASE C!RequestParseBegin(Server)
  <2>1. Taking /\ response[Server] = "ACCEPT"
    BY <1>4, <1>9 DEF C!RequestParseBegin, Undisturbed, Asked, Told, Taking
  <2>2. request'[Server] = "parsing"
    BY <1>9, ClientTypes DEF C!RequestParseBegin
  <2>3. Taking'
    BY <1>1, <1>9, <2>1, <2>2 DEF C!RequestParseBegin, Taking, Fresh, OnList
  <2> QED
    BY <1>2, <2>3
<1>10. CASE C!RequestParseEnd(Server)
  <2>1. Taking /\ response[Server] = "ACCEPT"
    BY <1>4, <1>10 DEF C!RequestParseEnd, Undisturbed, Asked, Told, Taking
  <2>2. request'[Server] = "requeue" /\ state'[Server] = "SUBSCR"
    BY <1>10, <2>1, ClientTypes DEF C!RequestParseEnd
  <2>3. Taking'
    BY <1>1, <1>10, <2>1, <2>2 DEF C!RequestParseEnd, Taking, Fresh, OnList
  <2> QED
    BY <1>2, <2>3
<1>11. CASE C!RequestChoose(Server)
  <2>1. Taking /\ state[Server] = "SUBSCR"
    BY <1>4, <1>11 DEF C!RequestChoose, Undisturbed, Asked, Told, Taking
  <2>2. request'[Server] = "to_subscribed"
    BY <1>11, <2>1, ClientTypes DEF C!RequestChoose
  <2>3. Taking'
    BY <1>1, <1>11, <2>1, <2>2 DEF C!RequestChoose, Taking, Fresh, OnList
  <2> QED
    BY <1>2, <2>3
<1>12. CASE C!RequestToSubscribed(Server)
  <2>1. Taking /\ state[Server] = "SUBSCR"
    BY <1>4, <1>12 DEF C!RequestToSubscribed, Undisturbed, Asked, Told, Taking
  <2>2. Server \in subscribed'.members
    BY <1>12 DEF C!RequestToSubscribed, C!Push
  <2>3. Kept'
    BY <1>1, <1>12, <2>1, <2>2, ClientTypes
    DEF C!RequestToSubscribed, Taking, Kept, Fresh, OnList
  <2> QED
    BY <1>2, <2>3
<1>13. ~ C!RequestToNotSubscribed(Server)
  BY <1>4 DEF C!RequestToNotSubscribed, Undisturbed, Asked, Told, Taking
<1> QED
  BY <1>3, <1>5, <1>6, <1>7, <1>8, <1>9, <1>10, <1>11, <1>12, <1>13
  DEF RequestThread, RequestTimeout

\* A request that starts clean is not disturbed yet.
LEMMA RequestStarts ==
  ASSUME ClientInv, ServerInv, C!RequestSend(Server), CleanStart,
         wire' = wire \cup {"SUBSCR"}, UNCHANGED server_vars
  PROVE  Undisturbed'
<1>1. /\ wire' = {"SUBSCR"} /\ state[Server] # "RESP"
      /\ recv.pc = "idle" /\ client_recv.pc = "idle"
      /\ OnList => ~ S!Expired(Client) /\ main.pc # "expired"
  BY DEF CleanStart, OnList
<1>2. UNCHANGED <<recv, clients, age, main>>
  BY DEF server_vars
<1>3. main.pc # "expired"
  BY <1>1, ServerTypes
<1>4. OnList => age[Client] <= SUBSCR_EXPIRE_TIME
  BY <1>1, ServerTypes, NetAssumption DEF S!Expired
<1>5. request'[Server] = "await" /\ since_send'[Server] = 0
  BY ClientTypes DEF C!RequestSend
<1>6. Asked'
  BY <1>1, <1>2, <1>5 DEF C!RequestSend, C!fields, Asked
<1> QED
  BY <1>2, <1>3, <1>4, <1>6 DEF Undisturbed, OnList

-----------------------------------------------------------------------------
(* The invariant of StreamNet.                                             *)

LEMMA NetInvInit == Init => NetInv
<1> SUFFICES ASSUME Init PROVE NetInv
  OBVIOUS
<1>1. wire = {} /\ faults \in 0 .. MAX_FAULTS
  BY NetAssumption DEF Init
<1>2. late /\ late \in BOOLEAN /\ ~ promised /\ promised \in BOOLEAN
  BY Zenon DEF Init
<1> QED
  BY <1>1, <1>2 DEF NetInv

LEMMA ChangedOnlyByFaults ==
  ASSUME NetInv, [Next]_vars
  PROVE  /\ wire' \subseteq {"SUBSCR", "ACCEPT"}
         /\ faults' \in 0 .. MAX_FAULTS
         /\ late' \in BOOLEAN /\ promised' \in BOOLEAN
         /\ \/ Late
            \/ UNCHANGED <<late, promised>>
            \/ RoundBegins
            \/ ClientSends /\ CleanStart /\ UNCHANGED promised
<1>1. ASSUME Fault PROVE faults' \in 0 .. MAX_FAULTS /\ Late
  BY <1>1, NetAssumption DEF Fault, NetInv
<1> DEFINE Kinds == wire' \subseteq {"SUBSCR", "ACCEPT"}
<1>2. ASSUME NEW d, Taken(d) PROVE Kinds /\ (Smooth \/ Fault)
  BY <1>2 DEF Taken, NetInv
<1>3. CASE ClientAlone \/ ServerAlone \/ Tick
  <2>1. UNCHANGED wire /\ (Smooth \/ Fault)
    BY <1>3
    DEF ClientAlone, SubscriptionThread, UpdateThread, RequestThread, RequestTimeout,
        ClientReceiveThread, ClientStep, ServerAlone, Load, TransmissionThread, SenderThread,
        RequestControlThread, ServerStep, Tick
  <2> QED
    BY <1>1, <2>1 DEF Smooth, Late, NetInv
<1>4. CASE ServerCrashes \/ RoundBegins
  BY <1>4 DEF ServerCrashes, RoundBegins, Late, NetInv, Subscribed
<1>5. CASE ClientSends
  BY <1>5 DEF ClientSends, Late, NetInv
<1>6. CASE ClientSendFails \/ ServerRestart
  BY <1>1, <1>6 DEF ClientSendFails, ServerRestart, Late, NetInv
<1>7. CASE ServerHears \/ ClientHears
  <2>1. Kinds /\ (Smooth \/ Fault)
    BY <1>2, <1>7 DEF ServerHears, ClientHears
  <2> QED
    BY <1>1, <2>1 DEF Smooth, Late, NetInv
<1>8. CASE ServerAnswers
  <2>1. Kinds /\ (Smooth \/ Fault)
    BY <1>8 DEF ServerAnswers, NetInv
  <2> QED
    BY <1>1, <2>1 DEF Smooth, Late, NetInv
<1>9. CASE \E d \in wire : Lose(d)
  <2>1. Kinds
    BY <1>9 DEF Lose, NetInv
  <2>2. Fault \/ (Late /\ UNCHANGED faults)
    BY <1>9 DEF Lose
  <2> QED
    BY <1>1, <2>1, <2>2 DEF Late, NetInv
<1>10. CASE UNCHANGED vars
  BY <1>10 DEF vars, net_vars, NetInv
<1> QED
  BY <1>3, <1>4, <1>5, <1>6, <1>7, <1>8, <1>9, <1>10 DEF Next

LEMMA UndisturbedStep ==
  ASSUME ClientInv, ServerInv, NetInv, [Next]_vars, ~ late, ~ late'
  PROVE  Undisturbed' /\ (UNCHANGED audience \/ RoundBegins)
<1>1. Undisturbed
  BY DEF NetInv
<1>2. ~ Fault /\ ~ Late
  BY DEF Fault, Late
<1>3. CASE ClientAlone
  <2>1. lost' = lost /\ UNCHANGED <<server_vars, wire>>
    BY <1>2, <1>3
    DEF ClientAlone, SubscriptionThread, UpdateThread, RequestThread, RequestTimeout,
        ClientReceiveThread, ClientStep
  <2>2. UNCHANGED audience
    BY <2>1 DEF server_vars
  <2>3. CASE SubscriptionThread \/ UpdateThread
    BY <1>1, <2>1, <2>2, <2>3, ClientUpdates DEF SubscriptionThread, UpdateThread
  <2>4. CASE ClientReceiveThread
    BY <1>1, <2>1, <2>2, <2>4, ClientReceives DEF ClientReceiveThread
  <2>5. CASE RequestThread \/ RequestTimeout
    BY <1>1, <2>1, <2>2, <2>5, RequestGoesOn
  <2> QED
    BY <1>3, <2>3, <2>4, <2>5 DEF ClientAlone
<1>4. CASE ServerAlone
  <2>1. UNCHANGED <<client_vars, wire>>
    BY <1>4
    DEF ServerAlone, Load, TransmissionThread, SenderThread, RequestControlThread, ServerStep
  <2>2. CASE Load \/ TransmissionThread \/ \E m \in Messages : SenderThread(m)
    <3>1. main'.pc # "expired" /\ UNCHANGED <<clients, age, recv, audience>>
      BY <1>1, <2>2, SendingDisturbsNothing
    <3> QED
      BY <1>1, <2>1, <3>1, ClientRests DEF client_vars
  <2>3. CASE RequestControlThread
    <3>1. S!ReceiveRefresh \/ S!ReceiveAdd
      BY <2>3 DEF RequestControlThread
    <3>2. UNCHANGED audience
      BY <3>1 DEF S!ReceiveRefresh, S!ReceiveAdd, S!round
    <3> QED
      BY <1>1, <2>1, <3>1, <3>2, ServerTakesIt
  <2> QED
    BY <1>4, <2>2, <2>3 DEF ServerAlone
<1>5. CASE RoundBegins
  <2>1. /\ UNCHANGED <<client_vars, wire, clients, age, recv>>
        /\ main'.pc # "expired"
    BY <1>5 DEF RoundBegins, S!TransmitterCount, S!Goto, S!At
  <2> QED
    BY <1>1, <1>5, <2>1, ClientRests DEF client_vars
<1>6. CASE ClientSends
  <2>1. CleanStart /\ UNCHANGED audience
    BY <1>2, <1>6 DEF ClientSends, server_vars
  <2> QED
    BY <1>6, <2>1, RequestStarts DEF ClientSends
<1>7. CASE ServerHears
  <2>1. "SUBSCR" \in wire /\ wire' = wire \ {"SUBSCR"}
    BY <1>2, <1>7 DEF ServerHears, Taken
  <2> QED
    BY <1>1, <1>7, <2>1, ServerHearsIt DEF ServerHears, S!ReceiveFind, S!round
<1>8. CASE ServerAnswers
  <2>1. wire' = wire \cup {"ACCEPT"}
    BY <1>2, <1>8 DEF ServerAnswers
  <2> QED
    BY <1>1, <1>8, <2>1, ServerAnswersIt DEF ServerAnswers, S!ReceiveAnswer, S!round
<1>9. CASE ClientHears
  <2>1. "ACCEPT" \in wire /\ wire' = wire \ {"ACCEPT"}
    BY <1>2, <1>9 DEF ClientHears, Taken
  <2> QED
    BY <1>1, <1>9, <2>1, ClientHearsIt DEF ClientHears, server_vars
<1>10. CASE Tick
  BY <1>1, <1>2, <1>10, TimePasses DEF Tick, S!Tick, S!round
<1>11. CASE UNCHANGED vars
  BY <1>1, <1>11, ClientRests DEF vars, client_vars, server_vars, net_vars, Undisturbed
<1>12. ~ (ServerCrashes \/ ClientSendFails \/ ServerRestart \/ \E d \in wire : Lose(d))
  BY <1>2 DEF ServerCrashes, ClientSendFails, ServerRestart, Lose
<1> QED
  BY <1>3, <1>4, <1>5, <1>6, <1>7, <1>8, <1>9, <1>10, <1>11, <1>12 DEF Next

LEMMA NetInvStep == ClientInv /\ ServerInv /\ NetInv /\ [Next]_vars => NetInv'
<1> SUFFICES ASSUME ClientInv, ServerInv, NetInv, [Next]_vars PROVE NetInv'
  OBVIOUS
<1>1. ASSUME ~ late' PROVE Undisturbed'
  <2>1. CASE late
    <3>1. ClientSends /\ CleanStart
      BY <1>1, <2>1, ChangedOnlyByFaults DEF Late, RoundBegins
    <3> QED
      BY <3>1, RequestStarts DEF ClientSends
  <2>2. CASE ~ late
    BY <1>1, <2>2, UndisturbedStep
  <2> QED
    BY <2>1, <2>2 DEF NetInv
<1>2. ASSUME promised' PROVE ~ late' /\ Client \in audience'
  <2>1. ~ Late
    BY <1>2 DEF Late
  <2>2. CASE RoundBegins
    <3>1. ~ late /\ ~ late' /\ Subscribed
      BY <1>2, <2>2 DEF RoundBegins, NetInv
    <3>2. Undisturbed /\ Server \in subscribed.members
      BY <3>1 DEF NetInv, Subscribed
    <3>3. OnList
      BY <3>2, ClientPlaces DEF Undisturbed, Asked, Told, Taking, Kept, Fresh
    <3> QED
      BY <2>2, <3>1, <3>3 DEF RoundBegins, S!TransmitterCount, OnList
  <2>3. CASE ~ RoundBegins
    <3>1. promised /\ ~ late /\ ~ late' /\ Client \in audience
      BY <1>2, <2>1, <2>3, ChangedOnlyByFaults DEF NetInv, ClientSends
    <3> QED
      BY <2>3, <3>1, UndisturbedStep
  <2> QED
    BY <2>2, <2>3
<1> QED
  BY <1>1, <1>2, ChangedOnlyByFaults DEF NetInv

LEMMA Always == Spec => [](ClientInv /\ ServerInv /\ NetInv)
<1> QED
  BY ClientInvInit, ServerInvInit, NetInvInit, ClientInvStep, ServerInvStep, NetInvStep, PTL
  DEF Spec

-----------------------------------------------------------------------------
\* Beside a server and a network that fails, the client does what ClientUpdater
\* says: so all that was proved of the updater alone holds here.
THEOREM ImplementsUpdater == Spec => C!Spec
<1>1. Init => C!Init
  BY DEF Init
<1> QED
  BY <1>1, ClientSees, PTL DEF Spec, C!Spec

\* And the server does what ServerTransmitter says, between two starts of it.
THEOREM ImplementsTransmitter ==
  Spec => S!Init /\ [][S!Next \/ ServerRestart]_(S!vars)
<1>1. Init => S!Init
  BY DEF Init
<1>2. [Next]_vars => [S!Next \/ ServerRestart]_(S!vars)
  BY ServerSees
<1> QED
  BY <1>1, <1>2, PTL DEF Spec

\* A server ends by itself, on the null pointer of an empty queue, only after
\* some round met a client it had not counted, however often it was started.
THEOREM CrashOnlyAfterSurplus == Spec => [](main.pc = "dead" => surplus)
<1>1. ServerInv => (main.pc = "dead" => surplus)
  BY DEF ServerInv, Transmitter!RoundInv, Transmitter!RoundFacts
<1> QED
  BY <1>1, Always, PTL

\* The client's and the server's variables keep their types beside each other,
\* whatever the network does and however often the server is started again.
THEOREM TypeCorrect == Spec => []TypeOK
<1>1. ClientInv /\ ServerInv /\ NetInv => TypeOK
  BY UpdaterTypes, TransmitterTypes
  DEF ClientInv, Updater!PlaceInv, Updater!TypeInv, ServerInv, Transmitter!TypeInv, NetInv,
      TypeOK
<1> QED
  BY <1>1, Always, PTL

\* A client whose last request was not disturbed, and that holds itself to be
\* subscribed, is in the server's map and not expired there, for any expiry
\* time and any timeout of at least a second: the refresh comes in time.
THEOREM SubscriptionStays == Spec => []StaysSubscribed
<1>1. ClientInv /\ ServerInv /\ NetInv => StaysSubscribed
  <2> SUFFICES ASSUME ClientInv, ServerInv, NetInv, ~ late, Subscribed
               PROVE  OnList /\ ~ S!Expired(Client)
    BY DEF StaysSubscribed, OnList
  <2>1. Undisturbed /\ Server \in subscribed.members
    BY DEF NetInv, Subscribed
  <2>2. Kept
    BY <2>1, ClientPlaces DEF Undisturbed, Asked, Told, Taking
  <2> QED
    BY <2>1, <2>2, ServerTypes, NetAssumption DEF Undisturbed, Kept, S!Expired
<1> QED
  BY <1>1, Always, PTL

\* A message whose round began while the client was so subscribed has been sent
\* to it when the round is over, unless an earlier round met a client it had
\* not counted.
THEOREM SubscriberIsServed == Spec => []SubscriberServed
<1>1. ClientInv /\ ServerInv /\ NetInv => SubscriberServed
  <2> SUFFICES ASSUME ServerInv, NetInv, promised, ~ surplus, main.pc = "retire"
               PROVE  sender[Head(queue)][Client] \in {"signal", "end"}
    BY DEF SubscriberServed
  <2>1. Client \in audience
    BY DEF NetInv
  <2>2. S!AudienceServed
    BY TransmitterAssumed, Transmitter!ServedInRound, TransmitterServed DEF ServerInv
  <2> QED
    BY <2>1, <2>2 DEF S!AudienceServed
<1> QED
  BY <1>1, Always, PTL
=============================================================================
