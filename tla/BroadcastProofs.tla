--------------------------- MODULE BroadcastProofs ---------------------------
(* ServerTransmitter implements Broadcast, for any clients, messages and     *)
(* limits.                                                                   *)
EXTENDS ServerTransmitterProofs

(***************************************************************************)
(* The audience of a round: whoever it still comes to, has in hand or has  *)
(* started a sender for was counted and not removed.                       *)
(***************************************************************************)

AudienceFacts ==
  InRound =>
    /\ due \subseteq audience
    /\ main.pc \in {"expired", "spawn"} => main.node \in audience \ due
    /\ \A c \in Clients : Started(Head(queue), c) => c \in audience

AudienceInv == ~ surplus => AudienceFacts

LEMMA SurplusStays == TypeInv /\ [Next]_vars /\ ~ surplus' => ~ surplus
  BY DEF Next, Load, TransmissionThread, TransmitterIdle, TransmitterCount, TransmitterFirst,
         TransmitterVisit, TransmitterDelete, TransmitterDrop, TransmitterSpawn,
         TransmitterSleep, TransmitterPass, TransmitterRetire, TransmitterFile, SenderThread,
         SenderRead, SenderCrash, SenderPost, SenderDone, SenderSignal, RequestControlThread,
         ReceiveFind, ReceiveRefresh, ReceiveAdd, ReceiveAnswer, Tick, vars, round, TypeInv, TypeOK

\* Where the round goes on with the same clients, and no sender is started.
LEMMA AudienceFrame ==
  ASSUME AudienceFacts, TypeInv, UNCHANGED <<queue, due, audience>>,
         InRound' => InRound,
         main'.pc \in {"expired", "spawn"} =>
           main.pc \in {"expired", "spawn"} /\ main'.node = main.node,
         \A m \in Messages, c \in Clients : Started(m, c)' => Started(m, c)
  PROVE  AudienceFacts'
<1>1. InRound => Head(queue) \in Messages
  BY HeadIs
<1> QED
  BY <1>1 DEF AudienceFacts

LEMMA AudienceTransmitter ==
  ASSUME TypeInv, OrderInv, AudienceFacts, TransmissionThread, ~ surplus', main.pc # "dead"
  PROVE  AudienceFacts'
<1> USE DEF round, sendings
<1>1. CASE \/ TransmitterIdle \/ TransmitterFirst \/ TransmitterDrop \/ TransmitterSleep
           \/ TransmitterPass
  <2>1. /\ UNCHANGED <<queue, due, audience, sender, unspawned>>
        /\ main.pc = "lock" => main'.pc = "idle"
        /\ main'.pc \notin {"expired", "spawn"} /\ main.pc # "file"
    BY <1>1
    DEF TransmitterIdle, TransmitterFirst, TransmitterDrop, TransmitterSleep, TransmitterPass,
        Goto, Advance, At
  <2>2. InRound' => InRound
    BY <1>1
    DEF TransmitterIdle, TransmitterFirst, TransmitterDrop, TransmitterSleep, TransmitterPass,
        Goto, Advance, At, InRound, QueueFree
  <2> QED
    BY <2>1, <2>2, AudienceFrame DEF Started
<1>2. CASE TransmitterCount
  <2>1. /\ main.pc = "lock" /\ main'.pc = "first"
        /\ due' = Elements(clients) /\ audience' = Elements(clients)
        /\ UNCHANGED <<queue, sent, sender, unspawned>> /\ main'.message = main.message
        /\ queue # <<>>
    BY <1>2 DEF TransmitterCount, Goto, At
  <2>2. OrderInv'
    BY <1>2, OrderTransmitter DEF TransmissionThread
  <2>3. \A c \in Clients : ~ Started(Head(queue), c)'
    BY <2>1, <2>2 DEF OrderInv, StartedOnce
  <2> QED
    BY <2>1, <2>3 DEF AudienceFacts
<1>3. CASE TransmitterVisit
  <2>1. /\ main.pc = "visit" /\ main'.node = main.node /\ main'.pc \in {"expired", "spawn"}
        /\ due' = due \ {main.node} /\ audience' = audience
        /\ UNCHANGED <<queue, sender, unspawned>> /\ main.node \in due
    BY <1>3 DEF TransmitterVisit, Goto, At
  <2>2. InRound
    BY <2>1 DEF InRound, QueueFree
  <2> QED
    BY <2>1, <2>2 DEF AudienceFacts, Started
<1>4. CASE TransmitterDelete
  <2>1. /\ main.pc = "expired" /\ main'.pc = "drop"
        /\ due' = due /\ audience' = audience \ {main.node}
        /\ UNCHANGED <<queue, sender, unspawned>>
    BY <1>4 DEF TransmitterDelete, Goto, At
  <2>2. InRound /\ main.node \in Elements(clients) /\ AtNode
    BY <2>1 DEF InRound, QueueFree, AtNode, TypeInv, ListInv
  <2>3. ~ Started(Head(queue), main.node)
    <3>1. Ahead(main.node)
      BY <2>2 DEF OrderInv, StartedOnce
    <3>2. PICK i \in 1 .. Len(clients) : clients[i] = main.node
      BY <2>2 DEF Elements
    <3>3. Len(clients) \in Nat
      BY DEF TypeInv, TypeOK
    <3> QED
      BY <3>1, <3>2, <3>3 DEF Ahead
  <2> QED
    BY <2>1, <2>2, <2>3 DEF AudienceFacts, Started
<1>5. CASE TransmitterSpawn
  <2>1. /\ main.pc = "spawn" /\ main'.pc \notin {"expired", "spawn"}
        /\ UNCHANGED <<queue, due, audience>>
    BY <1>5 DEF TransmitterSpawn, Advance, At
  <2>2. /\ Head(queue) \in Messages /\ main.node \in Clients /\ InRound
        /\ \A m \in Messages, c \in Clients :
             Started(m, c)' <=> Started(m, c) \/ (m = Head(queue) /\ c = main.node)
    BY <1>5, SpawnStarts
  <2>3. main.node \in audience
    BY <2>1, <2>2 DEF AudienceFacts
  <2> QED
    BY <2>1, <2>2, <2>3 DEF AudienceFacts
<1>6. CASE TransmitterRetire \/ TransmitterFile
  <2>1. ~ InRound'
    BY <1>6 DEF TransmitterRetire, TransmitterFile, InRound, QueueFree
  <2> QED
    BY <2>1 DEF AudienceFacts
<1> QED
  BY <1>1, <1>2, <1>3, <1>4, <1>5, <1>6 DEF TransmissionThread

LEMMA AudienceStep == TypeInv /\ OrderInv /\ RoundInv /\ AudienceInv /\ [Next]_vars => AudienceInv'
<1> SUFFICES ASSUME TypeInv, OrderInv, RoundInv, AudienceInv, [Next]_vars, ~ surplus'
             PROVE  AudienceFacts'
    BY DEF AudienceInv
<1>1. RoundFacts /\ AudienceFacts /\ main.pc # "dead"
  BY SurplusStays DEF RoundInv, RoundFacts, AudienceInv
<1>2. ASSUME NEW m \in Messages, Load(m)
      PROVE  AudienceFacts'
  BY <1>2 DEF Load, WakeIdle, Goto, At, QueueFree, InRound, AudienceFacts
<1>3. ASSUME NEW m \in Messages, NEW c \in Clients, SenderThread(m, c)
      PROVE  AudienceFacts'
  <2>1. ~ SenderCrash(m, c)
    BY <1>1, SenderOfRound DEF SenderCrash, Elements, TypeInv, TypeOK
  <2>2. /\ UNCHANGED <<queue, unspawned>>
        /\ \/ main' = main
           \/ main.pc = "asleep" /\ main' = At("barrier", main.node, main.tmp)
        /\ sender[m][c] \in {"start", "sending", "posted", "signal"}
        /\ \A n \in Messages, d \in Clients : n # m \/ d # c => sender'[n][d] = sender[n][d]
    BY <1>3, <2>1, SenderFrame
  <2>3. UNCHANGED <<due, audience>>
    BY <1>3, <2>1 DEF SenderThread, SenderRead, SenderPost, SenderDone, SenderSignal, round
  <2>4. \A n \in Messages, d \in Clients : Started(n, d)' => Started(n, d)
    BY <2>2 DEF Started
  <2> QED
    BY <1>1, <2>2, <2>3, <2>4, AudienceFrame DEF At, InRound, QueueFree
<1>4. CASE RequestControlThread \/ Tick \/ UNCHANGED vars
  <2>1. UNCHANGED <<queue, due, audience, sender, unspawned, main>>
    BY <1>4
    DEF RequestControlThread, ReceiveFind, ReceiveRefresh, ReceiveAdd, ReceiveAnswer, Tick, vars,
        round, sendings
  <2> QED
    BY <1>1, <2>1, AudienceFrame DEF Started, InRound
<1> QED
  BY <1>1, <1>2, <1>3, <1>4, AudienceTransmitter DEF Next

LEMMA AudienceAlways == Spec => []AudienceInv
<1>1. Init => AudienceInv
  BY DEF Init, AudienceInv, AudienceFacts, InRound, QueueFree
<1> QED
  BY <1>1, AudienceStep, TypeAlways, OrderAlways, RoundAlways, PTL DEF Spec
(***************************************************************************)
(* The steps.  What went out is read off the senders, since each sent its  *)
(* own message.                                                            *)
(***************************************************************************)

Out(m, c) == sender[m][c] \in {"posted", "signal", "end"}

OutPairs == {p \in Messages \X Clients : Out(p[1], p[2])}

LEMMA WentOutIs == Complete => WentOut = OutPairs
<1> SUFFICES ASSUME Complete PROVE WentOut = OutPairs
    OBVIOUS
<1>1. \A n \in Messages, c \in Clients : Out(n, c) => message[n][c] = n
  BY DEF Complete, Out
<1>2. ASSUME NEW m \in Messages, NEW c \in Clients
      PROVE  (\E n \in Messages : message[n][c] = m /\ Out(n, c)) <=> Out(m, c)
  BY <1>1
<1> QED
  BY <1>2 DEF WentOut, OutPairs, Out

LEMMA WentOutIsNext == Complete' => WentOut' = OutPairs'
<1>1. (Complete => WentOut = OutPairs)'
  BY WentOutIs, PTL
<1> QED
  BY <1>1

\* Where the senders that are through stay the same.
LEMMA OutFrame ==
  ASSUME Complete, Complete',
         \A m \in Messages, c \in Clients : Out(m, c)' <=> Out(m, c)
  PROVE  WentOut' = WentOut
<1>1. OutPairs' = OutPairs
  BY DEF OutPairs
<1>2. WentOut = OutPairs /\ WentOut' = OutPairs'
  BY WentOutIs, WentOutIsNext
<1> QED
  BY <1>1, <1>2

AbstractOut == sent \cup ({main.message} \ {NoMessage})

AbstractOpen == main.pc \notin QueueFree

AbstractVars == <<queue, AbstractOut, AbstractOpen, audience, WentOut, surplus>>

LEMMA AbstractStutter ==
  ASSUME UNCHANGED <<queue, sent, audience, surplus>>, main'.message = main.message,
         AbstractOpen' = AbstractOpen, WentOut' = WentOut
  PROVE  UNCHANGED Broadcasting!vars
  BY DEF Broadcasting!vars, AbstractOpen

LEMMA BroadcastTransmitter ==
  ASSUME TypeInv, TypeInv', OrderInv, OrderInv', RoundFacts, RoundFacts', AudienceFacts,
         TransmissionThread, ~ surplus, ~ surplus'
  PROVE  [Broadcasting!Next]_(Broadcasting!vars)
<1> USE DEF round, sendings
<1>c. Complete /\ Complete' /\ main.pc # "dead"
  BY DEF RoundFacts
<1>1. CASE \/ TransmitterIdle \/ TransmitterFirst \/ TransmitterVisit \/ TransmitterDrop
           \/ TransmitterSleep \/ TransmitterPass
  <2>1. /\ UNCHANGED <<queue, sent, audience, sender, message>> /\ main'.message = main.message
        /\ AbstractOpen' = AbstractOpen
    BY <1>1
    DEF TransmitterIdle, TransmitterFirst, TransmitterVisit, TransmitterDrop, TransmitterSleep,
        TransmitterPass, Goto, Advance, At, AbstractOpen, QueueFree
  <2>2. WentOut' = WentOut
    BY <2>1 DEF WentOut
  <2>3. surplus' = surplus
    <3>1. surplus \in BOOLEAN /\ surplus' \in BOOLEAN
      BY DEF TypeInv, TypeOK
    <3> QED
      BY <3>1, Zenon
  <2> QED
    BY <2>1, <2>2, <2>3, AbstractStutter
<1>2. CASE TransmitterCount
  <2>1. /\ main.pc = "lock" /\ main'.pc = "first" /\ main'.message = main.message
        /\ queue # <<>> /\ audience' = Elements(clients)
        /\ UNCHANGED <<queue, sent, sender, message, surplus>>
    BY <1>2 DEF TransmitterCount, Goto, At
  <2>2. Elements(clients) \in SUBSET Clients
    <3>1. clients \in Seq(Clients)
      BY DEF TypeInv, TypeOK
    <3> QED
      BY ONLY <3>1, ElementsOfSeq
  <2>3. WentOut' = WentOut
    BY <2>1 DEF WentOut
  <2>4. Broadcasting!Open(Elements(clients))
    BY <2>1, <2>3 DEF Broadcasting!Open, QueueFree
  <2> QED
    BY <2>2, <2>4 DEF Broadcasting!Next
<1>3. CASE TransmitterDelete
  <2>1. /\ main.pc = "expired" /\ main'.pc = "drop" /\ main'.message = main.message
        /\ audience' = audience \ {main.node}
        /\ UNCHANGED <<queue, sent, sender, message, surplus>>
    BY <1>3 DEF TransmitterDelete, Goto, At
  <2>2. InRound /\ AtNode /\ main.node \in Elements(clients) /\ main.node \in Clients
    BY <2>1 DEF InRound, QueueFree, AtNode, TypeInv, ListInv, Hands
  <2>3. main.node \in audience
    BY <2>1, <2>2 DEF AudienceFacts
  <2>4. ~ Started(Head(queue), main.node)
    <3>1. Ahead(main.node)
      BY <1>c, <2>2 DEF OrderInv, StartedOnce
    <3>2. PICK i \in 1 .. Len(clients) : clients[i] = main.node
      BY <2>2 DEF Elements
    <3>3. Len(clients) \in Nat
      BY DEF TypeInv, TypeOK
    <3> QED
      BY <3>1, <3>2, <3>3 DEF Ahead
  <2>5. <<Head(queue), main.node>> \notin WentOut
    <3>1. <<Head(queue), main.node>> \notin OutPairs
      BY <2>4 DEF OutPairs, Out, Started
    <3> QED
      BY <1>c, <3>1, WentOutIs
  <2>6. WentOut' = WentOut
    BY <2>1 DEF WentOut
  <2>7. Broadcasting!Excuse(main.node)
    BY <2>1, <2>3, <2>5, <2>6 DEF Broadcasting!Excuse, QueueFree
  <2> QED
    BY <2>2, <2>7 DEF Broadcasting!Next
<1>4. CASE TransmitterSpawn
  <2>1. /\ main.pc = "spawn" /\ main'.pc \in {"barrier", "visit"}
        /\ main'.message = main.message
        /\ UNCHANGED <<queue, sent, audience, surplus>>
    BY <1>4 DEF TransmitterSpawn, Advance, At
  <2>2. /\ Head(queue) \in Messages /\ main.node \in Clients
        /\ \/ sender' = sender
           \/ sender' = [sender EXCEPT ![Head(queue)][main.node] = "start"]
    BY <1>4, SpawnStarts DEF TransmitterSpawn
  <2>3. sender[Head(queue)][main.node] = "none"
    <3>1. AtNode /\ main.node \in Elements(clients)
      BY <2>1 DEF AtNode, TypeInv, ListInv
    <3>2. Ahead(main.node)
      BY <1>c, <3>1 DEF OrderInv, StartedOnce
    <3>3. PICK i \in 1 .. Len(clients) : clients[i] = main.node
      BY <3>1 DEF Elements
    <3>4. Len(clients) \in Nat
      BY DEF TypeInv, TypeOK
    <3>5. ~ Started(Head(queue), main.node)
      BY <3>2, <3>3, <3>4 DEF Ahead
    <3> QED
      BY <3>5 DEF Started
  <2>4. \A m \in Messages, c \in Clients : Out(m, c)' <=> Out(m, c)
    <3>1. CASE sender' = sender
      BY <3>1 DEF Out
    <3>2. CASE sender' = [sender EXCEPT ![Head(queue)][main.node] = "start"]
      <4>1. /\ sender'[Head(queue)][main.node] = "start"
            /\ \A n \in Messages, d \in Clients :
                 n # Head(queue) \/ d # main.node => sender'[n][d] = sender[n][d]
        BY <2>2, <3>2, SenderMoves DEF TypeInv, sender_pcs
      <4> QED
        BY <2>3, <4>1 DEF Out
    <3> QED
      BY <2>2, <3>1, <3>2
  <2>5. WentOut' = WentOut
    BY <1>c, <2>4, OutFrame
  <2> QED
    BY <2>1, <2>5, AbstractStutter DEF AbstractOpen, QueueFree
<1>5. CASE TransmitterRetire
  <2>1. /\ main.pc = "retire" /\ main'.pc = "file" /\ main'.message = Head(queue)
        /\ queue' = Tail(queue)
        /\ UNCHANGED <<sent, audience, sender, message, surplus>>
    BY <1>5 DEF TransmitterRetire
  <2>2. InRound /\ Head(queue) \in Messages /\ main.message = NoMessage
    BY <1>c, <2>1, HeadIs DEF InRound, QueueFree, OrderInv
  <2>3. Head(queue) # NoMessage
    BY <2>2, ServerAssumption
  <2>4. ASSUME NEW c \in audience
        PROVE  <<Head(queue), c>> \in WentOut
    <3>1. done = 0 /\ done = Outstanding(Head(queue)) /\ Counted /\ c \in Clients
      BY <2>1, <2>2 DEF RoundFacts, TypeInv, TypeOK
    <3>2. due = {} /\ Active(Head(queue)) = {} /\ Lost(Head(queue)) = {}
      BY <2>2, <3>1, OutstandingParts
    <3>3. Started(Head(queue), c)
      BY <2>1, <3>1, <3>2 DEF Counted
    <3>4. /\ sender[Head(queue)][c] # "none" /\ sender[Head(queue)][c] # "dead"
          /\ sender[Head(queue)][c] \notin {"start", "sending", "posted"}
      BY <1>c, <2>2, <3>1, <3>2, <3>3
      DEF Started, Lost, Active, SendersOf, OrderInv, StartedOnce
    <3>5. sender[Head(queue)][c] \in sender_pcs
      BY <2>2, <3>1 DEF TypeInv, TypeOK
    <3>6. Out(Head(queue), c)
      BY <3>4, <3>5 DEF Out, sender_pcs
    <3> QED
      BY <1>c, <2>2, <3>1, <3>6, WentOutIs DEF OutPairs
  <2>5. WentOut' = WentOut
    BY <2>1 DEF WentOut
  <2>6. Broadcasting!Close
    BY <2>1, <2>2, <2>3, <2>4, <2>5 DEF Broadcasting!Close, QueueFree
  <2> QED
    BY <2>6 DEF Broadcasting!Next
<1>6. CASE TransmitterFile
  <2>1. /\ main.pc = "file" /\ main'.pc = "lock" /\ main'.message = NoMessage
        /\ sent' = sent \cup {main.message} /\ main.message \in Messages
        /\ UNCHANGED <<queue, audience, sender, message, surplus>>
    BY <1>6 DEF TransmitterFile, TypeInv, Hands
  <2>2. AbstractOut' = AbstractOut
    BY <2>1, ServerAssumption DEF AbstractOut
  <2>3. WentOut' = WentOut
    BY <2>1 DEF WentOut
  <2> QED
    BY <2>1, <2>2, <2>3 DEF Broadcasting!vars, AbstractOut, QueueFree
<1> QED
  BY <1>1, <1>2, <1>3, <1>4, <1>5, <1>6 DEF TransmissionThread

LEMMA BroadcastSender ==
  ASSUME TypeInv, OrderInv, RoundFacts, RoundFacts', AudienceFacts,
         NEW m \in Messages, NEW c \in Clients, SenderThread(m, c), surplus' = surplus
  PROVE  [Broadcasting!Next]_(Broadcasting!vars)
<1>c. Complete /\ Complete'
  BY DEF RoundFacts
<1>1. ~ SenderCrash(m, c)
  BY SenderOfRound DEF SenderCrash, Elements, TypeInv, TypeOK
<1>2. /\ UNCHANGED <<queue, sent>>
      /\ \/ main' = main
         \/ main.pc = "asleep" /\ main' = At("barrier", main.node, main.tmp)
      /\ \A n \in Messages, d \in Clients : n # m \/ d # c => sender'[n][d] = sender[n][d]
  BY <1>1, SenderFrame
<1>3. main'.message = main.message /\ AbstractOpen' = AbstractOpen
  BY <1>2 DEF At, AbstractOpen, QueueFree
<1>4. audience' = audience
  BY <1>1 DEF SenderThread, SenderRead, SenderPost, SenderDone, SenderSignal, round
<1>5. CASE SenderPost(m, c)
  <2>1. sender[m][c] = "sending" /\ sender'[m][c] = "posted"
    BY <1>5, SenderMoves DEF SenderPost, TypeInv, sender_pcs
  <2>2. InRound /\ m = Head(queue)
    BY <2>1, SenderOfRound
  <2>3. c \in audience
    BY <2>1, <2>2 DEF AudienceFacts, Started
  <2>4. <<m, c>> \notin WentOut
    BY <1>c, <2>1, WentOutIs DEF OutPairs, Out
  <2>5. WentOut' = WentOut \cup {<<m, c>>}
    <3>1. ASSUME NEW n \in Messages, NEW d \in Clients
          PROVE  Out(n, d)' <=> Out(n, d) \/ (n = m /\ d = c)
      BY <1>2, <2>1 DEF Out
    <3>2. OutPairs' = OutPairs \cup {<<m, c>>}
      BY <3>1 DEF OutPairs
    <3>3. WentOut = OutPairs /\ WentOut' = OutPairs'
      BY <1>c, WentOutIs, WentOutIsNext
    <3> QED
      BY <3>2, <3>3
  <2>6. Broadcasting!Deliver(c)
    BY <1>2, <1>3, <1>4, <2>2, <2>3, <2>4, <2>5
    DEF Broadcasting!Deliver, AbstractOpen, InRound
  <2> QED
    BY <2>6 DEF Broadcasting!Next
<1>6. CASE ~ SenderPost(m, c)
  <2>1. Out(m, c)' <=> Out(m, c)
    <3>1. CASE SenderRead(m, c)
      BY <3>1, SenderMoves DEF SenderRead, Out, TypeInv, sender_pcs
    <3>2. CASE SenderDone(m, c)
      BY <3>2, SenderMoves DEF SenderDone, Out, TypeInv, sender_pcs
    <3>3. CASE SenderSignal(m, c)
      BY <3>3, SenderMoves DEF SenderSignal, Out, TypeInv, sender_pcs
    <3> QED
      BY <1>1, <1>6, <3>1, <3>2, <3>3 DEF SenderThread
  <2>2. \A n \in Messages, d \in Clients : Out(n, d)' <=> Out(n, d)
    BY <1>2, <2>1 DEF Out
  <2>3. WentOut' = WentOut
    BY <1>c, <2>2, OutFrame
  <2> QED
    BY <1>2, <1>3, <1>4, <2>3, AbstractStutter
<1> QED
  BY <1>5, <1>6

LEMMA BroadcastStep ==
  /\ TypeInv /\ TypeInv' /\ OrderInv /\ OrderInv' /\ RoundInv /\ RoundInv' /\ AudienceInv
  /\ [Next]_vars
  => [Broadcasting!Next]_(Broadcasting!vars)
<1> SUFFICES ASSUME TypeInv, TypeInv', OrderInv, OrderInv', RoundInv, RoundInv', AudienceInv,
                    [Next]_vars
             PROVE  [Broadcasting!Next]_(Broadcasting!vars)
    OBVIOUS
<1>1. CASE surplus'
  BY <1>1 DEF Broadcasting!Next
<1>2. CASE ~ surplus'
  <2>1. ~ surplus /\ RoundFacts /\ RoundFacts' /\ AudienceFacts
    BY <1>2, SurplusStays DEF RoundInv, AudienceInv
  <2>2. surplus' = surplus
    <3>1. surplus \in BOOLEAN /\ surplus' \in BOOLEAN
      BY DEF TypeInv, TypeOK
    <3> QED
      BY <1>2, <2>1, <3>1, Zenon
  <2>3. ASSUME NEW m \in Messages, Load(m)
        PROVE  Broadcasting!Submit(m)
    <3>1. /\ main.pc \in QueueFree /\ main'.pc \in QueueFree /\ main'.message = main.message
          /\ m \notin Elements(queue) \cup sent \cup {main.message}
          /\ queue' = Append(queue, m)
          /\ UNCHANGED <<sent, audience, sender, message>>
      BY <2>3 DEF Load, WakeIdle, Goto, At, QueueFree, round, sendings
    <3>2. WentOut' = WentOut
      BY <3>1 DEF WentOut
    <3> QED
      BY <2>2, <3>1, <3>2 DEF Broadcasting!Submit, Elements
  <2>4. CASE RequestControlThread \/ Tick \/ UNCHANGED vars
    <3>1. UNCHANGED <<queue, sent, audience, sender, message, main>>
      BY <2>4
      DEF RequestControlThread, ReceiveFind, ReceiveRefresh, ReceiveAdd, ReceiveAnswer, Tick,
          vars, round, sendings
    <3>2. WentOut' = WentOut
      BY <3>1 DEF WentOut
    <3> QED
      BY <2>2, <3>1, <3>2, AbstractStutter DEF AbstractOpen
  <2> QED
    BY <1>2, <2>1, <2>2, <2>3, <2>4, BroadcastTransmitter, BroadcastSender
    DEF Next, Broadcasting!Next
<1> QED
  BY <1>1, <1>2

\* The server's threads implement the abstract broadcast: one message at a time
\* and in order, to everyone who was subscribed when its round began, to nobody
\* twice; up to the first round that meets a client it had not counted.
THEOREM ImplementsBroadcast == Spec => BroadcastSpec
<1>1. Init => Broadcasting!Init
  BY DEF Init, Broadcasting!Init, WentOut, QueueFree
<1>2. /\ TypeInv /\ TypeInv' /\ OrderInv /\ OrderInv' /\ RoundInv /\ RoundInv' /\ AudienceInv
      /\ [Next]_vars
      => [Broadcasting!Next]_(Broadcasting!vars)
  BY BroadcastStep
<1> QED
  BY <1>1, <1>2, TypeAlways, OrderAlways, RoundAlways, AudienceAlways, PTL
  DEF Spec, BroadcastSpec, Broadcasting!Spec
=============================================================================
