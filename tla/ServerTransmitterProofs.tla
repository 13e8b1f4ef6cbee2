----------------------- MODULE ServerTransmitterProofs -----------------------
(* Theorems about ServerTransmitter, for any clients, messages and limits.  *)
EXTENDS ServerTransmitter, FiniteSetTheorems, FunctionTheorems, TLAPS

(***************************************************************************)
(* The list of clients: what the transmitter's node and tmp are in it.     *)
(***************************************************************************)

InRound == main.pc \notin QueueFree \cup {"dead"}

AtNode == main.pc \in {"visit", "expired", "spawn"}

OnceInList == \A i, j \in 1 .. Len(clients) : clients[i] = clients[j] => i = j

ListInv ==
  /\ OnceInList
  /\ recv.pc = "missing" => recv.client \notin Elements(clients)
  /\ AtNode => main.node \in Elements(clients)
  /\ AtNode /\ main.tmp # NoClient =>
       \A i \in 1 .. Len(clients) :
         clients[i] = main.node => i < Len(clients) /\ clients[i + 1] = main.tmp
  /\ main.pc = "drop" /\ main.tmp # NoClient => main.tmp \in Elements(clients)

\* What the threads have in hand where they are.
Hands ==
  /\ main.pc \in {"visit", "expired", "drop", "spawn"} => main.node \in Clients
  /\ InRound => Len(queue) > 0
  /\ main.pc = "file" => main.message \in Messages
  /\ recv.pc \in {"found", "missing", "accept"} => recv.client \in Clients

TypeInv == TypeOK /\ Hands /\ ListInv

-----------------------------------------------------------------------------
LEMMA ElementsOfSeq ==
  ASSUME clients \in Seq(Clients)
  PROVE  Elements(clients) \in SUBSET Clients
<1>1. \A i \in 1 .. Len(clients) : clients[i] \in Clients
  OBVIOUS
<1> QED
  BY ONLY <1>1 DEF Elements

LEMMA PositionIs ==
  ASSUME OnceInList, NEW i \in 1 .. Len(clients)
  PROVE  Position(clients[i]) = i
<1>1. \E j \in 1 .. Len(clients) : clients[j] = clients[i]
  OBVIOUS
<1>2. /\ Position(clients[i]) \in 1 .. Len(clients)
      /\ clients[Position(clients[i])] = clients[i]
  BY <1>1 DEF Position
<1> QED
  BY <1>2 DEF OnceInList

LEMMA AfterIs ==
  ASSUME TypeOK, OnceInList, NEW i \in 1 .. Len(clients)
  PROVE  /\ After(clients[i]) = IF i < Len(clients) THEN clients[i + 1] ELSE NoClient
         /\ After(clients[i]) \in Clients \cup {NoClient}
<1>1. clients \in Seq(Clients)
  BY DEF TypeOK
<1> QED
  BY <1>1, PositionIs DEF After

LEMMA ListAdd ==
  ASSUME TypeOK, NEW c \in Clients, clients' = Append(clients, c)
  PROVE  /\ clients' \in Seq(Clients) /\ Len(clients') = Len(clients) + 1
         /\ Len(clients) \in Nat
         /\ \A i \in 1 .. Len(clients) : clients'[i] = clients[i]
         /\ clients'[Len(clients) + 1] = c
         /\ Elements(clients') = Elements(clients) \cup {c}
<1>1. clients \in Seq(Clients)
  BY DEF TypeOK
<1>2. /\ clients' \in Seq(Clients) /\ Len(clients') = Len(clients) + 1
      /\ Len(clients) \in Nat
      /\ \A i \in 1 .. Len(clients) : clients'[i] = clients[i]
      /\ clients'[Len(clients) + 1] = c
  BY <1>1
<1>3. \A i \in 1 .. Len(clients') : i \in 1 .. Len(clients) \/ i = Len(clients) + 1
  BY <1>2
<1>4. Len(clients) + 1 \in 1 .. Len(clients') /\ 1 .. Len(clients) \subseteq 1 .. Len(clients')
  BY <1>2
<1>5. Elements(clients') \subseteq Elements(clients) \cup {c}
  BY <1>2, <1>3 DEF Elements
<1>6. Elements(clients) \cup {c} \subseteq Elements(clients')
  BY <1>2, <1>4 DEF Elements
<1> QED
  BY <1>2, <1>5, <1>6

LEMMA ListRemove ==
  ASSUME TypeOK, OnceInList, NEW p \in 1 .. Len(clients), clients' = Without(clients[p])
  PROVE  /\ clients' \in Seq(Clients) /\ Len(clients') = Len(clients) - 1
         /\ Len(clients) \in Nat
         /\ \A i \in 1 .. Len(clients) - 1 :
              clients'[i] = IF i < p THEN clients[i] ELSE clients[i + 1]
         /\ Elements(clients') = Elements(clients) \ {clients[p]}
<1>1. clients \in Seq(Clients) /\ Len(clients) \in Nat /\ Len(clients) - 1 \in Nat
  BY DEF TypeOK
<1>2. clients' = [i \in 1 .. Len(clients) - 1 |-> IF i < p THEN clients[i] ELSE clients[i + 1]]
  BY PositionIs DEF Without
<1>3. \A i \in 1 .. Len(clients) - 1 : clients[i] \in Clients /\ clients[i + 1] \in Clients
  BY <1>1
<1>4. clients' \in Seq(Clients) /\ Len(clients') = Len(clients) - 1
  BY <1>1, <1>2, <1>3
<1>5. \A i \in 1 .. Len(clients) - 1 :
        clients'[i] = IF i < p THEN clients[i] ELSE clients[i + 1]
  BY <1>2
<1>6. Elements(clients') \subseteq Elements(clients) \ {clients[p]}
  <2> SUFFICES ASSUME NEW i \in 1 .. Len(clients) - 1
               PROVE  clients'[i] \in Elements(clients) \ {clients[p]}
      BY <1>4 DEF Elements
  <2>1. CASE i < p
    BY <1>1, <1>5, <2>1 DEF Elements, OnceInList
  <2>2. CASE ~ (i < p)
    <3>1. i + 1 \in 1 .. Len(clients) /\ i + 1 # p
      BY <1>1, <2>2
    <3> QED
      BY <1>5, <2>2, <3>1 DEF Elements, OnceInList
  <2> QED
    BY <2>1, <2>2
<1>7. Elements(clients) \ {clients[p]} \subseteq Elements(clients')
  <2> SUFFICES ASSUME NEW j \in 1 .. Len(clients), j # p
               PROVE  clients[j] \in Elements(clients')
      BY DEF Elements
  <2>1. CASE j < p
    <3>1. j \in 1 .. Len(clients) - 1
      BY <1>1, <2>1
    <3> QED
      BY <1>4, <1>5, <2>1, <3>1 DEF Elements
  <2>2. CASE j > p
    <3>1. j - 1 \in 1 .. Len(clients) - 1 /\ ~ (j - 1 < p) /\ (j - 1) + 1 = j
      BY <1>1, <2>2
    <3> QED
      BY <1>4, <1>5, <3>1 DEF Elements
  <2> QED
    BY <2>1, <2>2
<1> QED
  BY <1>1, <1>4, <1>5, <1>6, <1>7

-----------------------------------------------------------------------------
LEMMA TypeInit == Init => TypeInv
<1> SUFFICES ASSUME Init PROVE TypeInv
    OBVIOUS
<1> USE ServerAssumption DEF Init
<1>1. /\ queue \in Seq(Messages) /\ clients \in Seq(Clients) /\ Len(clients) = 0
      /\ sent \subseteq Messages /\ done \in Nat /\ slots \in Nat
      /\ due \subseteq Clients /\ audience \subseteq Clients
  OBVIOUS
<1>2. surplus \in BOOLEAN /\ unspawned \subseteq Messages \X Clients
  OBVIOUS
<1>3. MaxAge \in 0 .. MaxAge
  BY DEF MaxAge
<1>4. age \in [Clients -> 0 .. MaxAge]
  BY <1>3
<1>5. /\ main \in [pc : main_pcs, node : Clients \cup {NoClient},
                  tmp : Clients \cup {NoClient}, message : Messages \cup {NoMessage}]
      /\ recv \in [pc : {"idle", "found", "missing", "accept", "dead"},
                   client : Clients \cup {NoClient}]
  BY DEF main_pcs
<1>6. [c \in Clients |-> "none"] \in [Clients -> sender_pcs]
  BY DEF sender_pcs
<1>7. sender \in [Messages -> [Clients -> sender_pcs]]
  BY <1>6
<1>8. message \in [Messages -> [Clients -> Messages \cup {NoMessage}]]
  OBVIOUS
<1>9. TypeOK
  BY ONLY <1>1, <1>2, <1>4, <1>5, <1>7, <1>8 DEF TypeOK
<1>10. Hands
  BY DEF Hands, InRound, QueueFree
<1>11. ListInv
  BY <1>1 DEF ListInv, OnceInList, AtNode
<1> QED
  BY <1>9, <1>10, <1>11 DEF TypeInv

\* Where the list of clients stays, and node and tmp with it.
LEMMA ListFrame ==
  ASSUME ListInv, UNCHANGED clients,
         main'.node = main.node \/ main'.pc \notin {"visit", "expired", "spawn"},
         main'.tmp = main.tmp \/ main'.pc \notin {"visit", "expired", "spawn", "drop"},
         main'.pc \in {"visit", "expired", "spawn"} => AtNode,
         main'.pc = "drop" => main.pc = "drop",
         recv'.pc = "missing" => recv.pc = "missing" /\ recv'.client = recv.client
  PROVE  ListInv'
  BY DEF ListInv, OnceInList, AtNode, Elements

LEMMA ListGoto ==
  ASSUME TypeInv, UNCHANGED <<clients, recv>>,
         TransmitterFirst \/ (Advance /\ main.pc \in {"drop", "spawn"})
  PROVE  ListInv' /\ main' \in [pc : main_pcs, node : Clients \cup {NoClient},
                                tmp : Clients \cup {NoClient},
                                message : Messages \cup {NoMessage}]
<1> USE DEF TypeInv
<1>1. clients \in Seq(Clients) /\ Len(clients) \in Nat /\ OnceInList
  BY DEF TypeOK, ListInv
<1>2. ASSUME NEW i \in 1 .. Len(clients), main' = At("visit", clients[i], After(clients[i]))
      PROVE  /\ ListInv'
             /\ main'.node \in Clients /\ main'.tmp \in Clients \cup {NoClient}
  <2>1. /\ main'.node = clients[i] /\ main'.pc = "visit"
        /\ main'.tmp = IF i < Len(clients) THEN clients[i + 1] ELSE NoClient
        /\ main'.tmp \in Clients \cup {NoClient}
    BY <1>1, <1>2, AfterIs DEF At
  <2>2. \A j \in 1 .. Len(clients) : clients[j] = clients[i] => j = i
    BY <1>1 DEF OnceInList
  <2> QED
    BY <1>1, <2>1, <2>2 DEF ListInv, OnceInList, AtNode, Elements
<1>3. CASE main' = At("barrier", NoClient, NoClient)
  <2>1. main'.pc = "barrier"
    BY <1>3 DEF At
  <2>2. ListInv'
    BY <2>1, ListFrame
  <2> QED
    BY <1>3, <2>2 DEF At, TypeOK, main_pcs
<1>4. \/ main' = At("barrier", NoClient, NoClient)
      \/ \E i \in 1 .. Len(clients) : main' = At("visit", clients[i], After(clients[i]))
  <2>1. CASE TransmitterFirst
    BY <1>1, <2>1 DEF TransmitterFirst
  <2>2. CASE Advance /\ main.pc \in {"drop", "spawn"}
    <3>1. main.tmp # NoClient => main.tmp \in Elements(clients)
      BY <2>2 DEF ListInv, AtNode, Elements
    <3> QED
      BY <2>2, <3>1 DEF Advance, Elements
  <2> QED
    BY <2>1, <2>2
<1> QED
  BY <1>2, <1>3, <1>4 DEF At, TypeOK, main_pcs

LEMMA SenderMoves ==
  ASSUME TypeOK, NEW m \in Messages, NEW c \in Clients, NEW p \in sender_pcs,
         sender' = [sender EXCEPT ![m][c] = p]
  PROVE  /\ sender' \in [Messages -> [Clients -> sender_pcs]]
         /\ sender'[m][c] = p
         /\ \A n \in Messages, d \in Clients : n # m \/ d # c => sender'[n][d] = sender[n][d]
<1>1. sender \in [Messages -> [Clients -> sender_pcs]]
  BY DEF TypeOK
<1>2. [sender[m] EXCEPT ![c] = p] \in [Clients -> sender_pcs]
  BY <1>1
<1>3. sender' = [sender EXCEPT ![m] = [sender[m] EXCEPT ![c] = p]]
  BY <1>1
<1> QED
  BY <1>1, <1>2, <1>3

\* What a sender read is written for its message and client only.
LEMMA MessageMoves ==
  ASSUME message \in [Messages -> [Clients -> Messages \cup {NoMessage}]],
         NEW m \in Messages, NEW c \in Clients, NEW v \in Messages,
         message' = [message EXCEPT ![m][c] = v]
  PROVE  /\ message' \in [Messages -> [Clients -> Messages \cup {NoMessage}]]
         /\ message'[m][c] = v
         /\ \A n \in Messages, d \in Clients :
               n # m \/ d # c => message'[n][d] = message[n][d]
<1>2. [message[m] EXCEPT ![c] = v] \in [Clients -> Messages \cup {NoMessage}]
  OBVIOUS
<1>3. message' = [message EXCEPT ![m] = [message[m] EXCEPT ![c] = v]]
  OBVIOUS
<1> QED
  BY <1>2, <1>3

LEMMA TypeTransmitter ==
  ASSUME TypeInv, TransmissionThread
  PROVE  TypeInv'
<1> USE ServerAssumption DEF TypeInv, round, sendings, main_pcs
<1>1. CASE TransmitterIdle \/ TransmitterSleep \/ TransmitterPass
  <2>1. ListInv'
    BY <1>1, ListFrame DEF TransmitterIdle, TransmitterSleep, TransmitterPass, Goto, At
  <2> QED
    BY <1>1, <2>1
    DEF TransmitterIdle, TransmitterSleep, TransmitterPass, Goto, At, TypeOK, Hands, InRound,
        QueueFree
<1>2. CASE TransmitterCount
  <2>1. ListInv'
    BY <1>2, ListFrame DEF TransmitterCount, Goto, At
  <2>2. Len(clients) \in Nat /\ Elements(clients) \subseteq Clients /\ Len(queue) > 0
    BY <1>2 DEF TransmitterCount, TypeOK, Elements
  <2> QED
    BY <1>2, <2>1, <2>2 DEF TransmitterCount, Goto, At, TypeOK, Hands, InRound, QueueFree
<1>3. CASE TransmitterFirst
  <2>1. /\ ListInv'
        /\ main' \in [pc : main_pcs, node : Clients \cup {NoClient},
                      tmp : Clients \cup {NoClient}, message : Messages \cup {NoMessage}]
    BY <1>3, ListGoto DEF TransmitterFirst
  <2>2. TypeOK'
    BY <1>3, <2>1 DEF TransmitterFirst, TypeOK
  <2>3. Hands'
    BY <1>3, <2>1, <2>2
    DEF TransmitterFirst, At, Hands, InRound, QueueFree, ListInv, AtNode, TypeOK, Elements
  <2> QED
    BY <2>1, <2>2, <2>3
<1>4. CASE TransmitterVisit
  <2>1. ListInv'
    BY <1>4, ListFrame DEF TransmitterVisit, Goto, At, AtNode
  <2> QED
    BY <1>4, <2>1 DEF TransmitterVisit, Goto, At, TypeOK, Hands, InRound, QueueFree
<1>5. CASE TransmitterDelete
  <2>1. PICK p \in 1 .. Len(clients) : clients[p] = main.node
    BY <1>5 DEF TransmitterDelete, ListInv, AtNode, Elements
  <2>2. /\ clients' = Without(clients[p]) /\ main.pc = "expired"
        /\ main'.pc = "drop" /\ main'.node = main.node /\ main'.tmp = main.tmp
        /\ recv' = recv
    BY <1>5, <2>1 DEF TransmitterDelete, Goto, At
  <2>3. /\ clients' \in Seq(Clients) /\ Len(clients') = Len(clients) - 1
        /\ Len(clients) \in Nat
        /\ \A i \in 1 .. Len(clients) - 1 :
             clients'[i] = IF i < p THEN clients[i] ELSE clients[i + 1]
        /\ Elements(clients') = Elements(clients) \ {clients[p]}
    BY <2>2, ListRemove DEF ListInv
  <2>4. OnceInList'
    <3>1. /\ p \in 1 .. Len(clients)
          /\ \A i, j \in 1 .. Len(clients) : clients[i] = clients[j] => i = j
      BY <2>1 DEF ListInv, OnceInList
    <3>2. ASSUME NEW i \in 1 .. Len(clients) - 1, NEW j \in 1 .. Len(clients) - 1,
                 clients'[i] = clients'[j]
          PROVE  i = j
      <4> DEFINE Old(k) == IF k < p THEN k ELSE k + 1
      <4>1. clients'[i] = clients[Old(i)] /\ clients'[j] = clients[Old(j)]
        BY <2>3, <3>2
      <4>2. Old(i) \in 1 .. Len(clients) /\ Old(j) \in 1 .. Len(clients)
        BY ONLY <2>3, <3>2
      <4>3. clients[Old(i)] = clients[Old(j)]
        BY ONLY <3>2, <4>1
      <4>4. Old(i) = Old(j)
        <5> HIDE DEF Old
        <5> QED
          BY ONLY <3>1, <4>2, <4>3
      <4> QED
        BY ONLY <2>3, <3>1, <4>4
    <3> QED
      BY ONLY <2>3, <3>2 DEF OnceInList
  <2>5. main.tmp # NoClient => main.tmp \in Elements(clients')
    <3> SUFFICES ASSUME main.tmp # NoClient PROVE main.tmp \in Elements(clients')
        OBVIOUS
    <3>1. p < Len(clients) /\ clients[p + 1] = main.tmp /\ p + 1 \in 1 .. Len(clients)
      BY <2>1, <2>2, <2>3 DEF ListInv, AtNode
    <3>2. clients[p + 1] # clients[p]
      BY <3>1 DEF ListInv, OnceInList
    <3> QED
      BY <2>3, <3>1, <3>2 DEF Elements
  <2>6. recv'.pc = "missing" => recv'.client \notin Elements(clients')
    BY <2>2, <2>3 DEF ListInv
  <2>7. ListInv'
    BY <2>2, <2>4, <2>5, <2>6 DEF ListInv, AtNode
  <2> QED
    BY <1>5, <2>3, <2>7 DEF TransmitterDelete, Goto, At, TypeOK, Hands, InRound, QueueFree
<1>6. CASE TransmitterDrop
  <2>1. /\ ListInv'
        /\ main' \in [pc : main_pcs, node : Clients \cup {NoClient},
                      tmp : Clients \cup {NoClient}, message : Messages \cup {NoMessage}]
    BY <1>6, ListGoto DEF TransmitterDrop
  <2>2. TypeOK'
    BY <1>6, <2>1 DEF TransmitterDrop, TakeDone, TypeOK
  <2>3. Hands'
    BY <1>6, <2>1, <2>2
    DEF TransmitterDrop, Advance, At, Hands, InRound, QueueFree, TypeOK
  <2> QED
    BY <2>1, <2>2, <2>3
<1>7. CASE TransmitterSpawn
  <2>1. /\ ListInv'
        /\ main' \in [pc : main_pcs, node : Clients \cup {NoClient},
                      tmp : Clients \cup {NoClient}, message : Messages \cup {NoMessage}]
    BY <1>7, ListGoto DEF TransmitterSpawn
  <2>2. main.node \in Clients /\ Head(queue) \in Messages
    BY <1>7 DEF TransmitterSpawn, Hands, InRound, QueueFree, TypeOK
  <2>3. sender' \in [Messages -> [Clients -> sender_pcs]]
    <3>1. CASE sender' = [sender EXCEPT ![Head(queue)][main.node] = "start"]
      <4>1. "start" \in sender_pcs
        BY DEF sender_pcs
      <4> QED
        BY <2>2, <3>1, <4>1, SenderMoves
    <3>2. CASE UNCHANGED sender
      BY <3>2 DEF TypeOK
    <3> QED
      BY <1>7, <3>1, <3>2 DEF TransmitterSpawn
  <2>4. slots' \in Nat
    <3>1. slots \in Nat /\ slots > 0 /\ slots' = slots - 1
      BY <1>7 DEF TransmitterSpawn, TypeOK
    <3> QED
      BY ONLY <3>1
  <2>7. unspawned' \subseteq Messages \X Clients
    BY <1>7, <2>2 DEF TransmitterSpawn, TypeOK
  <2>5. TypeOK'
    <3>1. due' \subseteq Clients /\ audience' \subseteq Clients /\ surplus' \in BOOLEAN
      BY <1>7 DEF TransmitterSpawn, Advance, TypeOK
    <3> QED
      BY <1>7, <2>1, <2>3, <2>4, <2>7, <3>1 DEF TransmitterSpawn, TypeOK
  <2>6. Hands'
    BY <1>7, <2>1, <2>5 DEF TransmitterSpawn, Advance, At, Hands, InRound, QueueFree, TypeOK
  <2> QED
    BY <2>1, <2>5, <2>6
<1>8. CASE TransmitterRetire
  <2>1. ListInv'
    BY <1>8, ListFrame DEF TransmitterRetire
  <2>2. Head(queue) \in Messages /\ Tail(queue) \in Seq(Messages)
    BY <1>8 DEF TransmitterRetire, Hands, InRound, QueueFree, TypeOK
  <2> QED
    BY <1>8, <2>1, <2>2 DEF TransmitterRetire, TypeOK, Hands, InRound, QueueFree
<1>9. CASE TransmitterFile
  <2>1. ListInv'
    BY <1>9, ListFrame DEF TransmitterFile
  <2> QED
    BY <1>9, <2>1 DEF TransmitterFile, TypeOK, Hands, InRound, QueueFree
<1> QED
  BY <1>1, <1>2, <1>3, <1>4, <1>5, <1>6, <1>7, <1>8, <1>9 DEF TransmissionThread

LEMMA TypeSender ==
  ASSUME TypeInv, NEW m \in Messages, NEW c \in Clients, SenderThread(m, c)
  PROVE  TypeInv'
<1> USE DEF TypeInv, round, main_pcs, sender_pcs
<1>1. CASE SenderRead(m, c)
  <2>1. ListInv'
    BY <1>1, ListFrame DEF SenderRead, AtNode
  <2>2. Head(queue) \in Messages
    BY <1>1 DEF SenderRead, TypeOK
  <2> QED
    BY <1>1, <2>1, <2>2 DEF SenderRead, TypeOK, Hands, InRound
<1>2. CASE SenderCrash(m, c)
  <2>1. ListInv'
    BY <1>2, ListFrame DEF SenderCrash, Goto, At
  <2>2. sender' \in [Messages -> [Clients -> sender_pcs]]
    BY <1>2 DEF SenderCrash
  <2> QED
    BY <1>2, <2>1, <2>2 DEF SenderCrash, Goto, At, TypeOK, Hands, InRound
<1>3. CASE SenderPost(m, c)
  <2>1. ListInv'
    BY <1>3, ListFrame DEF SenderPost, AtNode
  <2> QED
    BY <1>3, <2>1 DEF SenderPost, TypeOK, Hands, InRound
<1>4. CASE SenderDone(m, c)
  <2>1. ListInv'
    BY <1>4, ListFrame DEF SenderDone, AtNode
  <2> QED
    BY <1>4, <2>1 DEF SenderDone, TakeDone, TypeOK, Hands, InRound
<1>5. CASE SenderSignal(m, c)
  <2>1. ListInv'
    BY <1>5, ListFrame DEF SenderSignal, AtNode, Goto, At
  <2> QED
    BY <1>5, <2>1 DEF SenderSignal, Goto, At, TypeOK, Hands, InRound, QueueFree
<1> QED
  BY <1>1, <1>2, <1>3, <1>4, <1>5 DEF SenderThread

LEMMA Refreshed ==
  ASSUME TypeOK, NEW c \in Clients, age' = [age EXCEPT ![c] = 0]
  PROVE  age' \in [Clients -> 0 .. MaxAge]
<1>1. age \in [Clients -> 0 .. MaxAge] /\ 0 \in 0 .. MaxAge
  BY ServerAssumption DEF TypeOK, MaxAge
<1> QED
  BY <1>1

LEMMA TypeReceiver ==
  ASSUME TypeInv, RequestControlThread
  PROVE  TypeInv'
<1> USE DEF TypeInv, round, sendings
<1>1. ASSUME NEW c \in Clients, ReceiveFind(c)
      PROVE  TypeInv'
  <2>1. /\ recv'.client = c /\ recv'.pc \in {"found", "missing"}
        /\ recv'.pc = "missing" => c \notin Elements(clients)
        /\ UNCHANGED <<clients, main>>
    BY <1>1 DEF ReceiveFind
  <2>2. ListInv'
    BY <2>1 DEF ListInv, OnceInList, AtNode, Elements
  <2> QED
    BY <1>1, <2>2 DEF ReceiveFind, TypeOK, Hands, InRound
<1>2. CASE ReceiveRefresh
  <2>1. ListInv'
    BY <1>2, ListFrame DEF ReceiveRefresh, AtNode
  <2>2. age' \in [Clients -> 0 .. MaxAge]
    <3>1. CASE age' = [age EXCEPT ![recv.client] = 0]
      BY <1>2, <3>1, Refreshed DEF ReceiveRefresh, Hands
    <3>2. CASE age' = age
      BY <3>2 DEF TypeOK
    <3> QED
      BY <1>2, <3>1, <3>2 DEF ReceiveRefresh
  <2> QED
    BY <1>2, <2>1, <2>2 DEF ReceiveRefresh, TypeOK, Hands, InRound
<1>3. CASE ReceiveAdd
  <2>1. /\ recv.client \in Clients /\ recv.client \notin Elements(clients)
        /\ clients' = Append(clients, recv.client)
        /\ recv'.pc = "accept" /\ main' = main
    BY <1>3 DEF ReceiveAdd, Hands, ListInv
  <2>2. /\ clients' \in Seq(Clients) /\ Len(clients') = Len(clients) + 1
        /\ Len(clients) \in Nat
        /\ \A i \in 1 .. Len(clients) : clients'[i] = clients[i]
        /\ clients'[Len(clients) + 1] = recv.client
        /\ Elements(clients') = Elements(clients) \cup {recv.client}
    BY <2>1, ListAdd
  <2>3. \A i \in 1 .. Len(clients) : clients[i] # recv.client
    BY <2>1 DEF Elements
  <2>4. OnceInList'
    BY <2>2, <2>3 DEF OnceInList, ListInv
  <2>5. AtNode => main.node # recv.client
    BY <2>1 DEF ListInv
  <2>6. AtNode /\ main.tmp # NoClient =>
          \A i \in 1 .. Len(clients') :
            clients'[i] = main.node => i < Len(clients') /\ clients'[i + 1] = main.tmp
    BY <2>2, <2>5 DEF ListInv
  <2>7. ListInv'
    BY <2>1, <2>2, <2>4, <2>6 DEF ListInv, AtNode
  <2>8. age' \in [Clients -> 0 .. MaxAge]
    BY <1>3, <2>1, Refreshed DEF ReceiveAdd
  <2> QED
    BY <1>3, <2>2, <2>7, <2>8 DEF ReceiveAdd, TypeOK, Hands, InRound
<1>4. CASE ReceiveAnswer
  <2>1. ListInv'
    BY <1>4, ListFrame DEF ReceiveAnswer, AtNode
  <2> QED
    BY <1>4, <2>1 DEF ReceiveAnswer, TypeOK, Hands, InRound
<1> QED
  BY <1>1, <1>2, <1>3, <1>4 DEF RequestControlThread

LEMMA TypeStep == TypeInv /\ [Next]_vars => TypeInv'
<1> SUFFICES ASSUME TypeInv, [Next]_vars PROVE TypeInv'
    OBVIOUS
<1>1. ASSUME NEW m \in Messages, Load(m)
      PROVE  TypeInv'
  <2>1. ListInv'
    BY <1>1, ListFrame DEF TypeInv, Load, WakeIdle, Goto, At, QueueFree, AtNode
  <2>2. queue' \in Seq(Messages) /\ Len(queue') > 0
    BY <1>1 DEF TypeInv, Load, TypeOK
  <2> QED
    BY <1>1, <2>1, <2>2
    DEF TypeInv, Load, WakeIdle, Goto, At, TypeOK, Hands, InRound, QueueFree, main_pcs, round,
        sendings
<1>2. CASE Tick
  <2>1. ListInv'
    BY <1>2, ListFrame DEF TypeInv, Tick, AtNode
  <2>2. age' \in [Clients -> 0 .. MaxAge]
    BY <1>2, ServerAssumption DEF TypeInv, Tick, TypeOK, MaxAge
  <2> QED
    BY <1>2, <2>1, <2>2 DEF TypeInv, Tick, TypeOK, Hands, InRound, round, sendings
<1>3. CASE UNCHANGED vars
  <2>1. ListInv'
    BY <1>3, ListFrame DEF TypeInv, vars, AtNode
  <2> QED
    BY <1>3, <2>1 DEF TypeInv, vars, TypeOK, Hands, InRound, round, sendings
<1> QED
  BY <1>1, <1>2, <1>3, TypeTransmitter, TypeSender, TypeReceiver DEF Next

LEMMA TypeAlways == Spec => []TypeInv
<1> QED
  BY TypeInit, TypeStep, PTL DEF Spec

\* The variables of the server keep their types.
THEOREM TypeCorrect == Spec => []TypeOK
<1>1. TypeInv => TypeOK
  BY DEF TypeInv
<1> QED
  BY <1>1, TypeAlways, PTL

\* No address is in the map twice, and what HASH_ITER holds while it goes over
\* the map is in the map, although clients join behind its back.
THEOREM ListSafe == Spec => []IterationSafe
<1>1. TypeInv => IterationSafe
  BY DEF TypeInv, ListInv, OnceInList, AtNode, IterationSafe, Elements
<1> QED
  BY <1>1, TypeAlways, PTL

(***************************************************************************)
(* Signals.                                                                *)
(***************************************************************************)

Signalling == \E m \in Messages, c \in Clients : sender[m][c] = "signal"

AwakeInv ==
  /\ main.pc = "idle" => queue = <<>>
  /\ main.pc = "asleep" /\ done = 0 => Signalling

LEMMA AwakeStep == TypeInv /\ AwakeInv /\ [Next]_vars => AwakeInv'
<1> SUFFICES ASSUME TypeInv, AwakeInv, [Next]_vars PROVE AwakeInv'
    OBVIOUS
<1> USE DEF round, sendings
<1>1. ASSUME NEW m \in Messages, Load(m)
      PROVE  AwakeInv'
  BY <1>1 DEF AwakeInv, Signalling, Load, WakeIdle, Goto, At, QueueFree
<1>2. CASE TransmissionThread
  <2>1. TransmitterIdle \/ main'.pc \notin {"idle", "asleep"} \/ TransmitterSleep
    BY <1>2
    DEF TransmissionThread, TransmitterCount, TransmitterFirst, TransmitterVisit,
        TransmitterDelete, TransmitterDrop, TransmitterSpawn, TransmitterPass,
        TransmitterRetire, TransmitterFile, Advance, Goto, At
  <2>2. CASE TransmitterIdle
    BY <2>2 DEF AwakeInv, TransmitterIdle, Goto, At
  <2>3. CASE TransmitterSleep
    BY <2>3 DEF AwakeInv, TransmitterSleep, Goto, At
  <2> QED
    BY <2>1, <2>2, <2>3 DEF AwakeInv
<1>3. ASSUME NEW m \in Messages, NEW c \in Clients, SenderThread(m, c)
      PROVE  AwakeInv'
  <2>1. CASE SenderRead(m, c) \/ SenderPost(m, c)
    <3>1. PICK p \in {"sending", "posted"} : sender' = [sender EXCEPT ![m][c] = p]
      BY <2>1 DEF SenderRead, SenderPost
    <3>2. \A n \in Messages, d \in Clients : n # m \/ d # c => sender'[n][d] = sender[n][d]
      BY <3>1, SenderMoves DEF TypeInv, sender_pcs
    <3>3. sender[m][c] # "signal"
      BY <2>1 DEF SenderRead, SenderPost
    <3>4. Signalling => Signalling'
      BY <3>2, <3>3 DEF Signalling
    <3> QED
      BY <2>1, <3>4 DEF AwakeInv, SenderRead, SenderPost
  <2>2. CASE SenderCrash(m, c)
    BY <2>2 DEF AwakeInv, SenderCrash, Goto, At
  <2>3. CASE SenderDone(m, c)
    <3>1. sender'[m][c] = "signal"
      BY <2>3, SenderMoves DEF SenderDone, TypeInv, sender_pcs
    <3> QED
      BY <2>3, <3>1 DEF AwakeInv, Signalling, SenderDone
  <2>4. CASE SenderSignal(m, c)
    <3>1. done' = done /\ queue' = queue
      BY <2>4 DEF SenderSignal
    <3>2. \/ main'.pc = "barrier"
          \/ main' = main /\ ~ (main.pc = "asleep" /\ done = 0)
      BY <2>4 DEF SenderSignal, Goto, At
    <3> QED
      BY <3>1, <3>2 DEF AwakeInv
  <2> QED
    BY <1>3, <2>1, <2>2, <2>3, <2>4 DEF SenderThread
<1>4. CASE RequestControlThread
  BY <1>4
  DEF AwakeInv, Signalling, RequestControlThread, ReceiveFind, ReceiveRefresh, ReceiveAdd,
      ReceiveAnswer
<1>5. CASE Tick \/ UNCHANGED vars
  BY <1>5 DEF AwakeInv, Signalling, Tick, vars
<1> QED
  BY <1>1, <1>2, <1>3, <1>4, <1>5 DEF Next

\* The transmitter neither waits for messages beside a queue that has one nor
\* for the end of a round that is over, unless the signal is still to come.
THEOREM SignalsArrive == Spec => []NoLostSignal
<1>1. Init => AwakeInv
  BY DEF Init, AwakeInv
<1>2. AwakeInv => NoLostSignal
  <2> SUFFICES ASSUME AwakeInv, main.pc = "asleep", done = 0 PROVE Senders({"signal"}) # {}
      BY DEF AwakeInv, NoLostSignal
  <2>1. PICK m \in Messages, c \in Clients : sender[m][c] = "signal"
    BY DEF AwakeInv, Signalling
  <2>2. <<m, c>> \in Senders({"signal"})
    BY <2>1 DEF Senders
  <2> QED
    BY <2>2
<1> QED
  BY <1>1, <1>2, AwakeStep, TypeAlways, PTL DEF Spec

(***************************************************************************)
(* The order of the queue and of the list: a sender is started for the     *)
(* message at the head of the queue only, and at most once for a client.   *)
(***************************************************************************)

Started(m, c) == sender[m][c] # "none" \/ <<m, c>> \in unspawned

\* No sender for client c of the list, nor for any behind it.
Ahead(c) ==
  \A i, j \in 1 .. Len(clients) :
    clients[i] = c /\ i <= j => ~ Started(Head(queue), clients[j])

QueueOnce ==
  /\ \A i, j \in 1 .. Len(queue) : queue[i] = queue[j] => i = j
  /\ \A i \in 1 .. Len(queue) : queue[i] \notin sent \cup {main.message}

StartedOnce ==
  /\ \A m \in Messages, c \in Clients :
       Started(m, c) => \/ m \in sent \cup {main.message}
                        \/ InRound /\ m = Head(queue) /\ c \in Elements(clients)
  /\ \A m \in Messages, c \in Clients : sender[m][c] # "dead"
  /\ main.pc = "first" => \A c \in Clients : ~ Started(Head(queue), c)
  /\ AtNode => Ahead(main.node)
  /\ main.pc = "drop" /\ main.tmp # NoClient => Ahead(main.tmp)

OrderInv ==
  main.pc # "dead" =>
    QueueOnce /\ StartedOnce /\ (main.pc # "file" => main.message = NoMessage)

LEMMA HeadIs ==
  ASSUME TypeInv, InRound
  PROVE  /\ Head(queue) \in Messages
         /\ Head(queue) = queue[1] /\ 1 \in 1 .. Len(queue) /\ Len(queue) \in Nat
<1>1. queue \in Seq(Messages) /\ Len(queue) > 0
  BY DEF TypeInv, TypeOK, Hands
<1> QED
  BY <1>1

LEMMA OrderFrame ==
  ASSUME TypeInv, OrderInv, main.pc # "dead", UNCHANGED <<queue, sent, clients, unspawned>>,
         \A m \in Messages, c \in Clients :
           /\ sender'[m][c] # "none" <=> sender[m][c] # "none"
           /\ sender'[m][c] = "dead" => sender[m][c] = "dead",
         main'.message = main.message,
         InRound' = InRound,
         main'.pc = "file" <=> main.pc = "file",
         main'.pc = "first" => main.pc = "first",
         AtNode' => AtNode /\ main'.node = main.node,
         main'.pc = "drop" => main.pc = "drop" /\ main'.tmp = main.tmp
  PROVE  OrderInv'
<1>1. \A m \in Messages, c \in Clients : Started(m, c)' <=> Started(m, c)
  BY DEF Started
<1>2. QueueOnce'
  BY DEF OrderInv, QueueOnce
<1>3. ASSUME InRound, NEW c, Ahead(c)
      PROVE  Ahead(c)'
  <2>1. Head(queue) \in Messages /\ \A j \in 1 .. Len(clients) : clients[j] \in Clients
    BY <1>3, HeadIs DEF TypeInv, TypeOK
  <2> QED
    BY <1>1, <1>3, <2>1 DEF Ahead
<1>4. \A m \in Messages, c \in Clients :
        Started(m, c)' => \/ m \in sent' \cup {main'.message}
                          \/ InRound' /\ m = Head(queue') /\ c \in Elements(clients')
  BY <1>1 DEF OrderInv, StartedOnce, Elements
<1>5. main'.pc = "first" => \A c \in Clients : ~ Started(Head(queue), c)'
  <2> SUFFICES ASSUME main'.pc = "first", NEW c \in Clients
               PROVE  ~ Started(Head(queue), c)'
      OBVIOUS
  <2>1. Head(queue) \in Messages
    BY HeadIs DEF InRound, QueueFree
  <2> QED
    BY <1>1, <2>1 DEF OrderInv, StartedOnce
<1>6. AtNode' => Ahead(main.node)'
  BY <1>3 DEF OrderInv, StartedOnce, AtNode, InRound, QueueFree
<1>7. main'.pc = "drop" /\ main'.tmp # NoClient => Ahead(main.tmp)'
  BY <1>3 DEF OrderInv, StartedOnce, InRound, QueueFree
<1>8. \A m \in Messages, c \in Clients : sender'[m][c] # "dead"
  BY DEF OrderInv, StartedOnce
<1> QED
  BY <1>2, <1>4, <1>5, <1>6, <1>7, <1>8 DEF OrderInv, StartedOnce

LEMMA SpawnStarts ==
  ASSUME TypeInv, TransmitterSpawn
  PROVE  /\ Head(queue) \in Messages /\ main.node \in Clients /\ InRound
         /\ \A m \in Messages, c \in Clients :
              /\ Started(m, c)' <=> Started(m, c) \/ (m = Head(queue) /\ c = main.node)
              /\ sender'[m][c] = "dead" => sender[m][c] = "dead"
<1>1. InRound /\ main.node \in Clients
  BY DEF TransmitterSpawn, InRound, QueueFree, TypeInv, Hands
<1>2. Head(queue) \in Messages
  BY <1>1, HeadIs
<1>3. CASE sender' = [sender EXCEPT ![Head(queue)][main.node] = "start"] /\ UNCHANGED unspawned
  <2>1. /\ sender'[Head(queue)][main.node] = "start"
        /\ \A n \in Messages, d \in Clients :
             n # Head(queue) \/ d # main.node => sender'[n][d] = sender[n][d]
    BY <1>1, <1>2, <1>3, SenderMoves DEF TypeInv, sender_pcs
  <2> QED
    BY <1>1, <1>2, <1>3, <2>1 DEF Started
<1>4. CASE unspawned' = unspawned \cup {<<Head(queue), main.node>>} /\ UNCHANGED sender
  BY <1>1, <1>2, <1>4 DEF Started
<1> QED
  BY <1>1, <1>2, <1>3, <1>4 DEF TransmitterSpawn

LEMMA OrderTransmitter ==
  ASSUME TypeInv, OrderInv, TransmissionThread
  PROVE  OrderInv'
<1> USE DEF round, sendings
<1>1. CASE TransmitterIdle \/ TransmitterVisit \/ TransmitterSleep \/ TransmitterPass
  BY <1>1, OrderFrame
  DEF TransmitterIdle, TransmitterVisit, TransmitterSleep, TransmitterPass, Goto, At, InRound,
      QueueFree, AtNode
<1>2. CASE TransmitterCount
  <2>1. /\ main.pc = "lock" /\ main'.pc = "first" /\ main'.message = main.message
        /\ UNCHANGED <<queue, sent, clients, sender, unspawned>>
    BY <1>2 DEF TransmitterCount, Goto, At
  <2>2. QueueOnce /\ StartedOnce /\ main.message = NoMessage /\ ~ InRound
    BY <2>1 DEF OrderInv, InRound, QueueFree
  <2>3. InRound'
    BY <2>1 DEF InRound, QueueFree
  <2>4. 1 \in 1 .. Len(queue) /\ Head(queue) = queue[1] /\ Head(queue) \in Messages
    <3>1. queue \in Seq(Messages) /\ Len(queue) > 0
      BY <1>2 DEF TransmitterCount, TypeInv, TypeOK
    <3> QED
      BY <3>1
  <2>5. \A m \in Messages, c \in Clients : Started(m, c)' => m \in sent \cup {main.message}
    BY <2>1, <2>2 DEF StartedOnce, Started
  <2>6. \A c \in Clients : ~ Started(Head(queue), c)'
    BY <2>1, <2>2, <2>4, <2>5 DEF QueueOnce
  <2>7. StartedOnce'
    BY <2>1, <2>2, <2>5, <2>6 DEF StartedOnce, AtNode
  <2>8. QueueOnce'
    BY <2>1, <2>2 DEF QueueOnce
  <2> QED
    BY <2>1, <2>2, <2>7, <2>8 DEF OrderInv
<1>3. CASE TransmitterFirst \/ TransmitterDrop
  <2>1. /\ main.pc \in {"first", "drop"} /\ main'.message = main.message
        /\ UNCHANGED <<queue, sent, clients, sender, unspawned>>
        /\ main'.pc \in {"visit", "barrier"}
    BY <1>3 DEF TransmitterFirst, TransmitterDrop, Advance, At
  <2>2. QueueOnce /\ StartedOnce /\ main.message = NoMessage /\ InRound /\ InRound'
    BY <2>1 DEF OrderInv, InRound, QueueFree
  <2>3. /\ Head(queue) \in Messages
        /\ \A j \in 1 .. Len(clients) : clients[j] \in Clients
    BY <2>2, HeadIs DEF TypeInv, TypeOK
  <2>4. \A m, c : Started(m, c)' <=> Started(m, c)
    BY <2>1 DEF Started
  <2>5. AtNode' => Ahead(main.node)'
    <3>1. CASE main.pc = "first"
      BY <2>1, <2>2, <2>3, <2>4, <3>1 DEF Ahead, StartedOnce
    <3>2. CASE main.pc = "drop"
      <4>1. main'.pc = "visit" => main.tmp # NoClient /\ main'.node = main.tmp
        BY <1>3, <3>2 DEF TransmitterFirst, TransmitterDrop, Advance, At
      <4> QED
        BY <2>1, <2>2, <2>4, <3>2, <4>1 DEF Ahead, StartedOnce, AtNode
    <3> QED
      BY <2>1, <3>1, <3>2
  <2>6. StartedOnce'
    BY <2>1, <2>2, <2>4, <2>5 DEF StartedOnce, Elements
  <2>7. QueueOnce'
    BY <2>1, <2>2 DEF QueueOnce
  <2> QED
    BY <2>1, <2>2, <2>6, <2>7 DEF OrderInv
<1>4. CASE TransmitterDelete
  <2>1. /\ main.pc = "expired" /\ main'.pc = "drop" /\ main'.message = main.message
        /\ main'.tmp = main.tmp /\ clients' = Without(main.node)
        /\ UNCHANGED <<queue, sent, sender, unspawned>>
    BY <1>4 DEF TransmitterDelete, Goto, At
  <2>2. QueueOnce /\ StartedOnce /\ main.message = NoMessage /\ InRound /\ InRound' /\ AtNode
    BY <2>1 DEF OrderInv, InRound, QueueFree, AtNode
  <2>3. \A m, c : Started(m, c)' <=> Started(m, c)
    BY <2>1 DEF Started
  <2>4. PICK p \in 1 .. Len(clients) : clients[p] = main.node
    BY <2>2 DEF TypeInv, ListInv, Elements
  <2>5. /\ Len(clients') = Len(clients) - 1 /\ Len(clients) \in Nat
        /\ \A i \in 1 .. Len(clients) - 1 :
             clients'[i] = IF i < p THEN clients[i] ELSE clients[i + 1]
        /\ Elements(clients') = Elements(clients) \ {main.node}
    BY <2>1, <2>4, ListRemove DEF TypeInv, ListInv
  <2>6. ~ Started(Head(queue), main.node)
    BY <2>2, <2>4, <2>5 DEF StartedOnce, Ahead
  <2>7. ASSUME main.tmp # NoClient
        PROVE  Ahead(main.tmp)'
    <3>1. p < Len(clients) /\ clients[p + 1] = main.tmp
      BY <2>2, <2>4, <2>7 DEF TypeInv, ListInv
    <3> SUFFICES ASSUME NEW i \in 1 .. Len(clients'), NEW j \in 1 .. Len(clients'),
                        clients'[i] = main.tmp, i <= j
                 PROVE  ~ Started(Head(queue), clients[j])'
        BY <2>1 DEF Ahead
    <3>2. i = p
      <4>1. CASE i < p
        BY <2>5, <3>1, <4>1 DEF TypeInv, ListInv, OnceInList
      <4>2. CASE ~ (i < p)
        <5>1. clients[i + 1] = clients[p + 1] /\ i + 1 \in 1 .. Len(clients)
              /\ p + 1 \in 1 .. Len(clients)
          BY <2>5, <3>1, <4>2
        <5>2. i + 1 = p + 1
          BY <5>1 DEF TypeInv, ListInv, OnceInList
        <5> QED
          BY <5>2
      <4> QED
        BY <4>1, <4>2
    <3>3. clients'[j] = clients[j + 1] /\ j + 1 \in 1 .. Len(clients) /\ p <= j + 1
      BY <2>5, <3>2
    <3>4. ~ Started(Head(queue), clients[j + 1])
      BY <2>2, <2>4, <3>3 DEF StartedOnce, Ahead
    <3> QED
      BY <2>1, <2>3, <3>3, <3>4
  <2>8. \A m \in Messages, c \in Clients :
          Started(m, c)' => \/ m \in sent' \cup {main'.message}
                            \/ InRound' /\ m = Head(queue') /\ c \in Elements(clients')
    BY <2>1, <2>2, <2>3, <2>5, <2>6 DEF StartedOnce
  <2>9. StartedOnce'
    BY <2>1, <2>2, <2>7, <2>8 DEF StartedOnce, AtNode
  <2>10. QueueOnce'
    BY <2>1, <2>2 DEF QueueOnce
  <2> QED
    BY <2>1, <2>2, <2>9, <2>10 DEF OrderInv
<1>5. CASE TransmitterSpawn
  <2>1. /\ main.pc = "spawn" /\ main'.message = main.message
        /\ main'.pc \in {"visit", "barrier"}
        /\ main'.pc = "visit" => main.tmp # NoClient /\ main'.node = main.tmp
        /\ UNCHANGED <<queue, sent, clients>>
    BY <1>5 DEF TransmitterSpawn, Advance, At
  <2>2. QueueOnce /\ StartedOnce /\ main.message = NoMessage /\ InRound /\ InRound' /\ AtNode
    BY <2>1 DEF OrderInv, InRound, QueueFree, AtNode
  <2>3. /\ Head(queue) \in Messages
        /\ \A m \in Messages, c \in Clients :
             /\ Started(m, c)' <=> Started(m, c) \/ (m = Head(queue) /\ c = main.node)
             /\ sender'[m][c] = "dead" => sender[m][c] = "dead"
    BY <1>5, SpawnStarts
  <2>4. PICK p \in 1 .. Len(clients) : clients[p] = main.node
    BY <2>2 DEF TypeInv, ListInv, Elements
  <2>5. main.node \in Elements(clients) /\ OnceInList
        /\ \A j \in 1 .. Len(clients) : clients[j] \in Clients
    BY <2>2 DEF TypeInv, TypeOK, ListInv
  <2>6. ASSUME AtNode'
        PROVE  Ahead(main.node)'
    <3>1. p < Len(clients) /\ clients[p + 1] = main'.node
      BY <2>1, <2>2, <2>4, <2>6 DEF TypeInv, ListInv, AtNode
    <3> SUFFICES ASSUME NEW i \in 1 .. Len(clients), NEW j \in 1 .. Len(clients),
                        clients[i] = main'.node, i <= j
                 PROVE  ~ Started(Head(queue), clients[j])'
        BY <2>1 DEF Ahead
    <3>2. i = p + 1
      BY <2>5, <3>1 DEF OnceInList
    <3>3. clients[j] # main.node
      BY <2>4, <2>5, <3>2 DEF OnceInList
    <3>4. ~ Started(Head(queue), clients[j])
      BY <2>2, <2>4, <3>2 DEF StartedOnce, Ahead
    <3> QED
      BY <2>1, <2>3, <2>5, <3>3, <3>4
  <2>7. \A m \in Messages, c \in Clients :
          Started(m, c)' => \/ m \in sent' \cup {main'.message}
                            \/ InRound' /\ m = Head(queue') /\ c \in Elements(clients')
    BY <2>1, <2>2, <2>3, <2>5 DEF StartedOnce
  <2>8. \A m \in Messages, c \in Clients : sender'[m][c] # "dead"
    BY <2>2, <2>3 DEF StartedOnce
  <2>9. StartedOnce'
    BY <2>1, <2>6, <2>7, <2>8 DEF StartedOnce
  <2>10. QueueOnce'
    BY <2>1, <2>2 DEF QueueOnce
  <2> QED
    BY <2>1, <2>2, <2>9, <2>10 DEF OrderInv
<1>6. CASE TransmitterRetire
  <2>1. /\ main.pc = "retire" /\ main'.pc = "file" /\ main'.message = Head(queue)
        /\ queue' = Tail(queue) /\ UNCHANGED <<sent, sender, unspawned>>
    BY <1>6 DEF TransmitterRetire
  <2>2. QueueOnce /\ StartedOnce /\ main.message = NoMessage /\ InRound
    BY <2>1 DEF OrderInv, InRound, QueueFree
  <2>3. /\ Head(queue) \in Messages /\ Head(queue) = queue[1] /\ 1 \in 1 .. Len(queue)
        /\ Len(queue) \in Nat
    BY <2>2, HeadIs
  <2>4. /\ Len(queue') = Len(queue) - 1
        /\ \A i \in 1 .. Len(queue') : queue'[i] = queue[i + 1] /\ i + 1 \in 1 .. Len(queue)
    BY <2>1, <2>3 DEF TypeInv, TypeOK
  <2>5. \A i \in 1 .. Len(queue') : queue'[i] # queue[1]
    BY <2>2, <2>3, <2>4 DEF QueueOnce
  <2>6. QueueOnce'
    BY <2>1, <2>2, <2>3, <2>4, <2>5 DEF QueueOnce
  <2>7. NoMessage \notin Messages
    BY ServerAssumption
  <2>8. StartedOnce'
    BY <2>1, <2>2, <2>7 DEF StartedOnce, Started, AtNode
  <2> QED
    BY <2>1, <2>6, <2>8 DEF OrderInv
<1>7. CASE TransmitterFile
  <2>1. /\ main.pc = "file" /\ main'.pc = "lock" /\ main'.message = NoMessage
        /\ sent' = sent \cup {main.message}
        /\ UNCHANGED <<queue, clients, sender, unspawned>>
    BY <1>7 DEF TransmitterFile
  <2>2. QueueOnce /\ StartedOnce /\ ~ InRound
    BY <2>1 DEF OrderInv, InRound, QueueFree
  <2>3. \A i \in 1 .. Len(queue) : queue[i] # NoMessage
    BY ServerAssumption DEF TypeInv, TypeOK
  <2>4. QueueOnce'
    BY <2>1, <2>2, <2>3 DEF QueueOnce
  <2>5. StartedOnce'
    BY <2>1, <2>2 DEF StartedOnce, Started, AtNode
  <2> QED
    BY <2>1, <2>4, <2>5 DEF OrderInv
<1> QED
  BY <1>1, <1>2, <1>3, <1>4, <1>5, <1>6, <1>7 DEF TransmissionThread

LEMMA SenderFrame ==
  ASSUME TypeInv, NEW m \in Messages, NEW c \in Clients,
         SenderThread(m, c), ~ SenderCrash(m, c)
  PROVE  /\ UNCHANGED <<queue, sent, clients, unspawned>>
         /\ \/ main' = main
            \/ main.pc = "asleep" /\ main' = At("barrier", main.node, main.tmp)
         /\ sender[m][c] \in {"start", "sending", "posted", "signal"}
         /\ sender'[m][c] \in {"sending", "posted", "signal", "end"}
         /\ \A n \in Messages, d \in Clients : n # m \/ d # c => sender'[n][d] = sender[n][d]
<1>1. /\ UNCHANGED <<queue, sent, clients, unspawned>>
      /\ \/ main' = main
         \/ main.pc = "asleep" /\ main' = At("barrier", main.node, main.tmp)
      /\ sender[m][c] \in {"start", "sending", "posted", "signal"}
  BY DEF SenderThread, SenderRead, SenderPost, SenderDone, SenderSignal, Goto
<1>2. PICK p \in {"sending", "posted", "signal", "end"} : sender' = [sender EXCEPT ![m][c] = p]
  BY DEF SenderThread, SenderRead, SenderPost, SenderDone, SenderSignal
<1>3. /\ sender'[m][c] = p
      /\ \A n \in Messages, d \in Clients : n # m \/ d # c => sender'[n][d] = sender[n][d]
  <2>1. sender \in [Messages -> [Clients -> sender_pcs]]
    BY DEF TypeInv, TypeOK
  <2> QED
    BY ONLY <1>2, <2>1
<1> QED
  BY ONLY <1>1, <1>2, <1>3

LEMMA OrderStep == TypeInv /\ OrderInv /\ [Next]_vars => OrderInv'
<1> SUFFICES ASSUME TypeInv, OrderInv, [Next]_vars PROVE OrderInv'
    OBVIOUS
<1> USE DEF round, sendings
<1>1. ASSUME NEW m \in Messages, Load(m)
      PROVE  OrderInv'
  <2>1. /\ main.pc \in QueueFree /\ main'.pc \in QueueFree /\ main'.message = main.message
        /\ main'.pc = "file" <=> main.pc = "file"
        /\ queue' = Append(queue, m) /\ m \notin Elements(queue) \cup sent \cup {main.message}
        /\ UNCHANGED <<sent, clients, sender, unspawned>>
    BY <1>1 DEF Load, WakeIdle, Goto, At, QueueFree
  <2>2. QueueOnce /\ StartedOnce /\ ~ InRound /\ (main.pc # "file" => main.message = NoMessage)
    BY <2>1 DEF OrderInv, InRound, QueueFree
  <2>3. /\ Len(queue) \in Nat /\ Len(queue') = Len(queue) + 1 /\ queue'[Len(queue) + 1] = m
        /\ \A i \in 1 .. Len(queue) : queue'[i] = queue[i] /\ queue[i] # m
    BY <2>1 DEF TypeInv, TypeOK, Elements
  <2>4. QueueOnce'
    BY <2>1, <2>2, <2>3 DEF QueueOnce
  <2>5. StartedOnce'
    BY <2>1, <2>2 DEF StartedOnce, Started, AtNode, QueueFree
  <2> QED
    BY <2>1, <2>2, <2>4, <2>5 DEF OrderInv
<1>2. ASSUME NEW m \in Messages, NEW c \in Clients, SenderThread(m, c)
      PROVE  OrderInv'
  <2>1. CASE SenderCrash(m, c)
    BY <2>1 DEF SenderCrash, Goto, At, OrderInv
  <2>2. CASE ~ SenderCrash(m, c)
    <3>1. CASE main.pc = "dead"
      BY <1>2, <2>2, <3>1, SenderFrame DEF OrderInv
    <3>2. CASE main.pc # "dead"
      BY <1>2, <2>2, <3>2, SenderFrame, OrderFrame DEF At, InRound, QueueFree, AtNode
    <3> QED
      BY <3>1, <3>2
  <2> QED
    BY <2>1, <2>2
<1>3. CASE RequestControlThread
  <2>1. CASE ReceiveAdd
    <3>1. /\ recv.client \in Clients /\ recv.client \notin Elements(clients)
          /\ clients' = Append(clients, recv.client)
          /\ UNCHANGED <<queue, sent, main, sender, unspawned>>
      BY <2>1 DEF ReceiveAdd, TypeInv, Hands, ListInv
    <3>2. /\ Len(clients') = Len(clients) + 1 /\ Len(clients) \in Nat
          /\ \A i \in 1 .. Len(clients) : clients'[i] = clients[i]
          /\ clients'[Len(clients) + 1] = recv.client
          /\ Elements(clients') = Elements(clients) \cup {recv.client}
      BY <3>1, ListAdd DEF TypeInv
    <3>3. \A n, d : Started(n, d)' <=> Started(n, d)
      BY <3>1 DEF Started
    <3>4. ASSUME main.pc # "dead"
          PROVE  QueueOnce' /\ StartedOnce'
      <4>1. QueueOnce /\ StartedOnce /\ (main.pc # "file" => main.message = NoMessage)
        BY <3>4 DEF OrderInv
      <4>2. ASSUME InRound
            PROVE  ~ Started(Head(queue), recv.client)
        <5>1. Head(queue) \in Messages /\ Head(queue) \notin sent \cup {main.message}
          BY <4>1, <4>2, HeadIs DEF QueueOnce
        <5> QED
          BY <3>1, <4>1, <5>1 DEF StartedOnce
      <4>3. ASSUME InRound, NEW c \in Elements(clients), Ahead(c)
            PROVE  Ahead(c)'
        <5> SUFFICES ASSUME NEW i \in 1 .. Len(clients'), NEW j \in 1 .. Len(clients'),
                            clients'[i] = c, i <= j
                     PROVE  ~ Started(Head(queue), clients'[j])
            BY <3>1, <3>3 DEF Ahead
        <5>1. CASE j = Len(clients) + 1
          BY <3>2, <4>2, <4>3, <5>1
        <5>2. CASE j # Len(clients) + 1
          BY <3>2, <4>3, <5>2 DEF Ahead
        <5> QED
          BY <5>1, <5>2
      <4>4. AtNode' => Ahead(main.node)'
        BY <3>1, <4>1, <4>3 DEF StartedOnce, TypeInv, ListInv, AtNode, InRound, QueueFree
      <4>5. main'.pc = "drop" /\ main'.tmp # NoClient => Ahead(main.tmp)'
        BY <3>1, <4>1, <4>3 DEF StartedOnce, TypeInv, ListInv, InRound, QueueFree
      <4>6. StartedOnce'
        BY <3>1, <3>2, <3>3, <4>1, <4>4, <4>5 DEF StartedOnce, InRound
      <4> QED
        BY <3>1, <4>1, <4>6 DEF QueueOnce
    <3> QED
      BY <3>1, <3>4 DEF OrderInv
  <2>2. CASE ~ ReceiveAdd
    <3>1. UNCHANGED <<queue, sent, clients, main, sender, unspawned>>
      BY <1>3, <2>2 DEF RequestControlThread, ReceiveFind, ReceiveRefresh, ReceiveAnswer
    <3> QED
      BY <3>1, OrderFrame DEF OrderInv, InRound, AtNode
  <2> QED
    BY <2>1, <2>2
<1>4. CASE Tick \/ UNCHANGED vars
  <2>1. UNCHANGED <<queue, sent, clients, main, sender, unspawned>>
    BY <1>4 DEF Tick, vars
  <2> QED
    BY <2>1, OrderFrame DEF OrderInv, InRound, AtNode
<1> QED
  BY <1>1, <1>2, <1>3, <1>4, OrderTransmitter DEF Next

LEMMA OrderInit == Init => OrderInv
<1> SUFFICES ASSUME Init PROVE OrderInv
  OBVIOUS
<1>1. queue = <<>> /\ sent = {} /\ main.pc = "lock" /\ main.message = NoMessage
  BY DEF Init
<1>2. QueueOnce
  BY <1>1 DEF QueueOnce
<1>3. \A m \in Messages, c \in Clients : sender[m][c] = "none" /\ ~ Started(m, c)
  BY DEF Init, Started
<1>4. StartedOnce
  BY <1>1, <1>3 DEF StartedOnce, AtNode
<1> QED
  BY <1>1, <1>2, <1>4 DEF OrderInv

LEMMA OrderAlways == Spec => []OrderInv
<1> QED
  BY OrderInit, OrderStep, TypeAlways, PTL DEF Spec

(***************************************************************************)
(* The slots.                                                              *)
(***************************************************************************)

LEMMA PairsFinite ==
  ASSUME NEW S \in SUBSET (Messages \X Clients)
  PROVE  IsFiniteSet(S) /\ Cardinality(S) \in Nat
<1>1. IsFiniteSet(Messages \X Clients)
  BY ServerAssumption, FS_Product
<1>2. IsFiniteSet(S)
  BY <1>1, FS_Subset
<1> QED
  BY <1>2, FS_CardinalityType

LEMMA ClientsFinite ==
  ASSUME NEW S \in SUBSET Clients
  PROVE  IsFiniteSet(S) /\ Cardinality(S) \in Nat
<1>1. IsFiniteSet(S)
  BY ServerAssumption, FS_Subset
<1> QED
  BY <1>1, FS_CardinalityType

\* One sender moves: the sets of those at some pcs gain or lose it.
LEMMA SendersMove ==
  ASSUME NEW m \in Messages, NEW c \in Clients, NEW pcs,
         \A n \in Messages, d \in Clients : n # m \/ d # c => sender'[n][d] = sender[n][d]
  PROVE  /\ Senders(pcs)' = IF sender'[m][c] \in pcs THEN Senders(pcs) \cup {<<m, c>>}
                                                    ELSE Senders(pcs) \ {<<m, c>>}
         /\ SendersOf(m, pcs)' = IF sender'[m][c] \in pcs THEN SendersOf(m, pcs) \cup {c}
                                                         ELSE SendersOf(m, pcs) \ {c}
         /\ \A n \in Messages \ {m} : SendersOf(n, pcs)' = SendersOf(n, pcs)
<1>1. \A p \in Messages \X Clients :
        p = <<m, c>> \/ sender'[p[1]][p[2]] = sender[p[1]][p[2]]
  OBVIOUS
<1>2. <<m, c>>[1] = m /\ <<m, c>>[2] = c /\ <<m, c>> \in Messages \X Clients
  OBVIOUS
<1>3. CASE sender'[m][c] \in pcs
  <2>1. Senders(pcs)' = Senders(pcs) \cup {<<m, c>>}
    BY <1>1, <1>2, <1>3 DEF Senders
  <2> QED
    BY <1>3, <2>1 DEF SendersOf
<1>4. CASE sender'[m][c] \notin pcs
  <2>1. Senders(pcs)' = Senders(pcs) \ {<<m, c>>}
    BY <1>1, <1>2, <1>4 DEF Senders
  <2> QED
    BY <1>4, <2>1 DEF SendersOf
<1> QED
  BY <1>3, <1>4

LEMMA CardAdd ==
  ASSUME NEW S, IsFiniteSet(S), Cardinality(S) \in Nat, NEW x
  PROVE  /\ x \in S => Cardinality(S \ {x}) = Cardinality(S) - 1
         /\ x \notin S => Cardinality(S \cup {x}) = Cardinality(S) + 1
         /\ x \in S => S \cup {x} = S
         /\ x \notin S => S \ {x} = S
<1>1. x \in S => Cardinality(S \ {x}) = Cardinality(S) - 1
  BY FS_RemoveElement
<1>2. x \notin S => Cardinality(S \cup {x}) = Cardinality(S) + 1
  BY FS_AddElement
<1> QED
  BY <1>1, <1>2

\* The senders that hold a unit.
Holding == Senders({"start", "sending"})

LEMMA HoldingFinite ==
  ASSUME TypeInv
  PROVE  /\ IsFiniteSet(Holding) /\ Cardinality(Holding) \in Nat
         /\ IsFiniteSet(unspawned) /\ Cardinality(unspawned) \in Nat /\ slots \in Nat
<1>1. Holding \in SUBSET (Messages \X Clients) /\ unspawned \in SUBSET (Messages \X Clients)
  BY DEF Holding, Senders, TypeInv, TypeOK
<1> QED
  BY <1>1, PairsFinite DEF TypeInv, TypeOK

LEMMA SlotsStep == TypeInv /\ OrderInv /\ SlotsBalanced /\ [Next]_vars => SlotsBalanced'
<1> SUFFICES ASSUME TypeInv, OrderInv, SlotsBalanced, [Next]_vars, main'.pc # "dead"
             PROVE  slots' + Cardinality(Holding') + Cardinality(unspawned')
                      = MAX_ACTIVE_SENDINGS
    BY DEF SlotsBalanced, Holding
<1>1. CASE UNCHANGED <<slots, sender, unspawned>> /\ main.pc # "dead"
  <2>1. Holding' = Holding
    BY <1>1 DEF Holding, Senders
  <2> QED
    BY <1>1, <2>1 DEF SlotsBalanced, Holding
<1>2. CASE TransmitterSpawn
  <2> DEFINE it == <<Head(queue), main.node>>
  <2>1. /\ main.pc = "spawn" /\ main.pc # "dead" /\ slots' = slots - 1
        /\ Head(queue) \in Messages /\ main.node \in Clients
    BY <1>2, SpawnStarts DEF TransmitterSpawn
  <2>2. ~ Started(Head(queue), main.node)
    <3>1. Ahead(main.node) /\ main.node \in Elements(clients)
      BY <2>1 DEF OrderInv, StartedOnce, AtNode, TypeInv, ListInv
    <3> QED
      BY <3>1 DEF Ahead, Elements
  <2>3. it \notin Holding /\ it \notin unspawned
    BY <2>2 DEF Started, Holding, Senders
  <2>4. slots + Cardinality(Holding) + Cardinality(unspawned) = MAX_ACTIVE_SENDINGS
    BY <2>1 DEF SlotsBalanced, Holding
  <2>5. CASE sender' = [sender EXCEPT ![Head(queue)][main.node] = "start"] /\ UNCHANGED unspawned
    <3>1. /\ sender'[Head(queue)][main.node] = "start"
          /\ \A n \in Messages, d \in Clients :
               n # Head(queue) \/ d # main.node => sender'[n][d] = sender[n][d]
      BY <2>1, <2>5, SenderMoves DEF TypeInv, sender_pcs
    <3>2. Holding' = Holding \cup {it}
      BY <2>1, <3>1, SendersMove DEF Holding
    <3>3. Cardinality(Holding') = Cardinality(Holding) + 1
      BY <2>3, <3>2, HoldingFinite, CardAdd
    <3> QED
      BY <2>1, <2>4, <2>5, <3>3, HoldingFinite
  <2>6. CASE unspawned' = unspawned \cup {it} /\ UNCHANGED sender
    <3>1. Cardinality(unspawned') = Cardinality(unspawned) + 1
      BY <2>3, <2>6, HoldingFinite, CardAdd
    <3>2. Holding' = Holding
      BY <2>6 DEF Holding, Senders
    <3> QED
      BY <2>1, <2>4, <3>1, <3>2, HoldingFinite
  <2> QED
    BY <1>2, <2>5, <2>6 DEF TransmitterSpawn
<1>3. ASSUME NEW m \in Messages, NEW c \in Clients, SenderThread(m, c)
      PROVE  slots' + Cardinality(Holding') + Cardinality(unspawned') = MAX_ACTIVE_SENDINGS
  <2>1. ~ SenderCrash(m, c)
    BY DEF SenderCrash, Goto, At
  <2>2. /\ unspawned' = unspawned
        /\ \A n \in Messages, d \in Clients : n # m \/ d # c => sender'[n][d] = sender[n][d]
    BY <1>3, <2>1, SenderFrame
  <2>3. main.pc # "dead" /\ slots + Cardinality(Holding) + Cardinality(unspawned) = MAX_ACTIVE_SENDINGS
    BY <1>3, <2>1, SenderFrame DEF SlotsBalanced, Holding
  <2>4. <<m, c>> \in Holding <=> sender[m][c] \in {"start", "sending"}
    BY DEF Holding, Senders
  <2>5. CASE SenderPost(m, c)
    <3>1. slots' = slots + 1 /\ sender[m][c] = "sending" /\ sender'[m][c] = "posted"
      BY <2>5, SenderMoves DEF SenderPost, TypeInv, sender_pcs
    <3>2. Holding' = Holding \ {<<m, c>>}
      BY <2>2, <3>1, SendersMove DEF Holding
    <3>3. Cardinality(Holding') = Cardinality(Holding) - 1
      BY <2>4, <3>1, <3>2, HoldingFinite, CardAdd
    <3> QED
      BY <2>2, <2>3, <3>1, <3>3, HoldingFinite
  <2>6. CASE ~ SenderPost(m, c)
    <3>1. /\ slots' = slots
          /\ (sender[m][c] \in {"start", "sending"}) <=> (sender'[m][c] \in {"start", "sending"})
      <4>1. CASE SenderRead(m, c)
        BY <4>1, SenderMoves DEF SenderRead, TypeInv, sender_pcs
      <4>2. CASE SenderDone(m, c)
        BY <4>2, SenderMoves DEF SenderDone, TypeInv, sender_pcs
      <4>3. CASE SenderSignal(m, c)
        BY <4>3, SenderMoves DEF SenderSignal, TypeInv, sender_pcs
      <4> QED
        BY <1>3, <2>1, <2>6, <4>1, <4>2, <4>3 DEF SenderThread
    <3>2. Holding' = IF sender'[m][c] \in {"start", "sending"} THEN Holding \cup {<<m, c>>}
                                                              ELSE Holding \ {<<m, c>>}
      BY <2>2, SendersMove DEF Holding
    <3>3. Holding' = Holding
      BY <2>4, <3>1, <3>2
    <3> QED
      BY <2>2, <2>3, <3>1, <3>3
  <2> QED
    BY <2>5, <2>6
<1>4. CASE (\E m \in Messages : Load(m)) \/ RequestControlThread \/ Tick \/ UNCHANGED vars
  <2>1. UNCHANGED <<slots, sender, unspawned>>
    BY <1>4
    DEF Load, RequestControlThread, ReceiveFind, ReceiveRefresh, ReceiveAdd, ReceiveAnswer, Tick,
        vars, sendings
  <2>2. main.pc # "dead"
    BY <1>4
    DEF Load, WakeIdle, RequestControlThread, ReceiveFind, ReceiveRefresh, ReceiveAdd,
        ReceiveAnswer, Tick, vars, QueueFree
  <2> QED
    BY <1>1, <2>1, <2>2
<1>5. CASE TransmissionThread /\ ~ TransmitterSpawn
  <2>1. UNCHANGED <<slots, sender, unspawned>> /\ main.pc # "dead"
    BY <1>5
    DEF TransmissionThread, TransmitterIdle, TransmitterCount, TransmitterFirst,
        TransmitterVisit, TransmitterDelete, TransmitterDrop, TransmitterSleep, TransmitterPass,
        TransmitterRetire, TransmitterFile, sendings
  <2> QED
    BY <1>1, <2>1
<1> QED
  BY <1>2, <1>3, <1>4, <1>5 DEF Next

\* No unit of max_sendings_semaphore is lost or made, save those that went with
\* threads that could not be created: so never more threads send than it allows.
THEOREM SlotsNeverLeak == Spec => []SlotsBalanced
<1>1. Init => SlotsBalanced
  <2> SUFFICES ASSUME Init PROVE SlotsBalanced
      OBVIOUS
  <2>1. Senders({"start", "sending"}) = {} /\ unspawned = {} /\ slots = MAX_ACTIVE_SENDINGS
    BY DEF Init, Senders
  <2> QED
    BY <2>1, FS_EmptySet, ServerAssumption DEF SlotsBalanced
<1> QED
  BY <1>1, SlotsStep, TypeAlways, OrderAlways, PTL DEF Spec

(***************************************************************************)
(* The rounds: what sending_done_semaphore counts while every round has    *)
(* met the clients it counted and no other.                                *)
(***************************************************************************)

Active(m) == SendersOf(m, {"start", "sending", "posted"})

Lost(m) == {c \in Clients : <<m, c>> \in unspawned}

\* Every client counted is still to come, in hand, or has its sender.
Counted ==
  \A c \in audience : \/ c \in due
                      \/ Started(Head(queue), c)
                      \/ main.pc \in {"expired", "spawn"} /\ main.node = c

Complete ==
  \A m \in Messages, c \in Clients :
    /\ m \notin Elements(queue) => sender[m][c] \in {"none", "signal", "end"}
    /\ sender[m][c] \in {"sending", "posted", "signal", "end"} => message[m][c] = m

RoundFacts ==
  /\ main.pc # "dead"
  /\ main.pc \in {"retire"} \cup QueueFree => done = 0
  /\ InRound => done = Outstanding(Head(queue)) /\ Counted
  /\ Complete

RoundInv == ~ surplus => RoundFacts

LEMMA SumIsZero ==
  ASSUME NEW a \in Nat, NEW b \in Nat, NEW c \in Nat, NEW d \in Nat, a + b + c + d = 0
  PROVE  a = 0 /\ b = 0 /\ c = 0
<1> QED
  OBVIOUS

LEMMA OutstandingParts ==
  ASSUME TypeInv, NEW m \in Messages
  PROVE  /\ IsFiniteSet(due) /\ Cardinality(due) \in Nat
         /\ IsFiniteSet(Active(m)) /\ Cardinality(Active(m)) \in Nat
         /\ IsFiniteSet(Lost(m)) /\ Cardinality(Lost(m)) \in Nat
         /\ Outstanding(m) =
              Cardinality(due) + Cardinality(Active(m)) + Cardinality(Lost(m))
                + (IF main.pc \in {"expired", "drop", "spawn"} THEN 1 ELSE 0)
         /\ Outstanding(m) = 0 => due = {} /\ Active(m) = {} /\ Lost(m) = {}
<1>1. due \in SUBSET Clients /\ Active(m) \in SUBSET Clients /\ Lost(m) \in SUBSET Clients
  BY DEF Active, Lost, SendersOf, TypeInv, TypeOK
<1>2. /\ IsFiniteSet(due) /\ Cardinality(due) \in Nat
      /\ IsFiniteSet(Active(m)) /\ Cardinality(Active(m)) \in Nat
      /\ IsFiniteSet(Lost(m)) /\ Cardinality(Lost(m)) \in Nat
  BY <1>1, ClientsFinite
<1>3. Outstanding(m) =
        Cardinality(due) + Cardinality(Active(m)) + Cardinality(Lost(m))
          + (IF main.pc \in {"expired", "drop", "spawn"} THEN 1 ELSE 0)
  BY DEF Outstanding, Active, Lost
<1>4. Outstanding(m) = 0 =>
        Cardinality(due) = 0 /\ Cardinality(Active(m)) = 0 /\ Cardinality(Lost(m)) = 0
  <2> DEFINE hand == IF main.pc \in {"expired", "drop", "spawn"} THEN 1 ELSE 0
  <2>1. hand \in Nat
    OBVIOUS
  <2>2. Outstanding(m) =
          Cardinality(due) + Cardinality(Active(m)) + Cardinality(Lost(m)) + hand
    BY <1>3
  <2> HIDE DEF hand
  <2>3. ASSUME Outstanding(m) = 0
        PROVE  Cardinality(due) = 0 /\ Cardinality(Active(m)) = 0 /\ Cardinality(Lost(m)) = 0
    <3>1. Cardinality(due) + Cardinality(Active(m)) + Cardinality(Lost(m)) + hand = 0
      BY ONLY <2>2, <2>3
    <3> QED
      BY ONLY <1>2, <2>1, <3>1, SumIsZero
  <2> QED
    BY <2>3
<1> QED
  BY <1>2, <1>3, <1>4, FS_EmptySet

LEMMA ListCount ==
  ASSUME TypeInv
  PROVE  Cardinality(Elements(clients)) = Len(clients)
<1> DEFINE f == [i \in 1 .. Len(clients) |-> clients[i]]
<1>1. /\ f \in [1 .. Len(clients) -> Elements(clients)]
      /\ \A i, j \in 1 .. Len(clients) : f[i] = f[j] => i = j
      /\ \A c \in Elements(clients) : \E i \in 1 .. Len(clients) : f[i] = c
  BY DEF TypeInv, ListInv, OnceInList, Elements
<1>2. ExistsBijection(1 .. Len(clients), Elements(clients)) /\ Len(clients) \in Nat
  <2>1. f \in Bijection(1 .. Len(clients), Elements(clients))
    BY <1>1, Fun_IsBij
  <2> QED
    BY <2>1 DEF ExistsBijection, TypeInv, TypeOK
<1> QED
  BY <1>2, FS_CountingElements

LEMMA RoundFrame ==
  ASSUME RoundFacts, UNCHANGED <<queue, done, due, audience, sender, message, unspawned>>,
         main'.pc # "dead",
         main'.pc \in {"retire"} \cup QueueFree => done = 0,
         InRound' => InRound,
         (main'.pc \in {"expired", "drop", "spawn"}) <=> (main.pc \in {"expired", "drop", "spawn"}),
         main.pc \in {"expired", "spawn"} => main'.pc = main.pc /\ main'.node = main.node
  PROVE  RoundFacts'
<1>1. Outstanding(Head(queue))' = Outstanding(Head(queue))
  BY DEF Outstanding, SendersOf
<1>2. Complete'
  BY DEF RoundFacts, Complete, Elements
<1>3. Counted => Counted'
  BY DEF Counted, Started
<1> QED
  BY <1>1, <1>2, <1>3 DEF RoundFacts

LEMMA RoundTransmitter ==
  ASSUME TypeInv, OrderInv, OrderInv', RoundFacts, TransmissionThread, ~ surplus'
  PROVE  RoundFacts'
<1> USE DEF round, sendings
<1>1. CASE TransmitterIdle \/ TransmitterFirst \/ TransmitterSleep \/ TransmitterPass \/ TransmitterFile
  BY <1>1, RoundFrame
  DEF RoundFacts, TransmitterIdle, TransmitterFirst, TransmitterSleep, TransmitterPass,
      TransmitterFile, Goto, At, InRound, QueueFree
<1>2. CASE TransmitterCount
  <2>1. /\ main'.pc = "first" /\ done' = Len(clients) /\ due' = Elements(clients)
        /\ audience' = Elements(clients) /\ TypeInv'
        /\ UNCHANGED <<queue, clients, sender, message, unspawned>>
    BY <1>2, TypeTransmitter DEF TransmitterCount, Goto, At, TransmissionThread
  <2>2. Head(queue) \in Messages
    <3>1. queue \in Seq(Messages) /\ Len(queue) > 0
      BY <1>2 DEF TransmitterCount, TypeInv, TypeOK
    <3> QED
      BY <3>1
  <2>3. \A c \in Clients : ~ Started(Head(queue), c)'
    BY <2>1 DEF OrderInv, StartedOnce
  <2>4. Active(Head(queue))' = {} /\ Lost(Head(queue))' = {}
    BY <2>1, <2>2, <2>3 DEF Active, Lost, SendersOf, Started
  <2>5. Outstanding(Head(queue))' = Cardinality(Elements(clients))
    <3>1. Outstanding(Head(queue))' = Cardinality(due') + 0 + 0 + 0
      BY <2>1, <2>4, FS_EmptySet DEF Outstanding, Active, Lost
    <3>2. Cardinality(Elements(clients)) \in Nat
      BY ListCount DEF TypeInv, TypeOK
    <3> QED
      BY <2>1, <3>1, <3>2
  <2>6. Complete'
    BY <2>1 DEF RoundFacts, Complete, Elements
  <2> QED
    BY <2>1, <2>5, <2>6, ListCount DEF RoundFacts, Counted, QueueFree
<1>3. CASE TransmitterVisit
  <2>1. /\ main.pc = "visit" /\ main'.pc \in {"expired", "spawn"} /\ main'.node = main.node
        /\ due' = due \ {main.node} /\ main.node \in due
        /\ UNCHANGED <<queue, clients, sender, message, unspawned, done, audience>>
    BY <1>3 DEF TransmitterVisit, Goto, At
  <2>2. InRound /\ Head(queue) \in Messages
    BY <2>1, HeadIs DEF InRound, QueueFree
  <2>3. Cardinality(due') = Cardinality(due) - 1
    BY <2>1, <2>2, OutstandingParts, CardAdd
  <2>4. Outstanding(Head(queue))' = Outstanding(Head(queue))
    <3>1. Active(Head(queue))' = Active(Head(queue)) /\ Lost(Head(queue))' = Lost(Head(queue))
      BY <2>1 DEF Active, Lost, SendersOf
    <3>2. Outstanding(Head(queue))' =
            Cardinality(due') + Cardinality(Active(Head(queue))) + Cardinality(Lost(Head(queue))) + 1
      BY <2>1, <3>1 DEF Outstanding, Active, Lost
    <3> QED
      BY <2>1, <2>2, <2>3, <3>2, OutstandingParts
  <2>5. Counted'
    BY <2>1, <2>2 DEF RoundFacts, Counted, Started
  <2>6. Complete'
    BY <2>1 DEF RoundFacts, Complete, Elements
  <2> QED
    BY <2>1, <2>2, <2>4, <2>5, <2>6 DEF RoundFacts, QueueFree
<1>4. CASE TransmitterDelete
  <2>1. /\ main.pc = "expired" /\ main'.pc = "drop" /\ audience' = audience \ {main.node}
        /\ UNCHANGED <<queue, sender, message, unspawned, done, due>>
    BY <1>4 DEF TransmitterDelete, Goto, At
  <2>2. InRound
    BY <2>1 DEF InRound, QueueFree
  <2>3. Outstanding(Head(queue))' = Outstanding(Head(queue))
    BY <2>1 DEF Outstanding, SendersOf
  <2>4. Counted' /\ Complete'
    BY <2>1, <2>2 DEF RoundFacts, Counted, Complete, Started, Elements
  <2> QED
    BY <2>1, <2>2, <2>3, <2>4 DEF RoundFacts, QueueFree
<1>5. CASE TransmitterDrop
  <2>1. /\ main.pc = "drop" /\ main'.pc \in {"visit", "barrier"} /\ done' = done - 1
        /\ UNCHANGED <<queue, sender, message, unspawned, due, audience>>
    BY <1>5 DEF TransmitterDrop, TakeDone, Advance, At
  <2>2. InRound /\ Head(queue) \in Messages
    BY <2>1, HeadIs DEF InRound, QueueFree
  <2>3. Outstanding(Head(queue))' = Outstanding(Head(queue)) - 1
    <3>1. Active(Head(queue))' = Active(Head(queue)) /\ Lost(Head(queue))' = Lost(Head(queue))
      BY <2>1 DEF Active, Lost, SendersOf
    <3>2. Outstanding(Head(queue))' =
            Cardinality(due) + Cardinality(Active(Head(queue))) + Cardinality(Lost(Head(queue))) + 0
      BY <2>1, <3>1 DEF Outstanding, Active, Lost
    <3> QED
      BY <2>1, <2>2, <3>2, OutstandingParts
  <2>4. Counted' /\ Complete'
    BY <2>1, <2>2 DEF RoundFacts, Counted, Complete, Started, Elements
  <2> QED
    BY <2>1, <2>2, <2>3, <2>4 DEF RoundFacts, QueueFree
<1>6. CASE TransmitterSpawn
  <2>1. /\ main.pc = "spawn" /\ main'.pc \in {"visit", "barrier"}
        /\ UNCHANGED <<queue, message, due, audience, done>>
    BY <1>6 DEF TransmitterSpawn, Advance, At
  <2>2. /\ InRound /\ Head(queue) \in Messages /\ main.node \in Clients
        /\ Head(queue) = queue[1] /\ 1 \in 1 .. Len(queue)
    BY <1>6, SpawnStarts, HeadIs
  <2>3. ~ Started(Head(queue), main.node)
    <3>1. Ahead(main.node) /\ main.node \in Elements(clients)
      BY <2>1 DEF OrderInv, StartedOnce, AtNode, TypeInv, ListInv
    <3> QED
      BY <3>1 DEF Ahead, Elements
  <2>4. main.node \notin Active(Head(queue)) /\ main.node \notin Lost(Head(queue))
    BY <2>3 DEF Started, Active, Lost, SendersOf
  <2>5. CASE sender' = [sender EXCEPT ![Head(queue)][main.node] = "start"] /\ UNCHANGED unspawned
    <3>1. /\ sender'[Head(queue)][main.node] = "start"
          /\ \A n \in Messages, d \in Clients :
               n # Head(queue) \/ d # main.node => sender'[n][d] = sender[n][d]
      BY <2>2, <2>5, SenderMoves DEF TypeInv, sender_pcs
    <3>2. SendersOf(Head(queue), {"start", "sending", "posted"})' = Active(Head(queue)) \cup {main.node}
      BY <2>1, <2>2, <3>1, SendersMove DEF Active
    <3>3. Cardinality(Active(Head(queue)) \cup {main.node}) = Cardinality(Active(Head(queue))) + 1
      BY <2>2, <2>4, OutstandingParts, CardAdd
    <3>4. Outstanding(Head(queue))' =
            Cardinality(due) + Cardinality(Active(Head(queue)) \cup {main.node})
              + Cardinality(Lost(Head(queue))) + 0
      BY <2>1, <2>5, <3>2 DEF Outstanding, Lost
    <3>5. Outstanding(Head(queue))' = Outstanding(Head(queue))
      BY <2>1, <2>2, <3>3, <3>4, OutstandingParts
    <3>6. Complete'
      BY <2>1, <2>2, <3>1 DEF RoundFacts, Complete, Elements
    <3>7. Counted'
      BY <1>6, <2>1, <2>2, SpawnStarts DEF RoundFacts, Counted, TypeInv, TypeOK
    <3> QED
      BY <2>1, <2>2, <3>5, <3>6, <3>7 DEF RoundFacts, QueueFree
  <2>6. CASE unspawned' = unspawned \cup {<<Head(queue), main.node>>} /\ UNCHANGED sender
    <3>1. {c \in Clients : <<Head(queue), c>> \in unspawned}' = Lost(Head(queue)) \cup {main.node}
      BY <2>1, <2>2, <2>6 DEF Lost
    <3>2. Cardinality(Lost(Head(queue)) \cup {main.node}) = Cardinality(Lost(Head(queue))) + 1
      BY <2>2, <2>4, OutstandingParts, CardAdd
    <3>3. Outstanding(Head(queue))' =
            Cardinality(due) + Cardinality(Active(Head(queue)))
              + Cardinality(Lost(Head(queue)) \cup {main.node}) + 0
      BY <2>1, <2>6, <3>1 DEF Outstanding, Active, SendersOf
    <3>4. Outstanding(Head(queue))' = Outstanding(Head(queue))
      BY <2>1, <2>2, <3>2, <3>3, OutstandingParts
    <3>5. Complete'
      BY <2>1, <2>6 DEF RoundFacts, Complete, Elements
    <3>6. Counted'
      BY <1>6, <2>1, <2>2, SpawnStarts DEF RoundFacts, Counted, TypeInv, TypeOK
    <3> QED
      BY <2>1, <2>2, <3>4, <3>5, <3>6 DEF RoundFacts, QueueFree
  <2> QED
    BY <1>6, <2>5, <2>6 DEF TransmitterSpawn
<1>7. CASE TransmitterRetire
  <2>1. /\ main.pc = "retire" /\ main'.pc = "file" /\ queue' = Tail(queue)
        /\ UNCHANGED <<sender, message, unspawned, done>>
    BY <1>7 DEF TransmitterRetire
  <2>2. InRound /\ Head(queue) \in Messages /\ Head(queue) = queue[1] /\ Len(queue) \in Nat
    BY <2>1, HeadIs DEF InRound, QueueFree
  <2>3. Active(Head(queue)) = {}
    BY <2>1, <2>2, OutstandingParts DEF RoundFacts
  <2>4. \A c \in Clients : sender[Head(queue)][c] \in {"none", "signal", "end"}
    BY <2>1, <2>2, <2>3 DEF Active, SendersOf, OrderInv, StartedOnce, TypeInv, TypeOK, sender_pcs
  <2>5. \A m \in Elements(queue) : m = Head(queue) \/ m \in Elements(queue')
    <3> SUFFICES ASSUME NEW i \in 1 .. Len(queue), i # 1
                 PROVE  queue[i] \in Elements(queue')
        BY <2>2 DEF Elements
    <3>1. i - 1 \in 1 .. Len(queue') /\ queue'[i - 1] = queue[i]
      BY <2>1, <2>2 DEF TypeInv, TypeOK
    <3> QED
      BY <3>1 DEF Elements
  <2>6. Complete'
    BY <2>1, <2>4, <2>5 DEF RoundFacts, Complete
  <2> QED
    BY <2>1, <2>6 DEF RoundFacts, InRound, QueueFree
<1> QED
  BY <1>1, <1>2, <1>3, <1>4, <1>5, <1>6, <1>7 DEF TransmissionThread

\* A sender that has not signalled yet is one of the round's.
LEMMA SenderOfRound ==
  ASSUME TypeInv, OrderInv, RoundFacts, NEW m \in Messages, NEW c \in Clients,
         sender[m][c] \in {"start", "sending", "posted"}
  PROVE  InRound /\ m = Head(queue) /\ m \in Elements(queue) /\ c \in Elements(clients)
<1>1. m \in Elements(queue)
  BY DEF RoundFacts, Complete
<1>2. QueueOnce /\ StartedOnce
  BY DEF OrderInv, RoundFacts
<1>3. m \notin sent \cup {main.message}
  BY <1>1, <1>2 DEF QueueOnce, Elements
<1>4. Started(m, c)
  BY DEF Started
<1> QED
  BY <1>1, <1>2, <1>3, <1>4 DEF StartedOnce

LEMMA RoundSender ==
  ASSUME TypeInv, OrderInv, RoundFacts, NEW m \in Messages, NEW c \in Clients,
         SenderThread(m, c)
  PROVE  RoundFacts'
<1> DEFINE active == {"start", "sending", "posted"}
<1>1. ~ SenderCrash(m, c)
  BY SenderOfRound DEF SenderCrash, Elements, TypeInv, TypeOK
<1>2. /\ UNCHANGED <<queue, unspawned>>
      /\ \/ main' = main
         \/ main.pc = "asleep" /\ main' = At("barrier", main.node, main.tmp)
      /\ sender[m][c] \in {"start", "sending", "posted", "signal"}
      /\ sender'[m][c] \in {"sending", "posted", "signal", "end"}
      /\ \A n \in Messages, d \in Clients : n # m \/ d # c => sender'[n][d] = sender[n][d]
  BY <1>1, SenderFrame
<1>3. UNCHANGED <<due, audience>>
  BY <1>1 DEF SenderThread, SenderRead, SenderPost, SenderDone, SenderSignal, round
<1>4. \A n \in Messages, d \in Clients : Started(n, d) => Started(n, d)'
  BY <1>2 DEF Started
<1>5. InRound => Counted'
  BY <1>2, <1>3, <1>4, HeadIs DEF RoundFacts, Counted, At, TypeInv, TypeOK
<1>6. InRound' = InRound /\ main'.pc # "dead"
  BY <1>2 DEF RoundFacts, InRound, QueueFree, At
<1>7. CASE SenderRead(m, c)
  <2>1. /\ sender[m][c] = "start" /\ sender'[m][c] = "sending" /\ message'[m][c] = Head(queue)
        /\ main' = main /\ done' = done
        /\ \A n \in Messages, d \in Clients : n # m \/ d # c => message'[n][d] = message[n][d]
    <3>1. sender[m][c] = "start" /\ main' = main /\ done' = done
      BY <1>7 DEF SenderRead
    <3>2. sender'[m][c] = "sending"
      BY <1>7, SenderMoves DEF SenderRead, TypeInv, sender_pcs
    <3>3. Head(queue) \in Messages
      BY <1>7 DEF SenderRead, TypeInv, TypeOK
    <3>4. message \in [Messages -> [Clients -> Messages \cup {NoMessage}]]
      BY DEF TypeInv, TypeOK
    <3>5. message' = [message EXCEPT ![m][c] = Head(queue)]
      BY <1>7 DEF SenderRead
    <3> QED
      BY <3>1, <3>2, <3>3, <3>4, <3>5, MessageMoves
  <2>2. InRound /\ m = Head(queue) /\ m \in Elements(queue)
    BY <2>1, SenderOfRound
  <2>3. Complete'
    BY <1>2, <2>1, <2>2 DEF RoundFacts, Complete
  <2>4. Active(m)' = Active(m)
    <3>1. SendersOf(m, active)' = SendersOf(m, active) \cup {c}
      BY <1>2, <2>1, SendersMove
    <3> QED
      BY <2>1, <3>1 DEF Active, SendersOf
  <2>5. Outstanding(m)' = Outstanding(m)
    BY <1>2, <1>3, <2>1, <2>4 DEF Outstanding, Active
  <2> QED
    BY <1>2, <1>5, <2>1, <2>2, <2>3, <2>5 DEF RoundFacts
<1>8. CASE SenderPost(m, c)
  <2>1. /\ sender[m][c] = "sending" /\ sender'[m][c] = "posted" /\ message' = message
        /\ main' = main /\ done' = done
    BY <1>8, SenderMoves DEF SenderPost, TypeInv, sender_pcs
  <2>2. InRound /\ m = Head(queue) /\ m \in Elements(queue)
    BY <2>1, SenderOfRound
  <2>3. Complete'
    BY <1>2, <2>1, <2>2 DEF RoundFacts, Complete
  <2>4. Active(m)' = Active(m)
    <3>1. SendersOf(m, active)' = SendersOf(m, active) \cup {c}
      BY <1>2, <2>1, SendersMove
    <3> QED
      BY <2>1, <3>1 DEF Active, SendersOf
  <2>5. Outstanding(m)' = Outstanding(m)
    BY <1>2, <1>3, <2>1, <2>4 DEF Outstanding, Active
  <2> QED
    BY <1>2, <1>5, <2>1, <2>2, <2>3, <2>5 DEF RoundFacts
<1>9. CASE SenderDone(m, c)
  <2>1. /\ sender[m][c] = "posted" /\ sender'[m][c] = "signal" /\ message' = message
        /\ main' = main /\ done' = done - 1 /\ done > 0
    BY <1>9, SenderMoves DEF SenderDone, TakeDone, TypeInv, sender_pcs
  <2>2. InRound /\ m = Head(queue) /\ m \in Elements(queue)
    BY <2>1, SenderOfRound
  <2>3. Complete'
    BY <1>2, <2>1, <2>2 DEF RoundFacts, Complete
  <2>4. Active(m)' = Active(m) \ {c} /\ c \in Active(m)
    <3>1. SendersOf(m, active)' = SendersOf(m, active) \ {c}
      BY <1>2, <2>1, SendersMove
    <3> QED
      BY <2>1, <3>1 DEF Active, SendersOf
  <2>5. Cardinality(Active(m) \ {c}) = Cardinality(Active(m)) - 1
    BY <2>4, OutstandingParts, CardAdd
  <2>6. Outstanding(m)' = Outstanding(m) - 1
    <3>1. Outstanding(m)' =
            Cardinality(due) + Cardinality(Active(m) \ {c}) + Cardinality(Lost(m))
              + (IF main.pc \in {"expired", "drop", "spawn"} THEN 1 ELSE 0)
      BY <1>2, <1>3, <2>1, <2>4 DEF Outstanding, Active, Lost
    <3> QED
      BY <2>5, <3>1, OutstandingParts
  <2> QED
    BY <1>2, <1>5, <2>1, <2>2, <2>3, <2>6 DEF RoundFacts, InRound
<1>10. CASE SenderSignal(m, c)
  <2>1. /\ sender[m][c] = "signal" /\ sender'[m][c] = "end" /\ message' = message
        /\ done' = done
    BY <1>10, SenderMoves DEF SenderSignal, TypeInv, sender_pcs
  <2>2. Complete'
    BY <1>2, <2>1 DEF RoundFacts, Complete
  <2>3. ASSUME NEW n \in Messages PROVE Outstanding(n)' = Outstanding(n)
    <3>1. \A d \in Clients : (sender'[n][d] \in active) <=> (sender[n][d] \in active)
      BY <1>2, <2>1
    <3>2. SendersOf(n, active)' = SendersOf(n, active)
      BY <3>1 DEF SendersOf
    <3>3. (main'.pc \in {"expired", "drop", "spawn"}) <=> (main.pc \in {"expired", "drop", "spawn"})
      BY <1>2 DEF At
    <3> QED
      BY <1>2, <1>3, <3>2, <3>3 DEF Outstanding
  <2>4. InRound => Outstanding(Head(queue))' = Outstanding(Head(queue))
    BY <1>2, <2>3, HeadIs
  <2>5. main'.pc \in {"retire"} \cup QueueFree => done' = 0
    BY <1>2, <2>1 DEF RoundFacts, QueueFree, At
  <2> QED
    BY <1>2, <1>5, <1>6, <2>1, <2>2, <2>4, <2>5 DEF RoundFacts
<1> QED
  BY <1>1, <1>7, <1>8, <1>9, <1>10 DEF SenderThread

LEMMA RoundStep == TypeInv /\ OrderInv /\ OrderInv' /\ RoundInv /\ [Next]_vars => RoundInv'
<1> SUFFICES ASSUME TypeInv, OrderInv, OrderInv', RoundInv, [Next]_vars, ~ surplus'
             PROVE  RoundFacts'
    BY DEF RoundInv
<1>1. ~ surplus
  BY DEF Next, Load, TransmissionThread, TransmitterIdle, TransmitterCount, TransmitterFirst,
         TransmitterVisit, TransmitterDelete, TransmitterDrop, TransmitterSpawn,
         TransmitterSleep, TransmitterPass, TransmitterRetire, TransmitterFile, SenderThread,
         SenderRead, SenderCrash, SenderPost, SenderDone, SenderSignal, RequestControlThread,
         ReceiveFind, ReceiveRefresh, ReceiveAdd, ReceiveAnswer, Tick, vars, round, TypeInv, TypeOK
<1>2. RoundFacts
  BY <1>1 DEF RoundInv
<1>3. ASSUME NEW m \in Messages, Load(m)
      PROVE  RoundFacts'
  <2>1. /\ main.pc \in QueueFree /\ main'.pc \in QueueFree
        /\ queue' = Append(queue, m) /\ UNCHANGED <<sender, message, done>>
    BY <1>3 DEF Load, WakeIdle, Goto, At, QueueFree, sendings
  <2>2. Elements(queue) \subseteq Elements(queue')
    BY <2>1 DEF Elements, TypeInv, TypeOK
  <2>3. Complete'
    BY <1>2, <2>1, <2>2 DEF RoundFacts, Complete
  <2> QED
    BY <1>2, <2>1, <2>3 DEF RoundFacts, InRound, QueueFree
<1>4. CASE RequestControlThread \/ Tick \/ UNCHANGED vars
  <2>1. UNCHANGED <<queue, done, due, audience, sender, message, unspawned, main>>
    BY <1>4
    DEF RequestControlThread, ReceiveFind, ReceiveRefresh, ReceiveAdd, ReceiveAnswer, Tick, vars,
        round, sendings
  <2> QED
    BY <1>2, <2>1, RoundFrame DEF RoundFacts, InRound
<1> QED
  BY <1>2, <1>3, <1>4, RoundTransmitter, RoundSender DEF Next

LEMMA RoundInit == Init => RoundInv
<1> SUFFICES ASSUME Init PROVE RoundFacts
  BY DEF RoundInv
<1>1. main.pc = "lock" /\ done = 0
  BY DEF Init
<1>2. Complete
  BY DEF Init, Complete
<1> QED
  BY <1>1, <1>2 DEF RoundFacts, InRound, QueueFree

LEMMA RoundAlways == Spec => []RoundInv
<1> QED
  BY RoundInit, RoundStep, TypeAlways, OrderAlways, PTL DEF Spec

LEMMA ServedInRound == TypeInv /\ OrderInv /\ RoundInv => AudienceServed
<1> SUFFICES ASSUME TypeInv, OrderInv, RoundInv, ~ surplus, main.pc = "retire", NEW c \in audience
             PROVE  sender[Head(queue)][c] \in {"signal", "end"}
  BY DEF AudienceServed
<1>1. RoundFacts /\ InRound /\ done = 0 /\ c \in Clients
  BY DEF RoundInv, RoundFacts, InRound, QueueFree, TypeInv, TypeOK
<1>2. Head(queue) \in Messages
  BY <1>1, HeadIs
<1>3. due = {} /\ Active(Head(queue)) = {} /\ Lost(Head(queue)) = {}
  BY <1>1, <1>2, OutstandingParts DEF RoundFacts
<1>4. Started(Head(queue), c)
  BY <1>1, <1>3 DEF RoundFacts, Counted
<1>5. sender[Head(queue)][c] # "none"
  BY <1>1, <1>3, <1>4 DEF Started, Lost
<1>6. sender[Head(queue)][c] \notin {"start", "sending", "posted"}
  BY <1>1, <1>3 DEF Active, SendersOf
<1>7. sender[Head(queue)][c] # "dead" /\ sender[Head(queue)][c] \in sender_pcs
  BY <1>1, <1>2 DEF OrderInv, StartedOnce, TypeInv, TypeOK
<1> QED
  BY <1>5, <1>6, <1>7 DEF sender_pcs

\* The count of sending_done_semaphore is right in every round, as long as no
\* round has come to a client that had joined since its count.
THEOREM CountIsExact == Spec => []BarrierExact
<1>1. RoundInv => BarrierExact
  BY DEF RoundInv, RoundFacts, BarrierExact, InRound, QueueFree
<1> QED
  BY <1>1, RoundAlways, PTL

\* Then every message is out, and is the one its senders meant to send, before
\* the next one comes to the head of the queue;
THEOREM RoundsDoNotOverlap == Spec => []RoundComplete
<1>1. RoundInv => RoundComplete
  BY DEF RoundInv, RoundFacts, RoundComplete, Complete
<1> QED
  BY <1>1, RoundAlways, PTL

\* every client that was counted and not removed has been sent it;
THEOREM NobodyIsSkipped == Spec => []AudienceServed
<1> QED
  BY ServedInRound, TypeAlways, OrderAlways, RoundAlways, PTL

\* and no client is freed under a sender that uses its address.
THEOREM AddressesLive == Spec => []ClientsAlive
<1>1. TypeInv /\ OrderInv /\ RoundInv => ClientsAlive
  BY SenderOfRound DEF RoundInv, ClientsAlive
<1> QED
  BY <1>1, TypeAlways, OrderAlways, RoundAlways, PTL
=============================================================================
