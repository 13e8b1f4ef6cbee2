------------------------- MODULE ClientUpdaterProofs -------------------------
(* Theorems about ClientUpdater, for every list of servers and every value *)
(* of its limits and timeouts.                                             *)
EXTENDS ClientUpdater, FiniteSetTheorems, TLAPS

LEMMA PushFacts ==
  ASSUME NEW s \in Servers, NEW q, TypeOfQueue(q), NEW r \in Push(q, s)
  PROVE  TypeOfQueue(r) /\ r.members = q.members \cup {s}
BY DEF TypeOfQueue, Push

LEMMA PopFacts ==
  ASSUME NEW q, TypeOfQueue(q), q.members # {}, NEW r \in Pop(q)
  PROVE  /\ TypeOfQueue(r)
         /\ q.first \in q.members
         /\ r.members = q.members \ {q.first}
BY DEF TypeOfQueue, Pop

LEMMA OlderFacts ==
  ASSUME NEW age \in 0 .. MaxAge
  PROVE  Older(age) \in 0 .. MaxAge
BY ClientAssumption DEF Older, MaxAge

LEMMA NextCountFacts ==
  ASSUME NEW n \in 0 .. CountCap - 1
  PROVE  NextCount(n) \in 0 .. CountCap - 1
BY ClientAssumption DEF NextCount, CountCap

-----------------------------------------------------------------------------
(* The type invariant, with what keeps the heads of the queues in being.   *)

TypeInv == TypeOK /\ SleepMatchesQueue

LEMMA TypeInit == Init => TypeInv
<1> SUFFICES ASSUME Init PROVE TypeInv
    OBVIOUS
<1>1. TypeOfQueue(not_subscribed) /\ TypeOfQueue(subscribed)
  BY ClientAssumption DEF Init, TypeOfQueue, EmptyQueue
<1>2. TypeOfThread(sub) /\ TypeOfThread(upd)
  BY ClientAssumption DEF Init, TypeOfThread, AtCheck
<1>3. not_connect_count \in [Servers -> 0 .. CountCap - 1]
  BY ClientAssumption DEF Init, CountCap
<1>4. since_attempt \in [Servers -> 0 .. MaxAge]
  BY ClientAssumption DEF Init, MaxAge
<1>5. since_send \in [Servers -> 0 .. MaxAge]
  BY ClientAssumption DEF Init, MaxAge
<1>6. state \in [Servers -> server_state]
  BY ClientAssumption DEF Init
<1> QED
  BY <1>1, <1>2, <1>3, <1>4, <1>5, <1>6, ClientAssumption
  DEF Init, TypeInv, TypeOK, SleepMatchesQueue, AtCheck, request_pcs

\* Only three kinds of step change sub, upd and the queues, so the parts of
\* the invariant that speak of them are proved per kind of step.
LEMMA TypeSubscription ==
  ASSUME TypeInv, SubscriptionThread
  PROVE  TypeInv'
<1> USE ClientAssumption DEF TypeInv, TypeOK, SleepMatchesQueue, fields, queues, threads, network
<1>1. CASE SubscriptionSleep
  BY <1>1 DEF SubscriptionSleep, TypeOfThread, TypeOfQueue
<1>2. CASE SubscriptionTimedSleep
  BY <1>2 DEF SubscriptionTimedSleep, TypeOfThread, TypeOfQueue
<1>3. CASE SubscriptionTimeout
  BY <1>3 DEF SubscriptionTimeout, TypeOfThread, TypeOfQueue
<1>4. ASSUME TakeNotSubscribed, not_subscribed.members # {}
      PROVE  TypeInv'
  <2>1. /\ TypeOfQueue(not_subscribed')
        /\ not_subscribed.first \in Servers
    BY <1>4, PopFacts DEF TakeNotSubscribed, TypeOfQueue
  <2> QED
    BY <1>4, <2>1 DEF TakeNotSubscribed, TypeOfThread, server_state, TypeOfQueue
<1>5. CASE SubscriptionPop
  BY <1>4, <1>5 DEF SubscriptionPop
<1>6. CASE SubscriptionTimeoutPop
  BY <1>4, <1>6 DEF SubscriptionTimeoutPop
<1>7. CASE SubscriptionSpawn
  <2>1. sub.server \in Servers
    BY <1>7 DEF SubscriptionSpawn, TypeOfThread
  <2> QED
    BY <1>7, <2>1
    DEF SubscriptionSpawn, CreateRequestThread, TakeSlot, AtCheck, TypeOfThread, TypeOfQueue,
        request_pcs
<1> QED
  BY <1>1, <1>2, <1>3, <1>5, <1>6, <1>7 DEF SubscriptionThread

LEMMA TypeUpdate ==
  ASSUME TypeInv, UpdateThread
  PROVE  TypeInv'
<1> USE ClientAssumption DEF TypeInv, TypeOK, SleepMatchesQueue, fields, queues, threads, network
<1>1. CASE UpdateSleep
  BY <1>1 DEF UpdateSleep, TypeOfThread, TypeOfQueue
<1>2. CASE UpdateTimedSleep
  BY <1>2 DEF UpdateTimedSleep, TypeOfThread, TypeOfQueue
<1>3. CASE UpdateTimeout
  BY <1>3 DEF UpdateTimeout, TypeOfThread, TypeOfQueue
<1>4. ASSUME TakeSubscribed, subscribed.members # {}
      PROVE  TypeInv'
  <2>1. /\ TypeOfQueue(subscribed')
        /\ subscribed.first \in Servers
    BY <1>4, PopFacts DEF TakeSubscribed, TypeOfQueue
  <2> QED
    BY <1>4, <2>1 DEF TakeSubscribed, TypeOfThread, TypeOfQueue
<1>5. CASE UpdatePop
  BY <1>4, <1>5 DEF UpdatePop
<1>6. CASE UpdateTimeoutPop
  BY <1>4, <1>6 DEF UpdateTimeoutPop
<1>7. CASE UpdateSpawn
  <2>1. upd.server \in Servers
    BY <1>7 DEF UpdateSpawn, TypeOfThread
  <2> QED
    BY <1>7, <2>1
    DEF UpdateSpawn, CreateRequestThread, TakeSlot, AtCheck, TypeOfThread, TypeOfQueue,
        request_pcs
<1> QED
  BY <1>1, <1>2, <1>3, <1>5, <1>6, <1>7 DEF UpdateThread

LEMMA TypeRequest ==
  ASSUME TypeInv, NEW s \in Servers, RequestThread(s)
  PROVE  TypeInv'
<1> USE ClientAssumption DEF TypeInv, TypeOK, fields, queues, threads, network, request_pcs
<1>1. ASSUME UNCHANGED <<queues, sub, upd>>
      PROVE  /\ TypeOfQueue(not_subscribed)' /\ TypeOfQueue(subscribed)'
             /\ TypeOfThread(sub)' /\ TypeOfThread(upd)' /\ SleepMatchesQueue'
  BY <1>1 DEF TypeOfQueue, TypeOfThread, SleepMatchesQueue
<1>2. 0 \in 0 .. MaxAge /\ MaxAge \in 0 .. MaxAge /\ 0 \in 0 .. CountCap - 1
  BY DEF MaxAge, CountCap
<1>3. CASE RequestSend(s)
  BY <1>1, <1>2, <1>3 DEF RequestSend
<1>4. CASE RequestSendFails(s)
  BY <1>1, <1>4 DEF RequestSendFails
<1>5. CASE RequestMustWait(s)
  BY <1>1, <1>5 DEF RequestMustWait
<1>6. CASE RequestSleep(s)
  BY <1>1, <1>6 DEF RequestSleep
<1>7. CASE RequestAnswered(s)
  BY <1>1, <1>2, <1>7 DEF RequestAnswered
<1>8. CASE RequestTimeout(s)
  BY <1>1, <1>8 DEF RequestTimeout
<1>9. CASE RequestMissed(s)
  BY <1>1, <1>2, <1>9, NextCountFacts DEF RequestMissed, server_state
<1>10. CASE RequestParseBegin(s)
  BY <1>1, <1>10 DEF RequestParseBegin
<1>11. CASE RequestParseEnd(s)
  BY <1>1, <1>11 DEF RequestParseEnd, server_state
<1>12. CASE RequestChoose(s)
  BY <1>1, <1>12 DEF RequestChoose
<1>13. CASE RequestToSubscribed(s)
  BY <1>13, PushFacts
  DEF RequestToSubscribed, Woken, AtCheck, TypeOfThread, TypeOfQueue, SleepMatchesQueue
<1>14. CASE RequestToNotSubscribed(s)
  BY <1>14, PushFacts
  DEF RequestToNotSubscribed, Woken, AtCheck, TypeOfThread, TypeOfQueue, SleepMatchesQueue
<1> QED
  BY <1>3, <1>4, <1>5, <1>6, <1>7, <1>8, <1>9, <1>10, <1>11, <1>12, <1>13, <1>14
  DEF RequestThread

LEMMA TypeOthers ==
  ASSUME TypeInv,
         \/ RequestPost \/ ReceiveStore \/ ReceiveEnd \/ Tick
         \/ \E s \in Servers : \E kind \in Answers[s] : ReceiveBegin(s, kind)
  PROVE  TypeInv'
<1> USE ClientAssumption DEF TypeInv, TypeOK, fields, queues, threads, network, request_pcs
<1>1. ASSUME UNCHANGED <<queues, sub, upd>>
      PROVE  /\ TypeOfQueue(not_subscribed)' /\ TypeOfQueue(subscribed)'
             /\ TypeOfThread(sub)' /\ TypeOfThread(upd)' /\ SleepMatchesQueue'
  BY <1>1 DEF TypeOfQueue, TypeOfThread, SleepMatchesQueue
<1>2. CASE RequestPost
  BY <1>1, <1>2 DEF RequestPost
<1>3. CASE ReceiveStore
  BY <1>1, <1>3 DEF ReceiveStore, WokenRequests, server_state
<1>4. CASE ReceiveEnd
  BY <1>1, <1>4 DEF ReceiveEnd
<1>5. CASE Tick
  BY <1>1, <1>5, OlderFacts DEF Tick
<1>6. ASSUME NEW s \in Servers, NEW kind \in Answers[s], ReceiveBegin(s, kind)
      PROVE  TypeInv'
  <2>1. kind \in {"ACCEPT", "REJECT"}
    OBVIOUS
  <2> QED
    BY <1>1, <1>6, <2>1 DEF ReceiveBegin
<1> QED
  BY <1>2, <1>3, <1>4, <1>5, <1>6

LEMMA TypeStep == TypeInv /\ [Next]_vars => TypeInv'
<1>1. ASSUME TypeInv, UNCHANGED vars
      PROVE  TypeInv'
  BY <1>1
  DEF TypeInv, TypeOK, SleepMatchesQueue, vars, fields, queues, threads, network,
      TypeOfQueue, TypeOfThread
<1> QED
  BY <1>1, TypeSubscription, TypeUpdate, TypeRequest, TypeOthers DEF Next

\* The types of the client's variables are kept, for any number of servers,
\* any limits and any timeouts (the updater, request and receiver threads).
THEOREM TypeCorrect == Spec => []TypeOK
<1>1. TypeInv => TypeOK
  BY DEF TypeInv
<1> QED
  BY <1>1, TypeInit, TypeStep, PTL DEF Spec

\* Nobody sleeps for ever beside a server that waits in a queue, and no timed
\* wait ends on an empty heap.
THEOREM SleepersMatchQueues == Spec => []SleepMatchesQueue
<1>1. TypeInv => SleepMatchesQueue
  BY DEF TypeInv
<1> QED
  BY <1>1, TypeInit, TypeStep, PTL DEF Spec

-----------------------------------------------------------------------------
(* Where a server is.  Only seven actions move one.                        *)

PlaceInv == TypeInv /\ OnePlace

Moves == <<not_subscribed.members, subscribed.members, Held(sub), Held(upd), Active, lost>>

LEMMA PlaceInit == Init => OnePlace
BY DEF Init, OnePlace, Active, Held, AtCheck, EmptyQueue

LEMMA PlaceStep == PlaceInv /\ [Next]_vars => OnePlace'
<1> SUFFICES ASSUME PlaceInv, [Next]_vars
             PROVE  OnePlace'
    OBVIOUS
<1> USE DEF PlaceInv, TypeInv, TypeOK
<1>1. ASSUME UNCHANGED Moves
      PROVE  OnePlace'
  BY <1>1 DEF Moves, OnePlace
<1>2. ASSUME TakeNotSubscribed, not_subscribed.members # {}, sub.pc # "popped"
      PROVE  OnePlace'
  <2>1. /\ not_subscribed.first \in not_subscribed.members
        /\ not_subscribed'.members = not_subscribed.members \ {not_subscribed.first}
    BY <1>2, PopFacts DEF TakeNotSubscribed
  <2>2. Held(sub) = {} /\ Held(sub)' = {not_subscribed.first}
    BY <1>2 DEF TakeNotSubscribed, Held
  <2>3. UNCHANGED <<subscribed.members, Held(upd), Active, lost>>
    BY <1>2 DEF TakeNotSubscribed, threads, Held, Active
  <2> QED
    BY <2>1, <2>2, <2>3 DEF OnePlace
<1>3. ASSUME TakeSubscribed, subscribed.members # {}, upd.pc # "popped"
      PROVE  OnePlace'
  <2>1. /\ subscribed.first \in subscribed.members
        /\ subscribed'.members = subscribed.members \ {subscribed.first}
    BY <1>3, PopFacts DEF TakeSubscribed
  <2>2. Held(upd) = {} /\ Held(upd)' = {subscribed.first}
    BY <1>3 DEF TakeSubscribed, Held
  <2>3. UNCHANGED <<not_subscribed.members, Held(sub), Active, lost>>
    BY <1>3 DEF TakeSubscribed, threads, Held, Active
  <2> QED
    BY <2>1, <2>2, <2>3 DEF OnePlace
<1>4. CASE SubscriptionThread
  <2>1. CASE SubscriptionSleep \/ SubscriptionTimedSleep \/ SubscriptionTimeout
    <3>1. Held(sub) = {} /\ Held(sub)' = {}
      BY <2>1 DEF SubscriptionSleep, SubscriptionTimedSleep, SubscriptionTimeout, Held
    <3> QED
      BY <2>1, <3>1, <1>1
      DEF SubscriptionSleep, SubscriptionTimedSleep, SubscriptionTimeout, Moves, Held,
          Active, queues, threads
  <2>2. CASE SubscriptionPop
    BY <2>2, <1>2 DEF SubscriptionPop
  <2>3. CASE SubscriptionTimeoutPop
    BY <2>3, <1>2 DEF SubscriptionTimeoutPop, SleepMatchesQueue
  <2>4. CASE SubscriptionSpawn
    BY <2>4
    DEF SubscriptionSpawn, CreateRequestThread, AtCheck, OnePlace, Held, Active, queues,
        TypeOfThread
  <2> QED
    BY <1>4, <2>1, <2>2, <2>3, <2>4 DEF SubscriptionThread
<1>5. CASE UpdateThread
  <2>1. CASE UpdateSleep \/ UpdateTimedSleep \/ UpdateTimeout
    <3>1. Held(upd) = {} /\ Held(upd)' = {}
      BY <2>1 DEF UpdateSleep, UpdateTimedSleep, UpdateTimeout, Held
    <3> QED
      BY <2>1, <3>1, <1>1
      DEF UpdateSleep, UpdateTimedSleep, UpdateTimeout, Moves, Held, Active, queues, threads
  <2>2. CASE UpdatePop
    BY <2>2, <1>3 DEF UpdatePop
  <2>3. CASE UpdateTimeoutPop
    BY <2>3, <1>3 DEF UpdateTimeoutPop, SleepMatchesQueue
  <2>4. CASE UpdateSpawn
    BY <2>4
    DEF UpdateSpawn, CreateRequestThread, AtCheck, OnePlace, Held, Active, queues,
        TypeOfThread
  <2> QED
    BY <1>5, <2>1, <2>2, <2>3, <2>4 DEF UpdateThread
<1>6. ASSUME NEW s \in Servers, RequestThread(s)
      PROVE  OnePlace'
  <2>1. ASSUME UNCHANGED <<queues, sub, upd, lost>>,
               request[s] # "none",
               \E pc : pc # "none" /\ request' = [request EXCEPT ![s] = pc]
        PROVE  OnePlace'
    BY <2>1, <1>1 DEF Moves, Held, Active, queues
  <2>2. CASE RequestSend(s) \/ RequestSendFails(s) \/ RequestMustWait(s) \/ RequestSleep(s)
    BY <2>1, <2>2
    DEF RequestSend, RequestSendFails, RequestMustWait, RequestSleep
  <2>3. CASE RequestAnswered(s) \/ RequestTimeout(s) \/ RequestMissed(s)
    BY <2>1, <2>3 DEF RequestAnswered, RequestTimeout, RequestMissed
  <2>4. CASE RequestParseBegin(s) \/ RequestParseEnd(s) \/ RequestChoose(s)
    BY <2>1, <2>4 DEF RequestParseBegin, RequestParseEnd, RequestChoose
  <2>5. CASE RequestToSubscribed(s)
    <3>1. subscribed'.members = subscribed.members \cup {s}
      BY <2>5, PushFacts DEF RequestToSubscribed
    <3>2. Held(upd') = Held(upd)
      BY <2>5 DEF RequestToSubscribed, Woken, AtCheck, Held
    <3>3. Active' = Active \ {s} /\ s \in Active
      BY <2>5 DEF RequestToSubscribed, Active
    <3> QED
      BY <2>5, <3>1, <3>2, <3>3 DEF RequestToSubscribed, OnePlace, Held
  <2>6. CASE RequestToNotSubscribed(s)
    <3>1. not_subscribed'.members = not_subscribed.members \cup {s}
      BY <2>6, PushFacts DEF RequestToNotSubscribed
    <3>2. Held(sub') = Held(sub)
      BY <2>6 DEF RequestToNotSubscribed, Woken, AtCheck, Held
    <3>3. Active' = Active \ {s} /\ s \in Active
      BY <2>6 DEF RequestToNotSubscribed, Active
    <3> QED
      BY <2>6, <3>1, <3>2, <3>3 DEF RequestToNotSubscribed, OnePlace, Held
  <2> QED
    BY <1>6, <2>2, <2>3, <2>4, <2>5, <2>6 DEF RequestThread
<1>7. CASE RequestPost \/ ReceiveEnd \/ Tick
  BY <1>1, <1>7 DEF RequestPost, ReceiveEnd, Tick, Moves, Held, Active, queues, threads
<1>8. ASSUME NEW s \in Servers, NEW kind \in Answers[s], ReceiveBegin(s, kind)
      PROVE  OnePlace'
  BY <1>1, <1>8 DEF ReceiveBegin, Moves, Held, Active, queues, threads
<1>9. CASE ReceiveStore
  <2>1. Active' = Active
    BY <1>9 DEF ReceiveStore, WokenRequests, Active
  <2> QED
    BY <1>1, <1>9, <2>1 DEF ReceiveStore, Moves, Held, queues
<1>10. CASE UNCHANGED vars
  BY <1>1, <1>10 DEF vars, Moves, Held, Active, queues, threads
<1> QED
  BY <1>4, <1>5, <1>6, <1>7, <1>8, <1>9, <1>10 DEF Next

\* The heaps and threads pass a server on without ever duplicating or dropping
\* it, except by a thread creation that fails: it is in exactly one place.
THEOREM EachServerInOnePlace == Spec => []OnePlace
<1>1. PlaceInv /\ [Next]_vars => PlaceInv'
  BY PlaceStep, TypeStep DEF PlaceInv
<1>2. Init => PlaceInv
  BY PlaceInit, TypeInit DEF PlaceInv
<1>3. PlaceInv => OnePlace
  BY DEF PlaceInv
<1> QED
  BY <1>1, <1>2, <1>3, PTL DEF Spec

-----------------------------------------------------------------------------
(* The account of requests: every step does one of four things to it, or   *)
(* leaves it alone.  These are the actions of RequestPool, seen from here. *)

Started(s) ==
  /\ s \in Idle /\ semaphore > 0
  /\ Idle' = Idle \ {s} /\ Active' = Active \cup {s}
  /\ semaphore' = semaphore - 1
  /\ UNCHANGED <<posting, lost>>

NotStarted(s) ==
  /\ s \in Idle /\ semaphore > 0
  /\ Idle' = Idle \ {s} /\ lost' = lost \cup {s}
  /\ semaphore' = semaphore - 1
  /\ UNCHANGED <<posting, Active>>

Finished(s) ==
  /\ s \in Active
  /\ Active' = Active \ {s} /\ Idle' = Idle \cup {s}
  /\ posting' = posting + 1
  /\ UNCHANGED <<semaphore, lost>>

Posted ==
  /\ posting > 0
  /\ posting' = posting - 1 /\ semaphore' = semaphore + 1
  /\ UNCHANGED <<Idle, Active, lost>>

Accounts == <<Idle, Active, posting, semaphore, lost>>

LEMMA AccountStep ==
  ASSUME PlaceInv, [Next]_vars
  PROVE  \/ \E s \in Servers : Started(s) \/ NotStarted(s) \/ Finished(s)
         \/ Posted
         \/ UNCHANGED Accounts
<1> USE DEF PlaceInv, TypeInv, TypeOK
<1>1. ASSUME UNCHANGED <<queues, sub, upd, request, posting, semaphore, lost>>
      PROVE  UNCHANGED Accounts
  BY <1>1 DEF Accounts, Idle, Active, Held, queues
<1>2. ASSUME UNCHANGED <<subscribed, upd, threads>>,
             Held(sub) \cup not_subscribed.members = (Held(sub) \cup not_subscribed.members)'
      PROVE  UNCHANGED Accounts
  BY <1>2 DEF Accounts, Idle, Active, Held, threads
<1>3. ASSUME UNCHANGED <<not_subscribed, sub, threads>>,
             Held(upd) \cup subscribed.members = (Held(upd) \cup subscribed.members)'
      PROVE  UNCHANGED Accounts
  BY <1>3 DEF Accounts, Idle, Active, Held, threads
<1>4. ASSUME TakeNotSubscribed, not_subscribed.members # {}, sub.pc # "popped"
      PROVE  UNCHANGED Accounts
  <2>1. /\ not_subscribed.first \in not_subscribed.members
        /\ not_subscribed'.members = not_subscribed.members \ {not_subscribed.first}
    BY <1>4, PopFacts DEF TakeNotSubscribed
  <2>2. Held(sub) = {} /\ Held(sub)' = {not_subscribed.first}
    BY <1>4 DEF TakeNotSubscribed, Held
  <2> QED
    BY <1>2, <1>4, <2>1, <2>2 DEF TakeNotSubscribed
<1>5. ASSUME TakeSubscribed, subscribed.members # {}, upd.pc # "popped"
      PROVE  UNCHANGED Accounts
  <2>1. /\ subscribed.first \in subscribed.members
        /\ subscribed'.members = subscribed.members \ {subscribed.first}
    BY <1>5, PopFacts DEF TakeSubscribed
  <2>2. Held(upd) = {} /\ Held(upd)' = {subscribed.first}
    BY <1>5 DEF TakeSubscribed, Held
  <2> QED
    BY <1>3, <1>5, <2>1, <2>2 DEF TakeSubscribed
<1>6. ASSUME NEW s \in Servers, CreateRequestThread(s), s \in Idle, Idle' = Idle \ {s}
      PROVE  Started(s) \/ NotStarted(s)
  BY <1>6 DEF CreateRequestThread, TakeSlot, Started, NotStarted, Active
<1>7. CASE SubscriptionThread
  <2>1. CASE SubscriptionSleep \/ SubscriptionTimedSleep \/ SubscriptionTimeout
    <3>1. Held(sub) = {} /\ Held(sub)' = {}
      BY <2>1 DEF SubscriptionSleep, SubscriptionTimedSleep, SubscriptionTimeout, Held
    <3> QED
      BY <1>2, <2>1, <3>1
      DEF SubscriptionSleep, SubscriptionTimedSleep, SubscriptionTimeout, queues
  <2>2. CASE SubscriptionPop
    BY <1>4, <2>2 DEF SubscriptionPop
  <2>3. CASE SubscriptionTimeoutPop
    BY <1>4, <2>3 DEF SubscriptionTimeoutPop, SleepMatchesQueue
  <2>4. CASE SubscriptionSpawn
    <3>1. Held(sub) = {sub.server} /\ Held(sub)' = {} /\ sub.server \in Servers
      BY <2>4 DEF SubscriptionSpawn, Held, AtCheck, TypeOfThread
    <3>2. sub.server \in Idle /\ Idle' = Idle \ {sub.server}
      BY <2>4, <3>1 DEF SubscriptionSpawn, CreateRequestThread, Idle, queues, OnePlace, Held
    <3> QED
      BY <1>6, <2>4, <3>1, <3>2 DEF SubscriptionSpawn
  <2> QED
    BY <1>7, <2>1, <2>2, <2>3, <2>4 DEF SubscriptionThread
<1>8. CASE UpdateThread
  <2>1. CASE UpdateSleep \/ UpdateTimedSleep \/ UpdateTimeout
    <3>1. Held(upd) = {} /\ Held(upd)' = {}
      BY <2>1 DEF UpdateSleep, UpdateTimedSleep, UpdateTimeout, Held
    <3> QED
      BY <1>3, <2>1, <3>1 DEF UpdateSleep, UpdateTimedSleep, UpdateTimeout, queues
  <2>2. CASE UpdatePop
    BY <1>5, <2>2 DEF UpdatePop
  <2>3. CASE UpdateTimeoutPop
    BY <1>5, <2>3 DEF UpdateTimeoutPop, SleepMatchesQueue
  <2>4. CASE UpdateSpawn
    <3>1. Held(upd) = {upd.server} /\ Held(upd)' = {} /\ upd.server \in Servers
      BY <2>4 DEF UpdateSpawn, Held, AtCheck, TypeOfThread
    <3>2. upd.server \in Idle /\ Idle' = Idle \ {upd.server}
      BY <2>4, <3>1 DEF UpdateSpawn, CreateRequestThread, Idle, queues, OnePlace, Held
    <3> QED
      BY <1>6, <2>4, <3>1, <3>2 DEF UpdateSpawn
  <2> QED
    BY <1>8, <2>1, <2>2, <2>3, <2>4 DEF UpdateThread
<1>9. ASSUME NEW s \in Servers, RequestThread(s)
      PROVE  Finished(s) \/ UNCHANGED Accounts
  <2>1. ASSUME UNCHANGED <<queues, sub, upd, posting, semaphore, lost>>,
               request[s] # "none",
               \E pc : pc # "none" /\ request' = [request EXCEPT ![s] = pc]
        PROVE  UNCHANGED Accounts
    BY <2>1 DEF Accounts, Idle, Active, Held, queues
  <2>2. CASE RequestSend(s) \/ RequestSendFails(s) \/ RequestMustWait(s) \/ RequestSleep(s)
    BY <2>1, <2>2
    DEF RequestSend, RequestSendFails, RequestMustWait, RequestSleep
  <2>3. CASE RequestAnswered(s) \/ RequestTimeout(s) \/ RequestMissed(s)
    BY <2>1, <2>3 DEF RequestAnswered, RequestTimeout, RequestMissed
  <2>4. CASE RequestParseBegin(s) \/ RequestParseEnd(s) \/ RequestChoose(s)
    BY <2>1, <2>4 DEF RequestParseBegin, RequestParseEnd, RequestChoose
  <2>5. CASE RequestToSubscribed(s)
    <3>1. subscribed'.members = subscribed.members \cup {s}
      BY <2>5, PushFacts DEF RequestToSubscribed
    <3>2. Held(upd') = Held(upd)
      BY <2>5 DEF RequestToSubscribed, Woken, AtCheck, Held
    <3>3. Active' = Active \ {s} /\ s \in Active
      BY <2>5 DEF RequestToSubscribed, Active
    <3> QED
      BY <2>5, <3>1, <3>2, <3>3 DEF RequestToSubscribed, Finished, Idle, Held
  <2>6. CASE RequestToNotSubscribed(s)
    <3>1. not_subscribed'.members = not_subscribed.members \cup {s}
      BY <2>6, PushFacts DEF RequestToNotSubscribed
    <3>2. Held(sub') = Held(sub)
      BY <2>6 DEF RequestToNotSubscribed, Woken, AtCheck, Held
    <3>3. Active' = Active \ {s} /\ s \in Active
      BY <2>6 DEF RequestToNotSubscribed, Active
    <3> QED
      BY <2>6, <3>1, <3>2, <3>3 DEF RequestToNotSubscribed, Finished, Idle, Held
  <2> QED
    BY <1>9, <2>2, <2>3, <2>4, <2>5, <2>6 DEF RequestThread
<1>10. CASE RequestPost
  BY <1>10 DEF RequestPost, Posted, Idle, Active, Held, queues
<1>11. CASE ReceiveEnd \/ Tick
  BY <1>1, <1>11 DEF ReceiveEnd, Tick, threads
<1>12. ASSUME NEW s \in Servers, NEW kind \in Answers[s], ReceiveBegin(s, kind)
       PROVE  UNCHANGED Accounts
  BY <1>1, <1>12 DEF ReceiveBegin, threads
<1>13. CASE ReceiveStore
  <2>1. Active' = Active
    BY <1>13 DEF ReceiveStore, WokenRequests, Active
  <2> QED
    BY <1>13, <2>1 DEF ReceiveStore, Accounts, Idle, Held, queues
<1>14. CASE UNCHANGED vars
  BY <1>1, <1>14 DEF vars, threads
<1> QED
  BY <1>7, <1>8, <1>9, <1>10, <1>11, <1>12, <1>13, <1>14 DEF Next

LEMMA FiniteParts ==
  ASSUME NEW part \in SUBSET Servers
  PROVE  IsFiniteSet(part) /\ Cardinality(part) \in Nat
BY ClientAssumption, FS_Subset, FS_CardinalityType

AccountInv == PlaceInv /\ SlotsAccounted

LEMMA AccountInit == Init => SlotsAccounted
<1> SUFFICES ASSUME Init PROVE SlotsAccounted
    OBVIOUS
<1>1. Active = {} /\ lost = {}
  BY DEF Init, Active
<1> QED
  BY <1>1, FS_EmptySet, ClientAssumption DEF Init, SlotsAccounted

LEMMA SlotsStep == AccountInv /\ [Next]_vars => SlotsAccounted'
<1> SUFFICES ASSUME AccountInv, [Next]_vars
             PROVE  SlotsAccounted'
    OBVIOUS
<1>1. /\ Active \subseteq Servers /\ lost \subseteq Servers
      /\ semaphore \in Nat /\ posting \in Nat
  BY DEF AccountInv, PlaceInv, TypeInv, TypeOK, Active
<1>2. /\ IsFiniteSet(Active) /\ Cardinality(Active) \in Nat
      /\ IsFiniteSet(lost) /\ Cardinality(lost) \in Nat
  BY <1>1, FiniteParts
<1>3. ASSUME NEW s \in Servers, Started(s) PROVE SlotsAccounted'
  <2>1. s \notin Active
    BY <1>3 DEF Started, AccountInv, PlaceInv, OnePlace, Idle
  <2>2. Cardinality(Active') = Cardinality(Active) + 1
    BY <1>2, <1>3, <2>1, FS_AddElement DEF Started
  <2> QED
    BY <1>1, <1>2, <1>3, <2>2 DEF Started, SlotsAccounted, AccountInv
<1>4. ASSUME NEW s \in Servers, NotStarted(s) PROVE SlotsAccounted'
  <2>1. s \notin lost
    BY <1>4 DEF NotStarted, AccountInv, PlaceInv, OnePlace, Idle
  <2>2. Cardinality(lost') = Cardinality(lost) + 1
    BY <1>2, <1>4, <2>1, FS_AddElement DEF NotStarted
  <2> QED
    BY <1>1, <1>2, <1>4, <2>2 DEF NotStarted, SlotsAccounted, AccountInv
<1>5. ASSUME NEW s \in Servers, Finished(s) PROVE SlotsAccounted'
  <2>1. Cardinality(Active') = Cardinality(Active) - 1
    BY <1>2, <1>5, FS_RemoveElement DEF Finished
  <2> QED
    BY <1>1, <1>2, <1>5, <2>1 DEF Finished, SlotsAccounted, AccountInv
<1>6. CASE Posted
  BY <1>1, <1>2, <1>6 DEF Posted, SlotsAccounted, AccountInv
<1>7. CASE UNCHANGED Accounts
  BY <1>7 DEF Accounts, SlotsAccounted, AccountInv
<1> QED
  BY <1>3, <1>4, <1>5, <1>6, <1>7, AccountStep DEF AccountInv

\* No unit of the semaphore is lost or made: with the threads that could not be
\* created counted in, they add up to MAX_ACTIVE_REQUESTS at any time.
THEOREM SemaphoreBalanced == Spec => []SlotsAccounted
<1>1. AccountInv /\ [Next]_vars => AccountInv'
  BY SlotsStep, PlaceStep, TypeStep DEF AccountInv, PlaceInv
<1>2. Init => AccountInv
  BY AccountInit, PlaceInit, TypeInit DEF AccountInv, PlaceInv
<1>3. AccountInv => SlotsAccounted
  BY DEF AccountInv
<1> QED
  BY <1>1, <1>2, <1>3, PTL DEF Spec

LEMMA PoolInit == Init => Pool!Init
<1> SUFFICES ASSUME Init PROVE Pool!Init
    OBVIOUS
<1>1. Idle = Servers /\ Active = {}
  BY DEF Init, Idle, Held, AtCheck, EmptyQueue, Active
<1> QED
  BY <1>1 DEF Init, Pool!Init

LEMMA PoolStep == AccountInv /\ [Next]_vars => [Pool!Next]_(Pool!vars)
<1> SUFFICES ASSUME AccountInv, [Next]_vars
             PROVE  Pool!Next \/ UNCHANGED Pool!vars
    OBVIOUS
<1>1. ASSUME NEW s \in Servers, Started(s) PROVE Pool!Next
  BY <1>1 DEF Started, Pool!Next, Pool!Start
<1>2. ASSUME NEW s \in Servers, NotStarted(s) PROVE Pool!Next
  BY <1>2 DEF NotStarted, Pool!Next, Pool!Lose
<1>3. ASSUME NEW s \in Servers, Finished(s) PROVE Pool!Next
  BY <1>3 DEF Finished, Pool!Next, Pool!Finish
<1>4. CASE Posted
  <2>1. Pool!Gone = lost
    BY DEF Pool!Gone, AccountInv, PlaceInv, TypeInv, TypeOK, OnePlace, Idle
  <2>2. /\ Cardinality(Active) \in Nat /\ Cardinality(lost) \in Nat
        /\ semaphore \in Nat /\ posting \in Nat
    BY FiniteParts DEF AccountInv, PlaceInv, TypeInv, TypeOK, Active
  <2>3. semaphore + Cardinality(Active) + Cardinality(lost) < MAX_ACTIVE_REQUESTS
    BY <1>4, <2>2, ClientAssumption DEF Posted, AccountInv, SlotsAccounted
  <2> QED
    BY <1>4, <2>1, <2>3 DEF Posted, Pool!Next, Pool!Release, Pool!Cardinality, Cardinality
<1>5. CASE UNCHANGED Accounts
  BY <1>5 DEF Accounts, Pool!vars
<1> QED
  BY <1>1, <1>2, <1>3, <1>4, <1>5, AccountStep DEF AccountInv

\* The two queues, three kinds of thread and the semaphore together behave as
\* the abstract pool of requests.
THEOREM UpdaterImplementsPool == Spec => PoolSpec
<1>1. AccountInv /\ [Next]_vars => AccountInv'
  BY SlotsStep, PlaceStep, TypeStep DEF AccountInv, PlaceInv
<1>2. Init => AccountInv
  BY AccountInit, PlaceInit, TypeInit DEF AccountInv, PlaceInv
<1> QED
  BY <1>1, <1>2, PoolInit, PoolStep, PTL DEF Spec, PoolSpec, Pool!Spec

-----------------------------------------------------------------------------
(* The mutex of a server.  While line 151 has not opened a section of the  *)
(* receiver's, the mutex excludes, and so the test and the wait of a       *)
(* request are one step to the receiver.                                   *)

MutexKept(s) ==
  /\ recv.server = s => s \in locked
  /\ request[s] \in {"must_wait", "parsing"} => s \in locked /\ recv.server # s
  /\ request[s] \in {"must_wait", "asleep"} => state[s] # "RESP"

MutexInv == TypeInv /\ \A s \in Servers \ opened : MutexKept(s)

LEMMA MutexInit == Init => MutexInv
<1> SUFFICES ASSUME Init, NEW s \in Servers
             PROVE  MutexKept(s)
  BY TypeInit DEF MutexInv
<1> QED
  BY ClientAssumption DEF Init, MutexKept

LEMMA MutexStep == MutexInv /\ [Next]_vars => MutexInv'
<1> SUFFICES ASSUME MutexInv, [Next]_vars,
                    NEW s \in Servers, s \notin opened'
             PROVE  MutexKept(s)'
  BY TypeStep DEF MutexInv
<1>1. opened \subseteq opened' /\ s \notin opened
  <2>1. CASE \E t \in Servers : RequestToSubscribed(t)
    BY <2>1 DEF RequestToSubscribed
  <2>2. CASE ~ \E t \in Servers : RequestToSubscribed(t)
    BY <2>2
    DEF Next, SubscriptionThread, UpdateThread, RequestThread, SubscriptionSleep,
        SubscriptionTimedSleep, SubscriptionTimeout, SubscriptionPop,
        SubscriptionTimeoutPop, TakeNotSubscribed, SubscriptionSpawn, UpdateSleep,
        UpdateTimedSleep, UpdateTimeout, UpdatePop, UpdateTimeoutPop, TakeSubscribed,
        UpdateSpawn, CreateRequestThread, RequestSend, RequestSendFails,
        RequestMustWait, RequestSleep, RequestAnswered, RequestTimeout, RequestMissed,
        RequestParseBegin, RequestParseEnd, RequestChoose, RequestToNotSubscribed,
        RequestPost, ReceiveBegin, ReceiveStore, ReceiveEnd, Tick, vars, threads
  <2> QED
    BY <2>1, <2>2
<1>2. MutexKept(s)
  BY <1>1 DEF MutexInv
<1> USE DEF MutexInv, TypeInv, TypeOK
<1>3. ASSUME UNCHANGED <<state, locked, request, recv>>
      PROVE  MutexKept(s)'
  BY <1>2, <1>3 DEF MutexKept
<1>4. CASE SubscriptionThread
  <2>1. CASE SubscriptionSleep \/ SubscriptionTimedSleep \/ SubscriptionTimeout
    BY <1>3, <2>1
    DEF SubscriptionSleep, SubscriptionTimedSleep, SubscriptionTimeout, fields, threads,
        network
  <2>2. CASE TakeNotSubscribed
    BY <1>2, <2>2 DEF TakeNotSubscribed, threads, network, MutexKept
  <2>3. CASE SubscriptionSpawn
    BY <1>2, <2>3 DEF SubscriptionSpawn, CreateRequestThread, fields, network, MutexKept
  <2> QED
    BY <1>4, <2>1, <2>2, <2>3 DEF SubscriptionThread, SubscriptionPop, SubscriptionTimeoutPop
<1>5. CASE UpdateThread
  <2>1. CASE UpdateSleep \/ UpdateTimedSleep \/ UpdateTimeout \/ TakeSubscribed
    BY <1>3, <2>1
    DEF UpdateSleep, UpdateTimedSleep, UpdateTimeout, TakeSubscribed, fields, threads,
        network
  <2>2. CASE UpdateSpawn
    BY <1>2, <2>2 DEF UpdateSpawn, CreateRequestThread, fields, network, MutexKept
  <2> QED
    BY <1>5, <2>1, <2>2 DEF UpdateThread, UpdatePop, UpdateTimeoutPop
<1>6. ASSUME NEW t \in Servers, RequestThread(t)
      PROVE  MutexKept(s)'
  <2>1. CASE RequestSend(t) \/ RequestSendFails(t)
    BY <1>2, <2>1 DEF RequestSend, RequestSendFails, fields, network, MutexKept
  <2>2. CASE RequestMustWait(t)
    BY <1>2, <2>2 DEF RequestMustWait, fields, network, MutexKept
  <2>3. CASE RequestSleep(t)
    BY <1>2, <2>3 DEF RequestSleep, fields, network, MutexKept
  <2>4. CASE RequestAnswered(t) \/ RequestTimeout(t)
    BY <1>2, <2>4 DEF RequestAnswered, RequestTimeout, fields, network, MutexKept
  <2>5. CASE RequestMissed(t)
    BY <1>2, <2>5 DEF RequestMissed, network, MutexKept
  <2>6. CASE RequestParseBegin(t)
    BY <1>2, <2>6 DEF RequestParseBegin, fields, network, MutexKept
  <2>7. CASE RequestParseEnd(t)
    BY <1>2, <2>7 DEF RequestParseEnd, network, MutexKept
  <2>8. CASE RequestChoose(t)
    BY <1>2, <2>8 DEF RequestChoose, fields, network, MutexKept
  <2>9. CASE RequestToSubscribed(t)
    BY <1>2, <2>9 DEF RequestToSubscribed, fields, network, MutexKept
  <2>10. CASE RequestToNotSubscribed(t)
    BY <1>2, <2>10 DEF RequestToNotSubscribed, fields, network, MutexKept
  <2> QED
    BY <1>6, <2>1, <2>2, <2>3, <2>4, <2>5, <2>6, <2>7, <2>8, <2>9, <2>10
    DEF RequestThread
<1>7. CASE RequestPost \/ Tick
  BY <1>3, <1>7 DEF RequestPost, Tick, fields, network
<1>8. ASSUME NEW t \in Servers, NEW kind \in Answers[t], ReceiveBegin(t, kind)
      PROVE  MutexKept(s)'
  BY <1>2, <1>8, ClientAssumption DEF ReceiveBegin, threads, MutexKept
<1>9. CASE ReceiveStore
  BY <1>2, <1>9 DEF ReceiveStore, WokenRequests, MutexKept
<1>10. CASE ReceiveEnd
  BY <1>2, <1>10, ClientAssumption DEF ReceiveEnd, fields, threads, MutexKept
<1>11. CASE UNCHANGED vars
  BY <1>3, <1>11 DEF vars, fields, threads, network
<1> QED
  BY <1>4, <1>5, <1>6, <1>7, <1>8, <1>9, <1>10, <1>11 DEF Next

\* A request thread never sleeps over a stored answer, except where line 151
\* has opened the receiver's section.
THEOREM NoAnswerMissed == Spec => []NoMissedAnswer
<1>1. MutexInv => NoMissedAnswer
  BY DEF MutexInv, MutexKept, NoMissedAnswer
<1> QED
  BY <1>1, MutexInit, MutexStep, PTL DEF Spec

\* With the same exception, an answer is never overwritten while it is parsed.
THEOREM ParsingExcludesReceiving == Spec => []ParseExclusive
<1>1. MutexInv => ParseExclusive
  BY DEF MutexInv, MutexKept, ParseExclusive
<1> QED
  BY <1>1, MutexInit, MutexStep, PTL DEF Spec

-----------------------------------------------------------------------------
(* Who is in the subscribed queue.                                         *)

Healthy(s) ==
  /\ state[s] \in {"SUBSCR", "RESP"}
  /\ not_connect_count[s] < MAX_NOT_CONNECT_COUNT

\* What a server must satisfy wherever it is: the queue it is put in was chosen
\* by a state read earlier, and the state it had then came from its last request.
HealthKept(s) ==
  /\ s \in subscribed.members => Healthy(s)
  /\ s \in Held(upd) => Healthy(s)
  /\ request[s] = "to_subscribed" => Healthy(s)
  /\ s \in Active /\ state[s] = "SUBSCR" => not_connect_count[s] < MAX_NOT_CONNECT_COUNT
  /\ request[s] \in {"answered", "parsing"} => not_connect_count[s] < MAX_NOT_CONNECT_COUNT
  /\ s \in Held(sub) => state[s] \in {"SEND_REQ", "RESP"}

HealthInv == PlaceInv /\ \A s \in Servers : HealthKept(s)

LEMMA HealthInit == Init => HealthInv
<1> SUFFICES ASSUME Init, NEW s \in Servers
             PROVE  HealthKept(s)
  BY PlaceInit, TypeInit DEF HealthInv, PlaceInv
<1> QED
  BY DEF Init, HealthKept, Active, Held, AtCheck, EmptyQueue

\* One more miss makes WAIT of a server or leaves it below the limit.
LEMMA MissFacts ==
  ASSUME NEW n \in 0 .. CountCap - 1, n < MAX_NOT_CONNECT_COUNT,
         ~ GivenUp(NextCount(n))
  PROVE  NextCount(n) < MAX_NOT_CONNECT_COUNT
<1>1. NextCount(n) = n + 1
  BY ClientAssumption DEF NextCount, CountCap
<1>2. ASSUME n + 1 = MAX_NOT_CONNECT_COUNT PROVE FALSE
  <2>1. MAX_NOT_CONNECT_COUNT % MAX_NOT_CONNECT_COUNT = 0
    BY ClientAssumption
  <2> QED
    BY <1>1, <1>2, <2>1 DEF GivenUp
<1> QED
  BY <1>1, <1>2, ClientAssumption

LEMMA HealthStep == HealthInv /\ [Next]_vars => HealthInv'
<1> SUFFICES ASSUME HealthInv, [Next]_vars, NEW s \in Servers
             PROVE  HealthKept(s)'
  BY TypeStep, PlaceStep DEF HealthInv, PlaceInv
<1>1. HealthKept(s)
  BY DEF HealthInv
<1> USE DEF HealthInv, PlaceInv, TypeInv, TypeOK
<1>2. ASSUME UNCHANGED <<state, not_connect_count, subscribed, Held(sub), Held(upd), request>>
      PROVE  HealthKept(s)'
  BY <1>1, <1>2 DEF HealthKept, Healthy, Active
<1>3. ASSUME TakeNotSubscribed, not_subscribed.members # {}
      PROVE  HealthKept(s)'
  <2> DEFINE head == not_subscribed.first
  <2>1. head \in not_subscribed.members
    BY <1>3 DEF TypeOfQueue
  <2>2. head \notin subscribed.members /\ head \notin Held(upd) /\ head \notin Active
    BY <2>1 DEF OnePlace, TypeOfQueue
  <2>3. Held(sub)' = {head}
    BY <1>3 DEF TakeNotSubscribed, Held
  <2>4. UNCHANGED <<subscribed, Held(upd), request, not_connect_count>>
    BY <1>3 DEF TakeNotSubscribed, threads, Held
  <2>5. state' = [state EXCEPT ![head] = "SEND_REQ"]
    BY <1>3 DEF TakeNotSubscribed
  <2> HIDE DEF head
  <2> QED
    BY <1>1, <2>2, <2>3, <2>4, <2>5 DEF HealthKept, Healthy, Active
<1>4. ASSUME TakeSubscribed, subscribed.members # {}
      PROVE  HealthKept(s)'
  <2>1. /\ subscribed.first \in subscribed.members
        /\ subscribed'.members = subscribed.members \ {subscribed.first}
    BY <1>4, PopFacts DEF TakeSubscribed
  <2>2. Held(upd)' = {subscribed.first}
    BY <1>4 DEF TakeSubscribed, Held
  <2>3. UNCHANGED <<state, not_connect_count, request, Held(sub)>>
    BY <1>4 DEF TakeSubscribed, fields, threads, Held
  <2> QED
    BY <1>1, <2>1, <2>2, <2>3 DEF HealthKept, Healthy, Active
<1>5. CASE SubscriptionThread
  <2>1. CASE SubscriptionSleep \/ SubscriptionTimedSleep \/ SubscriptionTimeout
    <3>1. Held(sub) = {} /\ Held(sub)' = {}
      BY <2>1 DEF SubscriptionSleep, SubscriptionTimedSleep, SubscriptionTimeout, Held
    <3> QED
      BY <1>2, <2>1, <3>1
      DEF SubscriptionSleep, SubscriptionTimedSleep, SubscriptionTimeout, fields, queues,
          threads, Held
  <2>2. CASE SubscriptionPop
    BY <1>3, <2>2 DEF SubscriptionPop
  <2>3. CASE SubscriptionTimeoutPop
    BY <1>3, <2>3 DEF SubscriptionTimeoutPop, SleepMatchesQueue
  <2>4. CASE SubscriptionSpawn
    <3>1. Held(sub) = {sub.server} /\ Held(sub)' = {}
      BY <2>4 DEF SubscriptionSpawn, Held, AtCheck
    <3>2. UNCHANGED <<state, not_connect_count, subscribed, Held(upd)>>
      BY <2>4 DEF SubscriptionSpawn, CreateRequestThread, fields, queues, Held
    <3>3. request' \in {request, [request EXCEPT ![sub.server] = "send"]}
      BY <2>4 DEF SubscriptionSpawn, CreateRequestThread
    <3> QED
      BY <1>1, <3>1, <3>2, <3>3 DEF HealthKept, Healthy, Active
  <2> QED
    BY <1>5, <2>1, <2>2, <2>3, <2>4 DEF SubscriptionThread
<1>6. CASE UpdateThread
  <2>1. CASE UpdateSleep \/ UpdateTimedSleep \/ UpdateTimeout
    <3>1. Held(upd) = {} /\ Held(upd)' = {}
      BY <2>1 DEF UpdateSleep, UpdateTimedSleep, UpdateTimeout, Held
    <3> QED
      BY <1>2, <2>1, <3>1
      DEF UpdateSleep, UpdateTimedSleep, UpdateTimeout, fields, queues, threads, Held
  <2>2. CASE UpdatePop
    BY <1>4, <2>2 DEF UpdatePop
  <2>3. CASE UpdateTimeoutPop
    BY <1>4, <2>3 DEF UpdateTimeoutPop, SleepMatchesQueue
  <2>4. CASE UpdateSpawn
    <3>1. Held(upd) = {upd.server} /\ Held(upd)' = {}
      BY <2>4 DEF UpdateSpawn, Held, AtCheck
    <3>2. UNCHANGED <<state, not_connect_count, subscribed, Held(sub)>>
      BY <2>4 DEF UpdateSpawn, CreateRequestThread, fields, queues, Held
    <3>3. request' \in {request, [request EXCEPT ![upd.server] = "send"]}
      BY <2>4 DEF UpdateSpawn, CreateRequestThread
    <3> QED
      BY <1>1, <3>1, <3>2, <3>3 DEF HealthKept, Healthy, Active
  <2> QED
    BY <1>6, <2>1, <2>2, <2>3, <2>4 DEF UpdateThread
<1>7. ASSUME NEW t \in Servers, RequestThread(t)
      PROVE  HealthKept(s)'
  <2>1. ASSUME UNCHANGED <<state, not_connect_count, queues, sub, upd>>, request[t] # "none",
               NEW pc, pc \notin {"none", "answered", "parsing", "to_subscribed"},
               request' = [request EXCEPT ![t] = pc]
        PROVE  HealthKept(s)'
    BY <1>1, <2>1 DEF HealthKept, Healthy, Active, queues, Held
  <2>2. CASE RequestSend(t) \/ RequestSendFails(t) \/ RequestMustWait(t) \/ RequestSleep(t)
    BY <2>1, <2>2
    DEF RequestSend, RequestSendFails, RequestMustWait, RequestSleep, fields
  <2>3. CASE RequestTimeout(t)
    BY <2>1, <2>3 DEF RequestTimeout, fields
  <2>11. CASE RequestParseBegin(t)
    BY <1>1, <2>11 DEF RequestParseBegin, HealthKept, Healthy, Active, fields, queues, Held
  <2>4. t \in Active => t \notin subscribed.members \cup Held(sub) \cup Held(upd)
    BY DEF OnePlace
  <2>5. CASE RequestAnswered(t)
    BY <1>1, <2>4, <2>5, ClientAssumption
    DEF RequestAnswered, HealthKept, Healthy, Active, queues, Held
  <2>6. CASE RequestMissed(t)
    <3>1. CASE s = t
      BY <1>1, <2>4, <2>6, <3>1, MissFacts
      DEF RequestMissed, HealthKept, Healthy, Active, queues, Held, server_state
    <3>2. CASE s # t
      BY <1>1, <2>6, <3>2 DEF RequestMissed, HealthKept, Healthy, Active, queues, Held
    <3> QED
      BY <3>1, <3>2
  <2>7. CASE RequestParseEnd(t)
    BY <1>1, <2>4, <2>7 DEF RequestParseEnd, HealthKept, Healthy, Active, queues, Held
  <2>8. CASE RequestChoose(t)
    BY <1>1, <2>8 DEF RequestChoose, HealthKept, Healthy, Active, fields, queues, Held
  <2>9. CASE RequestToSubscribed(t)
    <3>1. subscribed'.members = subscribed.members \cup {t}
      BY <2>9, PushFacts DEF RequestToSubscribed
    <3>2. Held(upd') = Held(upd)
      BY <2>9 DEF RequestToSubscribed, Woken, AtCheck, Held
    <3> QED
      BY <1>1, <2>9, <3>1, <3>2 DEF RequestToSubscribed, HealthKept, Healthy, Active, fields, Held
  <2>10. CASE RequestToNotSubscribed(t)
    <3>1. Held(sub') = Held(sub)
      BY <2>10 DEF RequestToNotSubscribed, Woken, AtCheck, Held
    <3> QED
      BY <1>1, <2>10, <3>1 DEF RequestToNotSubscribed, HealthKept, Healthy, Active, fields, Held
  <2> QED
    BY <1>7, <2>2, <2>3, <2>5, <2>6, <2>7, <2>8, <2>9, <2>10, <2>11 DEF RequestThread
<1>8. CASE RequestPost \/ ReceiveEnd \/ Tick
  BY <1>2, <1>8 DEF RequestPost, ReceiveEnd, Tick, Held, fields, queues, threads
<1>9. ASSUME NEW t \in Servers, NEW kind \in Answers[t], ReceiveBegin(t, kind)
      PROVE  HealthKept(s)'
  BY <1>2, <1>9 DEF ReceiveBegin, Held, queues, threads
<1>10. CASE ReceiveStore
  <2>1. UNCHANGED <<not_connect_count, subscribed, Held(sub), Held(upd)>>
    BY <1>10 DEF ReceiveStore, queues, Held
  <2>2. state' = [state EXCEPT ![recv.server] = "RESP"] /\ request' = WokenRequests
    BY <1>10 DEF ReceiveStore
  <2> QED
    BY <1>1, <2>1, <2>2 DEF WokenRequests, HealthKept, Healthy, Active
<1>11. CASE UNCHANGED vars
  BY <1>2, <1>11 DEF vars, Held, fields, queues, threads
<1> QED
  BY <1>5, <1>6, <1>7, <1>8, <1>9, <1>10, <1>11 DEF Next

\* Only servers that accepted, and have missed fewer than MAX_NOT_CONNECT_COUNT
\* answers since, are refreshed by the update thread.
THEOREM RefreshedServersAccepted == Spec => []SubscribedHealthy
<1>1. HealthInv => SubscribedHealthy
  <2> SUFFICES ASSUME HealthInv, NEW s \in subscribed.members \cup Held(upd)
               PROVE  Healthy(s)
    BY DEF SubscribedHealthy, Healthy
  <2>1. s \in Servers
    BY DEF HealthInv, PlaceInv, TypeInv, TypeOK, TypeOfQueue, TypeOfThread, Held
  <2> QED
    BY <2>1 DEF HealthInv, HealthKept
<1> QED
  BY <1>1, HealthInit, HealthStep, PTL DEF Spec
=============================================================================
