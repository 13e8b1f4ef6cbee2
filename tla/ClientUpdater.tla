---------------------------- MODULE ClientUpdater ----------------------------
(***************************************************************************)
(* The subscription engine of mtn-client: the threads that ask every       *)
(* server of the list for a subscription, refresh the subscriptions they   *)
(* obtained and account for servers that do not answer.                    *)
(*                                                                         *)
(*   subscription_thread  pops not_subscribed_queue      (mtn-client-updater.c) *)
(*   update_thread        pops subscribed_queue          (mtn-client-updater.c) *)
(*   request threads      one per popped server: send_request, then the    *)
(*                        rest of send_subscription_request_thread         *)
(*   receive_thread       receive_response stores an answer and wakes all  *)
(*                                                                         *)
(* Line 151 of the updater unlocks a mutex its thread does not hold, and   *)
(* can so open the receiver's section: the sections under a server's mutex *)
(* are split where that shows.  Sections under a queue's mutex are one     *)
(* action.  Times are kept as ages, "seconds since", capped where no       *)
(* comparison tells them apart.                                            *)
(***************************************************************************)
EXTENDS Integers, FiniteSets, ServerQueue

CONSTANTS
  Servers,                    \* the entries of the client's server list
  MAX_ACTIVE_REQUESTS,        \* initial value of the request semaphore
  MAX_NOT_CONNECT_COUNT,      \* misses after which the client backs off
  SERVER_RESPONSE_TIMEOUT,    \* seconds a request waits for its answer
  SUBSCR_EXPIRE_TIME,         \* seconds after which a subscription is refreshed
  NEXT_CONNECT_ATTEMPT_TIME,  \* seconds a server in WAIT is left alone
  Answers,                    \* what each server may answer
  InitStates,                 \* what an uninitialised server_data.state may hold
  InitCounts,                 \* the same of not_connect_count
  InitAges                    \* the same of last_connect_attempt_time, as an age

server_state == {"SEND_REQ", "RESP", "WAIT", "SUBSCR"}

ASSUME ClientAssumption ==
  /\ IsFiniteSet(Servers)
  /\ NoServer \notin Servers
  /\ MAX_ACTIVE_REQUESTS \in Nat \ {0}
  /\ MAX_NOT_CONNECT_COUNT \in Nat \ {0}
  /\ SERVER_RESPONSE_TIMEOUT \in Nat
  /\ SUBSCR_EXPIRE_TIME \in Nat
  /\ NEXT_CONNECT_ATTEMPT_TIME \in Nat
  /\ SERVER_RESPONSE_TIMEOUT <= NEXT_CONNECT_ATTEMPT_TIME
  /\ SUBSCR_EXPIRE_TIME <= NEXT_CONNECT_ATTEMPT_TIME
  /\ Answers \in [Servers -> SUBSET {"ACCEPT", "REJECT"}]
  /\ InitStates \subseteq server_state
  /\ InitCounts \subseteq 0 .. 2 * MAX_NOT_CONNECT_COUNT - 1
  /\ InitAges \subseteq 0 .. NEXT_CONNECT_ATTEMPT_TIME

VARIABLES
  state,               \* server_data.state
  not_connect_count,   \* server_data.not_connect_count
  since_attempt,       \* age of server_data.last_connect_attempt_time
  response,            \* kind of the text in server_data.response
  locked,              \* servers whose server_data.mutex is held
  not_subscribed,      \* not_subscribed_queue
  subscribed,          \* subscribed_queue
  sub,                 \* subscription_thread: where it is, the server it looks at
  upd,                 \* update_thread: the same
  request,             \* where the request thread of each server is
  since_send,          \* age of that thread's send_time
  posting,             \* request threads that still have to post the semaphore
  semaphore,           \* its value
  recv,                \* receive_thread: where it is, the server it writes to
  asked,               \* servers a request was sent to: answers may come in
  lost,                \* servers whose request thread could not be created
  opened               \* history: servers whose receiver section line 151 opened

fields == <<state, not_connect_count, since_attempt, response>>
queues == <<not_subscribed, subscribed>>
threads == <<request, since_send, posting, semaphore, lost, opened>>
network == <<recv, asked>>
vars == <<fields, locked, queues, sub, upd, threads, network>>

-----------------------------------------------------------------------------
(* Ages and counters.                                                      *)

MaxAge == NEXT_CONNECT_ATTEMPT_TIME

Older(age) == IF age < MaxAge THEN age + 1 ELSE age

\* not_connect_count is exact below CountCap and beyond that exact modulo
\* MAX_NOT_CONNECT_COUNT, all that send_request looks at.
CountCap == 2 * MAX_NOT_CONNECT_COUNT

NextCount(n) == IF n + 1 = CountCap THEN MAX_NOT_CONNECT_COUNT ELSE n + 1

\* A client that gives a server up one miss late.
GivenUpLate(n) == n % (MAX_NOT_CONNECT_COUNT + 1) = 0

GivenUp(n) == n % MAX_NOT_CONNECT_COUNT = 0

(* pthread_cond_broadcast: a queue's only waiter goes back to its test;    *)
(* response_cond is shared by the request threads of all servers.          *)

AtCheck == [pc |-> "check", server |-> NoServer]

\* No broadcast.
NotWoken(thread) == thread

Woken(thread) ==
  IF thread.pc \in {"empty", "timed"} THEN AtCheck ELSE thread

NoWokenRequests == request

WokenRequests ==
  [s \in Servers |-> IF request[s] = "asleep" THEN "await" ELSE request[s]]

-----------------------------------------------------------------------------
(* subscription_thread.  A server in SEND_REQ is tried at once, one in     *)
(* WAIT when its time is up, any other when the timed wait ends.           *)

MustWait(s) ==
  /\ state[s] # "SEND_REQ"
  /\ state[s] = "WAIT" => since_attempt[s] < NEXT_CONNECT_ATTEMPT_TIME

SubscriptionSleep ==
  /\ sub.pc = "check"
  /\ not_subscribed.members = {}
  /\ sub' = [pc |-> "empty", server |-> NoServer]
  /\ UNCHANGED <<fields, locked, queues, upd, threads, network>>

SubscriptionTimedSleep ==
  /\ sub.pc = "check"
  /\ not_subscribed.members # {}
  /\ MustWait(not_subscribed.first)
  /\ sub' = [pc |-> "timed", server |-> not_subscribed.first]
  /\ UNCHANGED <<fields, locked, queues, upd, threads, network>>

\* pthread_cond_timedwait reports ETIMEDOUT; the queue mutex is still to be
\* taken again, so the queue may change before SubscriptionTimeoutPop.
SubscriptionTimeout ==
  /\ sub.pc = "timed"
  /\ since_attempt[sub.server] >= NEXT_CONNECT_ATTEMPT_TIME
  /\ sub' = [pc |-> "timeout", server |-> NoServer]
  /\ UNCHANGED <<fields, locked, queues, upd, threads, network>>

TakeNotSubscribed ==
  LET s == not_subscribed.first
  IN  /\ not_subscribed' \in Pop(not_subscribed)
      /\ state' = [state EXCEPT ![s] = "SEND_REQ"]
      /\ sub' = [pc |-> "popped", server |-> s]
      /\ UNCHANGED <<not_connect_count, since_attempt, response, locked,
                     subscribed, upd, threads, network>>

SubscriptionPop ==
  /\ sub.pc = "check"
  /\ not_subscribed.members # {}
  /\ ~ MustWait(not_subscribed.first)
  /\ TakeNotSubscribed

SubscriptionTimeoutPop ==
  /\ sub.pc = "timeout"
  /\ TakeNotSubscribed

(* update_thread: the same on the other queue, with the expiry of the      *)
(* subscription for a deadline, and without touching the state.            *)

UpdateSleep ==
  /\ upd.pc = "check"
  /\ subscribed.members = {}
  /\ upd' = [pc |-> "empty", server |-> NoServer]
  /\ UNCHANGED <<fields, locked, queues, sub, threads, network>>

UpdateTimedSleep ==
  /\ upd.pc = "check"
  /\ subscribed.members # {}
  /\ since_attempt[subscribed.first] < SUBSCR_EXPIRE_TIME
  /\ upd' = [pc |-> "timed", server |-> subscribed.first]
  /\ UNCHANGED <<fields, locked, queues, sub, threads, network>>

UpdateTimeout ==
  /\ upd.pc = "timed"
  /\ since_attempt[upd.server] >= SUBSCR_EXPIRE_TIME
  /\ upd' = [pc |-> "timeout", server |-> NoServer]
  /\ UNCHANGED <<fields, locked, queues, sub, threads, network>>

TakeSubscribed ==
  /\ subscribed' \in Pop(subscribed)
  /\ upd' = [pc |-> "popped", server |-> subscribed.first]
  /\ UNCHANGED <<fields, locked, not_subscribed, sub, threads, network>>

UpdatePop ==
  /\ upd.pc = "check"
  /\ subscribed.members # {}
  /\ since_attempt[subscribed.first] >= SUBSCR_EXPIRE_TIME
  /\ TakeSubscribed

UpdateTimeoutPop ==
  /\ upd.pc = "timeout"
  /\ TakeSubscribed

-----------------------------------------------------------------------------
(* sem_wait, then pthread_create, whose result nobody looks at: when it    *)
(* fails, the server and the semaphore's unit are gone.                    *)

\* sem_trywait with its result ignored.
TakeSlotAnyway == semaphore' = semaphore - 1

TakeSlot ==
  /\ semaphore > 0
  /\ semaphore' = semaphore - 1

CreateRequestThread(s) ==
  /\ TakeSlot
  /\ \/ /\ request' = [request EXCEPT ![s] = "send"]
        /\ UNCHANGED lost
     \/ /\ lost' = lost \cup {s}
        /\ UNCHANGED request
  /\ UNCHANGED <<fields, locked, queues, since_send, posting, opened, network>>

SubscriptionSpawn ==
  /\ sub.pc = "popped"
  /\ CreateRequestThread(sub.server)
  /\ sub' = AtCheck
  /\ UNCHANGED upd

UpdateSpawn ==
  /\ upd.pc = "popped"
  /\ CreateRequestThread(upd.server)
  /\ upd' = AtCheck
  /\ UNCHANGED sub

-----------------------------------------------------------------------------
(* A request thread.  Its local send_time is kept at MaxAge when it is dead. *)

RequestSend(s) ==
  /\ request[s] = "send"
  /\ request' = [request EXCEPT ![s] = "await"]
  /\ since_send' = [since_send EXCEPT ![s] = 0]
  /\ asked' = asked \cup {s}
  /\ UNCHANGED <<fields, locked, queues, sub, upd, posting, semaphore, lost, opened, recv>>

\* A thread that exits when sendto fails, without queueing its server again.
RequestSendFailsForgets(s) ==
  /\ request[s] = "send"
  /\ request' = [request EXCEPT ![s] = "none"]
  /\ posting' = posting + 1
  /\ UNCHANGED <<fields, locked, queues, sub, upd, since_send, semaphore, lost, opened,
                 network>>

\* sendto fails: send_request returns false and has changed nothing.
RequestSendFails(s) ==
  /\ request[s] = "send"
  /\ request' = [request EXCEPT ![s] = "requeue"]
  /\ UNCHANGED <<fields, locked, queues, sub, upd, since_send, posting, semaphore,
                 lost, opened, network>>

\* The test of the while and the wait are two steps under the mutex: where
\* line 151 has opened the receiver's section, it may run between them.
RequestMustWait(s) ==
  /\ request[s] = "await"
  /\ s \notin locked
  /\ state[s] # "RESP"
  /\ request' = [request EXCEPT ![s] = "must_wait"]
  /\ locked' = locked \cup {s}
  /\ UNCHANGED <<fields, queues, sub, upd, since_send, posting, semaphore, lost,
                 opened, network>>

RequestSleep(s) ==
  /\ request[s] = "must_wait"
  /\ request' = [request EXCEPT ![s] = "asleep"]
  /\ locked' = locked \ {s}
  /\ UNCHANGED <<fields, queues, sub, upd, since_send, posting, semaphore, lost,
                 opened, network>>

RequestAnswered(s) ==
  /\ request[s] = "await"
  /\ s \notin locked
  /\ state[s] = "RESP"
  /\ request' = [request EXCEPT ![s] = "answered"]
  /\ since_attempt' = [since_attempt EXCEPT ![s] = 0]
  /\ since_send' = [since_send EXCEPT ![s] = MaxAge]
  /\ not_connect_count' = [not_connect_count EXCEPT ![s] = 0]
  /\ UNCHANGED <<state, response, locked, queues, sub, upd, posting, semaphore,
                 lost, opened, network>>

\* pthread_cond_wait instead of pthread_cond_timedwait.
RequestNoTimeout(s) == FALSE

\* pthread_cond_timedwait gives up; server->mutex is still to be taken again.
RequestTimeout(s) ==
  /\ request[s] = "asleep"
  /\ since_send[s] >= SERVER_RESPONSE_TIMEOUT
  /\ request' = [request EXCEPT ![s] = "timeout"]
  /\ UNCHANGED <<fields, locked, queues, sub, upd, since_send, posting, semaphore,
                 lost, opened, network>>

\* ETIMEDOUT is final: an answer stored meanwhile is not looked at.
RequestMissed(s) ==
  LET misses == NextCount(not_connect_count[s])
  IN  /\ request[s] = "timeout"
      /\ s \notin locked
      /\ request' = [request EXCEPT ![s] = "requeue"]
      /\ since_attempt' = [since_attempt EXCEPT ![s] = since_send[s]]
      /\ since_send' = [since_send EXCEPT ![s] = MaxAge]
      /\ not_connect_count' = [not_connect_count EXCEPT ![s] = misses]
      /\ state' = IF GivenUp(misses)
                    THEN [state EXCEPT ![s] = "WAIT"]
                    ELSE state
      /\ UNCHANGED <<response, locked, queues, sub, upd, posting, semaphore, lost,
                     opened, network>>

\* Lines 95 and 141 left out.
RequestParseBeginUnlocked(s) ==
  /\ request[s] = "answered"
  /\ request' = [request EXCEPT ![s] = "parsing"]
  /\ UNCHANGED <<fields, locked, queues, sub, upd, since_send, posting, semaphore,
                 lost, opened, network>>

RequestParseBegin(s) ==
  /\ request[s] = "answered"
  /\ s \notin locked
  /\ request' = [request EXCEPT ![s] = "parsing"]
  /\ locked' = locked \cup {s}
  /\ UNCHANGED <<fields, queues, sub, upd, since_send, posting, semaphore, lost,
                 opened, network>>

RequestParseEnd(s) ==
  /\ request[s] = "parsing"
  /\ state' = [state EXCEPT ![s] = IF response[s] = "ACCEPT" THEN "SUBSCR" ELSE "WAIT"]
  /\ response' = [response EXCEPT ![s] = "none"]
  /\ request' = [request EXCEPT ![s] = "requeue"]
  /\ locked' = locked \ {s}
  /\ UNCHANGED <<not_connect_count, since_attempt, queues, sub, upd, since_send,
                 posting, semaphore, lost, opened, network>>

\* The state that decides on the queue is read without a lock.
RequestChoose(s) ==
  /\ request[s] = "requeue"
  /\ request' = [request EXCEPT ![s] =
                   IF state[s] = "SUBSCR" THEN "to_subscribed" ELSE "to_not_subscribed"]
  /\ UNCHANGED <<fields, locked, queues, sub, upd, since_send, posting, semaphore,
                 lost, opened, network>>

\* Line 151 unlocks server->mutex, which this thread does not hold.
RequestToSubscribed(s) ==
  /\ request[s] = "to_subscribed"
  /\ subscribed' \in Push(subscribed, s)
  /\ upd' = Woken(upd)
  /\ locked' = locked \ {s}
  /\ opened' = IF recv.server = s THEN opened \cup {s} ELSE opened
  /\ request' = [request EXCEPT ![s] = "none"]
  /\ posting' = posting + 1
  /\ UNCHANGED <<fields, not_subscribed, sub, since_send, semaphore, lost, network>>

RequestToNotSubscribed(s) ==
  /\ request[s] = "to_not_subscribed"
  /\ not_subscribed' \in Push(not_subscribed, s)
  /\ sub' = Woken(sub)
  /\ request' = [request EXCEPT ![s] = "none"]
  /\ posting' = posting + 1
  /\ UNCHANGED <<fields, locked, subscribed, upd, since_send, semaphore, lost, opened,
                 network>>

\* The thread exits without sem_post.
RequestPostNothing ==
  /\ posting > 0
  /\ posting' = posting - 1
  /\ UNCHANGED <<fields, locked, queues, sub, upd, request, since_send, semaphore,
                 lost, opened, network>>

\* sem_post, the last thing a request thread does.
RequestPost ==
  /\ posting > 0
  /\ posting' = posting - 1
  /\ semaphore' = semaphore + 1
  /\ UNCHANGED <<fields, locked, queues, sub, upd, request, since_send, lost, opened,
                 network>>

-----------------------------------------------------------------------------
(* receive_thread.  The network may lose, delay and duplicate: a server    *)
(* that was ever asked may be heard of at any time, or never.              *)

ReceiveBegin(s, kind) ==
  /\ recv.pc = "idle"
  /\ s \in asked
  /\ s \notin locked
  /\ locked' = locked \cup {s}
  /\ response' = [response EXCEPT ![s] = kind]
  /\ recv' = [pc |-> "writing", server |-> s]
  /\ UNCHANGED <<state, not_connect_count, since_attempt, queues, sub, upd, threads,
                 asked>>

ReceiveStore ==
  /\ recv.pc = "writing"
  /\ state' = [state EXCEPT ![recv.server] = "RESP"]
  /\ request' = WokenRequests
  /\ recv' = [recv EXCEPT !.pc = "stored"]
  /\ UNCHANGED <<not_connect_count, since_attempt, response, locked, queues, sub, upd,
                 since_send, posting, semaphore, lost, opened, asked>>

ReceiveEnd ==
  /\ recv.pc = "stored"
  /\ locked' = locked \ {recv.server}
  /\ recv' = [pc |-> "idle", server |-> NoServer]
  /\ UNCHANGED <<fields, queues, sub, upd, threads, asked>>

Tick ==
  /\ since_attempt' = [s \in Servers |-> Older(since_attempt[s])]
  /\ since_send' = [s \in Servers |-> Older(since_send[s])]
  /\ UNCHANGED <<state, not_connect_count, response, locked, queues, sub, upd,
                 request, posting, semaphore, lost, opened, network>>

-----------------------------------------------------------------------------
\* load_client_server_list clears only the address of a server_data, so the
\* other fields start with what malloc returned; update_control queues all.
Init ==
  /\ state \in [Servers -> InitStates]
  /\ not_connect_count \in [Servers -> InitCounts]
  /\ since_attempt \in [Servers -> InitAges]
  /\ response = [s \in Servers |-> "none"]
  /\ locked = {}
  /\ \E f \in Servers : not_subscribed = [members |-> Servers, first |-> f]
  /\ subscribed = EmptyQueue
  /\ sub = AtCheck
  /\ upd = AtCheck
  /\ request = [s \in Servers |-> "none"]
  /\ since_send = [s \in Servers |-> MaxAge]
  /\ posting = 0
  /\ semaphore = MAX_ACTIVE_REQUESTS
  /\ recv = [pc |-> "idle", server |-> NoServer]
  /\ asked = {}
  /\ lost = {}
  /\ opened = {}

SubscriptionThread ==
  \/ SubscriptionSleep
  \/ SubscriptionTimedSleep
  \/ SubscriptionTimeout
  \/ SubscriptionPop
  \/ SubscriptionTimeoutPop
  \/ SubscriptionSpawn

UpdateThread ==
  \/ UpdateSleep
  \/ UpdateTimedSleep
  \/ UpdateTimeout
  \/ UpdatePop
  \/ UpdateTimeoutPop
  \/ UpdateSpawn

RequestThread(s) ==
  \/ RequestSend(s)
  \/ RequestSendFails(s)
  \/ RequestMustWait(s)
  \/ RequestSleep(s)
  \/ RequestAnswered(s)
  \/ RequestTimeout(s)
  \/ RequestMissed(s)
  \/ RequestParseBegin(s)
  \/ RequestParseEnd(s)
  \/ RequestChoose(s)
  \/ RequestToSubscribed(s)
  \/ RequestToNotSubscribed(s)

Next ==
  \/ SubscriptionThread
  \/ UpdateThread
  \/ \E s \in Servers : RequestThread(s)
  \/ RequestPost
  \/ \E s \in Servers : \E kind \in Answers[s] : ReceiveBegin(s, kind)
  \/ ReceiveStore
  \/ ReceiveEnd
  \/ Tick

Spec == Init /\ [][Next]_vars

-----------------------------------------------------------------------------
(* Properties.                                                             *)

Active == {s \in Servers : request[s] # "none"}
Held(thread) == IF thread.pc = "popped" THEN {thread.server} ELSE {}

Idle == not_subscribed.members \cup subscribed.members \cup Held(sub) \cup Held(upd)

TypeOfQueue(q) ==
  /\ q.members \subseteq Servers
  /\ q.first \in IF q.members = {} THEN {NoServer} ELSE q.members
  /\ q = [members |-> q.members, first |-> q.first]

TypeOfThread(t) ==
  /\ t \in [pc : {"check", "empty", "timed", "timeout", "popped"},
            server : Servers \cup {NoServer}]
  /\ t.server \in Servers <=> t.pc \in {"timed", "popped"}

request_pcs ==
  {"none", "send", "await", "must_wait", "asleep", "timeout", "answered", "parsing",
   "requeue", "to_subscribed", "to_not_subscribed"}

\* Type invariant.
TypeOK ==
  /\ state \in [Servers -> server_state]
  /\ not_connect_count \in [Servers -> 0 .. CountCap - 1]
  /\ since_attempt \in [Servers -> 0 .. MaxAge]
  /\ response \in [Servers -> {"none", "ACCEPT", "REJECT"}]
  /\ locked \subseteq Servers
  /\ TypeOfQueue(not_subscribed) /\ TypeOfQueue(subscribed)
  /\ TypeOfThread(sub) /\ TypeOfThread(upd)
  /\ request \in [Servers -> request_pcs]
  /\ since_send \in [Servers -> 0 .. MaxAge]
  /\ posting \in Nat /\ semaphore \in Nat
  /\ recv \in [pc : {"idle", "writing", "stored"}, server : Servers \cup {NoServer}]
  /\ recv.server \in Servers <=> recv.pc # "idle"
  /\ asked \subseteq Servers /\ lost \subseteq Servers /\ opened \subseteq Servers

\* The threads hand the servers to one another through the two heaps and the
\* argument of pthread_create: at any time a server is in exactly one place,
\* so it is never queued twice, forgotten, or asked by two threads at a time.
OnePlace ==
  \A s \in Servers :
    LET in_not_subscribed == s \in not_subscribed.members
        in_subscribed == s \in subscribed.members
        by_sub == s \in Held(sub)
        by_upd == s \in Held(upd)
        active == s \in Active
        gone == s \in lost
    IN  /\ in_not_subscribed \/ in_subscribed \/ by_sub \/ by_upd \/ active \/ gone
        /\ in_not_subscribed => ~ (in_subscribed \/ by_sub \/ by_upd \/ active \/ gone)
        /\ in_subscribed => ~ (by_sub \/ by_upd \/ active \/ gone)
        /\ by_sub => ~ (by_upd \/ active \/ gone)
        /\ by_upd => ~ (active \/ gone)
        /\ active => ~ gone

\* Each unit of the request semaphore is free, used by one request thread, due
\* to be posted by one, or gone with a thread that was never created: never
\* more than MAX_ACTIVE_REQUESTS requests are under way.
SlotsAccounted ==
  semaphore + Cardinality(Active) + posting + Cardinality(lost) = MAX_ACTIVE_REQUESTS

\* A server whose subscription is to be refreshed did accept: it is SUBSCR, or
\* RESP by an answer that came unasked, and has missed fewer answers than make
\* the client give it up.
SubscribedHealthy ==
  \A s \in subscribed.members \cup Held(upd) :
    /\ state[s] \in {"SUBSCR", "RESP"}
    /\ not_connect_count[s] < MAX_NOT_CONNECT_COUNT

\* No thread sleeps without a deadline on a queue that is not empty, and when a
\* timed wait ends, however it ends, the queue still has the head that is then
\* read again (lines 200 and 249).
SleepMatchesQueue ==
  /\ sub.pc = "empty" => not_subscribed.members = {}
  /\ upd.pc = "empty" => subscribed.members = {}
  /\ sub.pc \in {"timed", "timeout"} => not_subscribed.members # {}
  /\ upd.pc \in {"timed", "timeout"} => subscribed.members # {}

\* A request thread does not sleep over an answer that is already stored,
\* unless line 151 once let it in between the receiver's store and broadcast.
NoMissedAnswer ==
  \A s \in Servers \ opened : request[s] = "asleep" => state[s] # "RESP"

\* An answer is not overwritten while it is parsed, with the same exception.
ParseExclusive ==
  \A s \in Servers \ opened :
    ~ (request[s] = "parsing" /\ recv = [pc |-> "writing", server |-> s])

\* The updater implements the abstract pool of requests: whatever the heaps,
\* timers and answers do, servers only move from idle to running and back, and
\* no request starts without a place of its own.
Pool == INSTANCE RequestPool WITH
  idle <- Idle,
  running <- Active,
  free <- semaphore

PoolSpec == Pool!Spec

-----------------------------------------------------------------------------
(* Fairness: every thread runs and time passes.  A thread that competes for *)
(* the semaphore or a server's mutex, or is woken again and again after its *)
(* deadline, still gets its turn: strong fairness.  The network owes        *)
(* nothing: no fairness on ReceiveBegin.                                    *)

Fairness ==
  /\ SF_vars(SubscriptionThread) /\ SF_vars(UpdateThread)
  /\ \A s \in Servers : SF_vars(RequestThread(s)) /\ SF_vars(RequestTimeout(s))
  /\ WF_vars(RequestPost)
  /\ WF_vars(ReceiveStore) /\ WF_vars(ReceiveEnd)
  /\ WF_vars(Tick)

FairSpec == Spec /\ Fairness

\* Every request comes to an end, answered or not.
RequestReturns == \A s \in Servers : s \in Active ~> s \notin Active

\* The client asks again and again, whatever the servers answer, as long as no
\* thread creation failed: a failure costs a place in the semaphore for good.
ClientNeverStalls ==
  [](lost = {}) => []<>(\E s \in Servers : request[s] = "send")

\* Comment at mtn-client-updater.c:134, "server rejects client request, client
\* waits for next attempt" (also mtn-client-request.c:63): a server in WAIT
\* is not tried again before its NEXT_CONNECT_ATTEMPT_TIME is over.
BackoffKept ==
  [][\A s \in Servers :
       state[s] = "WAIT" /\ state'[s] = "SEND_REQ"
         => since_attempt[s] >= NEXT_CONNECT_ATTEMPT_TIME]_vars
=============================================================================
