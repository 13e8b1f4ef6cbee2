# Verification of stream-net (mtn-client and mtn-server)

stream-net distributes messages over UDP.  A user drops a file into a directory
of **mtn-server** and sends it SIGHUP; the server cuts the file into datagrams
and sends them to every subscribed client.  **mtn-client** subscribes at every
server of its list and keeps the subscriptions alive.  Both programs are C with
POSIX threads; their difficulty is in the threads, semaphores, mutexes and
condition variables that hand servers, clients and messages from one thread to
the next, and in what the network, the clock, the user and a signal do meanwhile.

The models are translated from `src/src/*.c`.  Other documents of the repository
(`src/doc`) and its libraries (`src/lib`, uthash) are not modelled; uthash's
macros are modelled by what they do to the map.

- [1. Inventory](#1-inventory)
- [2. Modules](#2-modules)
- [3. Runs](#3-runs)
- [4. Fairness](#4-fairness)
- [5. Proofs](#5-proofs)
- [6. What disagrees with the code's own words](#6-what-disagrees-with-the-codes-own-words)
- [7. What is not modelled](#7-what-is-not-modelled)
- [8. Plan](#8-plan)

## 1. Inventory

### mtn-client

| component | state | operations | talks to |
|---|---|---|---|
| updater (`mtn-client-updater.c`) | two heaps of `server_data*`, their mutexes and conditions, the request semaphore | `subscription_thread`, `update_thread`, `send_subscription_request_thread` | takes servers from a heap, makes a request thread for each, which puts the server back |
| requests (`mtn-client-request.c`) | `server_data.{mutex, state, response, not_connect_count, last_connect_attempt_time}`, one response condition for all servers | `send_request`, `receive_response` | called by a request thread and by the receiver |
| receiver (`mtn-client-receiver.c`) | none of its own | `receive_thread` | calls `receive_response` for MTN_RESPONSE |
| server list (`mtn-client-server-list.c`) | the server map | `parse_client_server_list`, once at start | reads lines, fills `not_subscribed_queue` |
| array heap (`array_heap.c`) | an array and a comparison | `heap_build`, `heap_push`, `heap_pop`, `heap_first` | used by both queue threads |
| data messages (`mtn-client-data-message.c`) | unfinished | | called by the receiver |

A server goes `not_subscribed_queue -> subscription_thread -> request thread ->`
one of the queues, or `subscribed_queue -> update_thread -> request thread -> ...`.
Hard here: three kinds of threads and the receiver share `server_data`, with and
without its mutex; a timed wait may end while the queue changes; an answer may
arrive when its request has just timed out; a broadcast wakes the threads of all
servers; line 151 unlocks a mutex the thread does not hold; the comparison of
the heap reads other memory than it means; `memset` clears 8 bytes of a
`server_data`; `pthread_create` may fail, and nobody looks.
Right means: a server is in one place at a time and never forgotten, at most
MAX_ACTIVE_REQUESTS requests are under way, no thread sleeps over what it waits
for, only servers that accepted are refreshed, and the client never stops asking.

### mtn-server

| component | state | operations | talks to |
|---|---|---|---|
| transmitter (`mtn-server-transmitter.c`) | `sending_done_semaphore`, `max_sendings_semaphore`, sender threads | `transmission_thread`, `send_data_message_to_client`, `sending_done` | reads `to_send_queue` and `server_client_map`, writes `sent_map` and the directories |
| receiver and client list (`mtn-server-receiver.c`, `mtn-server-client-list.c`) | `server_client_map` | `request_control_thread`, `receive_subscription`, `send_response` | changes the map the transmitter iterates over |
| loader (`mtn-server-data-message.c`) | `new_message_available`, `last_release_time`, `last_id`, `to_send_queue` | `new_message_signal` (SIGHUP), `load_data_message_thread` | appends to `to_send_queue` |
| process (`mtn-server.c`) | PID file, signal handler | start, end, restart | |

Hard here: the map is changed without its mutex while a round counts it, walks
it and frees nodes of it; the barrier is a semaphore that several senders take
down outside the mutex under which they signal; a sender reads the head of the
queue when it gets to run; a signal handler that locks a mutex may run in any
thread; the directory changes while it is read; a message is moved by a copy and
an unlink, and the server may end between any two steps.
Right means: a message leaves the queue exactly when everybody counted has got
it, each sender sends the message it was made for, nothing that was announced is
forgotten, no file gets lost between the two directories, keys of messages are
unique.

### Shared by both

| component | state | operations | talks to |
|---|---|---|---|
| files (`mtn-common.c`) | the directories `new_messages` and `sent_messages`; a static line buffer | `init_file`, `load_file`, `rm_file`, `get_file_line`, `get_token` | loader, transmitter, configuration, server list, and the user |
| configuration (`mtn-config.c`, `mtn-client-config.c`, `mtn-server-config.c`) | the map of names and values | `init_config`, `parse_config_file`, `set_config_value` | reads lines, once at start |
| protocol (`mtn-protocol.{c,h}`) | none: keywords, lengths, formats | | between the two programs |

Hard here: a line may begin in one piece of a file and end in another, and the
buffer outlives the file it was filled from; `get_file_line` calls itself at the
end of a piece and adds up lengths that are off by one at the end of a file;
three flags of `parse_config_file` carry a quoted value over words and lines; the
head of a datagram is longer than the constant reserved for it.
Between the programs: a subscription is refreshed and dropped after the same time
by different clocks, and the datagrams of the refresh may be lost, repeated or
late; a server that is started again knows nobody.
Right means: lines, settings and addresses come out as they stand in the file; a
client can put a message together again; a client that refreshes in time stays
subscribed and gets every message, and one that was disturbed comes back.

## 2. Modules

| module | models | composed with |
|---|---|---|
| `RequestPool` | abstract: what the updater promises of its requests | refined by `ClientUpdater` |
| `ServerQueue` | abstract: what the updater relies on of its two heaps, a set and its front | used by `ClientUpdater`, refined by `ArrayHeap` |
| `Broadcast` | abstract: what the server promises of its messages | refined by `ServerTransmitter` |
| `ClientUpdater` | updater, requests, receiver's MTN_RESPONSE branch | |
| `ArrayHeap` | the heap as a sequence, turn by turn of its loops, under any comparison | |
| `ServerTransmitter` | transmitter, senders, `receive_subscription` | |
| `MessageLoader` | signal handler, loader, queue, the move of the file, restart | |
| `DataBlocks` | the cut of a file into blocks, the datagrams of a message, what the client's receiver gets | extended by `Files` |
| `FileLines` | `get_file_line`, call by call, and the loops that use it | extended by `Files` |
| `ConfigFile` | defaults; a line begun, a token taken, a line ended by `parse_config_file`; a turn of `parse_client_server_list` | extended by `ConfigRules` |
| `ConfigRules` | what the words of a config file say, to compare with | extended by `Files` |
| `Files` | the start of both `main`s: config, then the server list or a message | composes the four above |
| `StreamNet` | a client, a server, the wire and the clock | composes `ClientUpdater` and `ServerTransmitter` |
| `ClientUpdaterProofs`, `ArrayHeapProofs`, `MessageLoaderProofs`, `ServerTransmitterProofs`, `BroadcastProofs`, `DataBlocksProofs`, `FilesProofs` | the theorems | |
| `StreamNetProofs` | the theorems about `StreamNet` | uses those about client and server by INSTANCE |
| `MC...` | model values, inputs and symmetry for the runs | |

### ClientUpdater

State: the fields of `server_data` as functions of the server (`state`,
`not_connect_count`, `since_attempt` for `last_connect_attempt_time`, `response`),
`locked` (whose mutex is held), the two queues, the place of each thread (`sub`,
`upd`, `request[s]`, `recv`), the semaphore, and `posting`, the number of request
threads whose last statement, `sem_post`, is still to run.  Times are ages,
cut off at NEXT_CONNECT_ATTEMPT_TIME, the longest time anything is compared with;
the misses are exact modulo MAX_NOT_CONNECT_COUNT, as the code looks at nothing else.

A section under a queue's mutex is one action: nothing in it is visible outside
before the unlock.  Sections under `server_data.mutex` are not: line 151 of the
updater unlocks that mutex without holding it, so the receiver's section and the
test-and-wait of `send_request` are split where another thread may come in.
`opened` remembers the servers for which that has happened; two properties
except those, and say so.
`Subscription...` and `Update...` are the two queue threads, `Request...` the
request thread line by line (send, test, wait, time out, account, parse, choose
a queue, push, post), `Receive...` the receiver.  The network is the set `asked`:
a server asked once may be heard of at any time, any number of times, or never.
`Init` lets the fields that `memset` misses hold any of the InitStates, InitCounts
and InitAges.

### ServerQueue and ArrayHeap

`connect_sooner` gets the addresses of two array slots and treats them as
`server_data`, so it may return anything.  `ServerQueue` is what is left of a
priority queue then: a push leaves the front or puts the new server there, a pop
may leave any server at the front.
`ArrayHeap` has the code's index arithmetic, one action per turn of a loop: `Sink`
and `Settle` are a call of `heapify` that swaps or does not (`left` is the loop of
`heap_build` around it), `Rise` and `RiseEnd` the loop of `heap_push`.  In every turn
the comparison is any of Comparisons, so it may contradict itself within one
operation; an operation runs under the queue's mutex, and its caller sees only what
it leaves (`seen`).  `ImplementsQueue` says that each operation then does what
`ServerQueue` says of it, `FirstIsSoonest` that with the comparison that is meant the
front is always the server to be contacted first.

### ServerTransmitter

State: `queue`, `sent` (sent_map), `clients` (server_client_map in the order of
iteration), `age` of each client's last update, `main` (the transmitter, with
`node` and `tmp` of HASH_ITER), the two semaphores, `sender[m][c]` and the message
that thread found, `recv` (request_control_thread).  A uthash macro is one step.
`due`, `audience`, `surplus` and `unspawned` are history: what is left of the
count, who was counted and not removed, whether a round ever came to a client it
had not counted, which senders could not be created.  Properties that the
unlocked map breaks are stated for `~ surplus`; that it is broken otherwise is
the run `server_barrier`.

### Broadcast

Messages go out one at a time in the order they came.  A round opens for an
audience; someone of it is sent the message (`Deliver`) or excused before the
message came to him (`Excuse`: an expired client); the round closes when everybody
left in the audience was sent the message.  Nobody outside the audience is sent
anything.  `disturbed` ends all promises; it is `surplus` of the transmitter.
`Deliver` is the sender's step up to its `sem_post` at line 231, with the message
it found at the head of the queue, so a sender that reads another message, or a
barrier that opens early, is no step of `Broadcast`.  A sender that could not be
created keeps its round open for ever, in code and model.

### MessageLoader

State: the two directories (`sent_messages[n]` is the sequence file, file-1,
file-2 ... of name n), the flag, the loader with its open directory stream
(`todo`: entries it will return; `maybe`: entries it may return, as POSIX leaves
that open for files that come or go after opendir), the identity of the last
message, the queue, the transmitter and the keys in sent_map.  A round of sending
is the one step `TransmitterRetire`.
`left` is what is left of the behaviour's budget of files, SIGHUPs, restarts and changes
of the clock; it bounds the runs and means nothing to the code.
`init_file` makes a file that is missing in two steps (access, creat), both for
the loader and for the destination of a move.

A read that fails before anything was read gives the file up (`LoaderError`); one that
fails behind a block (`LoaderReadFails`) is only reported, and what was read is a message
all the same: it is queued, sent and retired like any other (line 156 to 184).  `whole`
tells the two kinds of message apart, and `transmitted` and `cut` are the history of
what rounds sent of them.

The handler of SIGHUP takes two mutexes: `new_message_mutex`, and with its last line,
`info`, `print_mutex` of `mtn-common.c`, which every call of `info`, `warning` and
`error_errno` holds while it prints.  It may run in any thread.  `Signal` is the handler
in a thread that holds neither; it waits for whoever holds one.  `SignalInLoader` runs
in the loader while that holds `new_message_mutex`, `SignalInLog` in a thread that is
within a log call: that thread then waits for itself and never lets go.  `kept` are the
mutexes that are never released from then on, `halted` the threads that never go on.
Another thread stops where it needs one of `kept`: the loader and the transmitter at
their next log call (`LoaderLog`, `TransmitterLog`; a sender at an error of `sendto`,
`TransmitterHalts`), and each later SIGHUP stops the thread it meets (`SignalToo`), with
`to_send_queue_mutex` if that thread holds it.  Their program counters name the log
calls: `log`, `report` and `summary` of the loader, `tell` and `complain` of the
transmitter.
`Restart` forgets everything but the directories.

### DataBlocks

State: one message's file (`content`), how far it was read, the `data_message` with
its blocks, the sender's place (`next`), the datagrams sent and those taken.
A byte is Nul or not: `strcpy` of a buffer ends at the first Nul (`CString`).  A
datagram is its type, time, id, number and text; the text lengths of the first
four decide how much of the last fits the receiver's MTN_MSG_LEN bytes, though
`sendto` is given the length that `snprintf` would have liked.
`release_time_str` has room for 10 of the 11 bytes a time needs, and what is in it
then is open: its length is one of StampLengths.  The wire keeps every datagram
for ever and delivers it any number of times or never.

### FileLines, ConfigFile and Files

`FileLines` is `get_file_line` as a machine: a step is what one call does up to its
return (`ReadEnd`, `ReadLine`) or up to the call it makes of itself for the rest of
its line (`ReadPiece`), and `Join` is what that call's caller makes of the result.
`reader` is the static buffer from `buffer_ptr` on with what `read` has not given
yet, `calls` the local `line` of each call that waits, `returned` the result of the
last.  `OpenFile`, `TakeLine` and `EndFile` are the `while` loops of the two parsers;
`OpenFile` leaves the buffer as it is.  `begins` and `lines` are history: where in the
file each call's line begins, and which lines came out.
`parse_config_file` is three actions: `ParseConfigLine` takes a line in the outer loop
(`StartLine`), `ParseToken` takes a token in the inner one (`TakeToken`), and
`ParseLineEnds` is what comes behind that loop (`EndLine`).  `parser` holds its locals,
with the three flags as a stage and `line_ptr` as what is left of the line; a
token has its text and the quotes it begins and ends with.  `words` is history: the
words of the lines got, each with whether it was the first of its line.
`ParseServer` is one turn of `parse_client_server_list`.  The symbols of a file are
tokens, addresses or bytes, as its reader sees them, and newlines.
`Files` puts them together: `main` reads the config line by line or fails to
open it; the client goes on to its server list with the same buffer, the server
starts the loader of `DataBlocks`.  Properties compare with definitions of what
a file says that know nothing of pieces, buffers and flags: `Stretches`, `AsWritten`,
`TextOf`.  `LastLost` says which last symbol is lost, and the properties expect that.
`AsWritten` reads the words as a whole: which of them begin a line (`AreLines`: those
that are not within the string of an earlier one), where the value of such a line ends
(`EndsAt`), and that the last line that sets a name holds.

### StreamNet

Client C and server S are instances of `ClientUpdater` and `ServerTransmitter`,
with all their actions.  They share the wire (kinds of datagrams: the request and
the ACCEPT) and the clock (`Tick` is a tick of both).  `RequestSend` puts a request
on the wire, `ReceiveFind` of the server takes it, and so on: what the client
hears is now what a server has sent, not what any server may send.
Faults are: a datagram lost or repeated, a `sendto` or `pthread_create` that fails,
a second that passes while something is under way, a server that ends and is
started again.  MAX_FAULTS bounds their number.  `late` remembers whether a fault
has touched the last request, `promised` whether the round began while the client
was well subscribed: with these the properties say what is right as long as
nothing was disturbed, and what comes back afterwards.

## 3. Runs

A run's bounds are in its `.cfg`.

| run | properties | shows |
|---|---|---|
| `client_safety` | TypeOK, OnePlace, SlotsAccounted, SubscribedHealthy, SleepMatchesQueue, NoMissedAnswer, ParseExclusive, PoolSpec | servers are never lost, duplicated or slept over; the updater implements `RequestPool` |
| `client_live` | RequestReturns, ClientNeverStalls | every request ends, the client asks again and again although one server is silent |
| `client_backoff` | BackoffKept, violated | section 6 |
| `heap` | TypeOK, FirstIsSoonest, ImplementsQueue | the heap under the comparison meant, and under any |
| `server` | TypeOK, SlotsBalanced, IterationSafe, BarrierExact, RoundComplete, AudienceServed, ClientsAlive, NoLostSignal, BroadcastSpec, MessagesGetOut | rounds, barrier, expiry and joining clients; the server implements `Broadcast`; every loaded message is sent at last |
| `server_barrier` | BarrierWaitsForAll, violated | section 6 |
| `loader` | TypeOK, KeysUnique, NothingLost, ArchivedWasSent, AnnouncedKept | two files, SIGHUPs at any time and in any thread, failures, a restart: nothing announced is forgotten, nothing lost, nothing archived unsent |
| `loader_live` | AnnouncedGetOut | every announced file is sent at last, unless a thread halted in the handler |
| `loader_move` | MoveLosesNothing, violated | section 6 |
| `files` | TypeOK, LinesWhole, TooLongIsFatal, ConfigAsWritten, ServersOnce, BlocksAreTheFile, OnlyTailsLost | every small config file, server list and message: what is read is what is written, what arrives is the beginning of a block |
| `block_numbers` | BlocksNumbered, violated | section 6 |
| `net` | TypeOK, StaysSubscribed, SubscriberServed, SubscriptionRestored | a client that is not disturbed stays subscribed and gets every message whose round found it so; one that is disturbed comes back |

The bounds and why they are enough:

- `client_safety`: two servers and one place in the semaphore.  Two servers are
  needed for a queue whose head is replaced, a broadcast that wakes a thread of
  another server and a queue thread that waits for the place of a request; they
  are interchangeable (symmetry).  MAX_NOT_CONNECT_COUNT 2, SERVER_RESPONSE_TIMEOUT
  1, SUBSCR_EXPIRE_TIME 1 and NEXT_CONNECT_ATTEMPT_TIME 2 (3, 3, 5 and 30 in the
  code) keep their order and let each deadline pass before and after each other.
  All four states and both ends of count and age are initial values.
- `client_live`: one server always accepts, as mtn-server does, one never
  answers.  SUBSCR_EXPIRE_TIME 0 and NEXT_CONNECT_ATTEMPT_TIME 1 and one initial
  state: liveness is checked without symmetry.
- `heap`: five servers fill three levels of the heap, the last one half, so that
  a node has two children, one or none; two are tied and one has missed more.
- `server`, `server_barrier`: two clients and two messages, MAX_ACTIVE_SENDINGS 1
  (3 in the code), so that a round waits for its own senders and a message waits
  behind another.  Of the age of a client the server only asks whether it is above
  SUBSCR_EXPIRE_TIME (5 in the code), so 0 loses nothing: a tick makes any client
  expire, before, during or after the count, a refresh makes it fresh.
- `loader`, `loader_move`: two names and two texts, so that a name may serve both;
  both are interchangeable (symmetry in `loader`, where nothing is liveness).
  Each behaviour starts with one of the Budgets, the only bounds that stop a counter:
  two SIGHUPs and a restart, so that a file is loaded twice, a SIGHUP meets a thread
  that has halted, and whatever the server forgets is met again; or one SIGHUP, a
  restart and two changes of the clock, so that two messages share a second or do not,
  and the clock may be set back.  The clock enters `KeysUnique` only, which speaks of
  one run of the server, and what is between the two budgets is proved (section 5).
- `loader_live`: the same names and texts without symmetry, two files with one SIGHUP
  or one file with two, and a restart: a file may come before, during and after a scan,
  wait behind another, and be announced while a scan is on.
- `files`, `block_numbers`: pieces of three symbols (LINE_MAX_SIZE, 4096 in the
  code).  All config files up to five symbols for the client and four for the
  server, all server lists up to five: a line may end before, at and after the end
  of a piece, be too long by one or two, follow an empty line, and be last without
  a newline.  Three bytes of data in a block (MTN_MSG_LEN 25) and all files up to
  seven bytes: none, one, two and three blocks, the last full or not, a Nul
  anywhere.  Ids 0 and 1000 have three and four digits; a time has 0, 10 or 12
  bytes, so that a head is shorter than, as long as and longer than the right one.
- `net`: one client, one server, one message, one fault.  What the two programs do
  with two of each is the subject of their own runs.  SUBSCR_EXPIRE_TIME 1,
  SERVER_RESPONSE_TIMEOUT 1 and NEXT_CONNECT_ATTEMPT_TIME 2 let a refresh be in
  time, late, or lost and made up for.

Deadlock is checked in the client, heap, server and net runs.  In the loader's and
the files' it is not: when no file and no SIGHUP is left the threads sleep, and
when everything is read and sent nothing is left to do.

Every property of a passing run has a mutant in `PROJECT.json`: an operator of
the same module, kept beside the one it replaces and introduced by a comment
such as "Line 66 left out", under which the run finds the property violated.

## 4. Fairness

- Client: strong fairness for the two queue threads and each request thread: they
  compete for a semaphore and for mutexes, which POSIX gives to some waiter each
  time, and a thread whose deadline has passed may be woken again and again before
  it looks at the clock (`RequestTimeout`).  Weak fairness for the receiver once it
  has a datagram, for posting, and for time.  None for the network.
- Server: weak fairness for the transmitter and each sender: each waits only for
  something the others do once and for all in a round.  None for clients, time,
  the loader.
- Loader: weak fairness for the two threads, as long as they have not halted in the
  handler; none for user, signals, clock, restarts.  `AnnouncedGetOut` excepts, by
  `kept`, behaviours in which a handler never returned.
- Net: weak fairness for the disjunction of everything that is not a fault: both
  programs' threads, delivery and time together.  That is less than fairness to
  each of them: between two ticks only finitely much can happen, so nobody is
  starved.  None for loading, losing, crashing and restarting.

`ClientNeverStalls`, `MessagesGetOut` and `SubscriptionRestored` except threads that
could not be created: the code forgets the semaphore's unit with them.

## 5. Proofs

TLAPS proves these for any values of the constants that satisfy the assumption of
the module (`ClientAssumption`, `LoaderAssumption`, `ServerAssumption`,
`BlockAssumption`, `HeapAssumption`, `NetAssumption`, `LineAssumption`,
`InputAssumption`): any number of servers, clients, messages, files and restarts,
any deadlines, any file, pieces of any length.  The assumptions say that the model values differ, the
counters and deadlines are naturals, the client's deadlines are in the order they
have in the code, a block has room for more than the two bytes its head takes
too much, a piece has at least two symbols, and an answer has a second to come (SERVER_RESPONSE_TIMEOUT is 3 in the
code; with 0 a request would be over at once, and TLC finds `StaysSubscribed`'s
invariant violated).

`ClientUpdaterProofs`

| theorem | property | rests on |
|---|---|---|
| TypeCorrect | TypeOK | `TypeInv`: also where the request threads, the receiver and the mutexes are |
| EachServerInOnePlace | OnePlace | `PlaceInv` |
| SemaphoreBalanced | SlotsAccounted | `AccountInv`, with cardinalities of `Active` and `lost` |
| SleepersMatchQueues | SleepMatchesQueue | a queue grows under a sleeper only by a push that wakes it |
| UpdaterImplementsPool | PoolSpec | step simulation from the three invariants above |
| NoAnswerMissed, ParsingExcludesReceiving | NoMissedAnswer, ParseExclusive | `MutexInv`: who holds `server_data.mutex` at which line, except for `opened` |
| RefreshedServersAccepted | SubscribedHealthy | `HealthInv`: what state and misses may be between parsing and the push |

`SubscribedHealthy` is not inductive: between the answer and the push the server
is in no queue, and what the receiver may do in that gap is the invariant's content.

`MessageLoaderProofs`

| theorem | property | rests on |
|---|---|---|
| TypeCorrect | TypeOK | `TypeInv`: what each thread has in hand where it is |
| KeysNeverRepeat | KeysUnique | `KeyInv`: sent_map, transmitter's hand, queue and loader's hand, in this order, bear rising keys up to the last one given, and that is not after the clock |
| NoFileLost, OnlySentArchived | NothingLost, ArchivedWasSent | `DiskInv`: everything bears the name it was dropped under, and what the transmitter has in hand was sent, whole or cut (`NamesKept`), and each step of a move or a load relies on the one before (`StepsInOrder`) |
| AnnouncedNotForgotten | AnnouncedKept | `AnnouncedInv`: an announced file that was not sent is still in its directory; that the handler does the same whatever thread it stops is `SignalDoes` |

`KeysUnique` alone is not inductive: a key could be given again if a message with
it had left the loader.  `NothingLost` alone is not: the source is removed by a
step that no longer knows of its copy.  The invariants were checked by TLC before
they were proved.

`ServerTransmitterProofs`

| theorem | property | rests on |
|---|---|---|
| TypeCorrect, ListSafe | TypeOK, IterationSafe | `TypeInv` with `ListInv`: tmp is the neighbour of node wherever HASH_ITER is at a node, and only appends happen meanwhile |
| SignalsArrive | NoLostSignal | `AwakeInv` |
| SlotsNeverLeak | SlotsBalanced | `OrderInv`: only the message at the head has senders, none of them for the node at hand or one behind it (`Ahead`); so no sender is started twice |
| CountIsExact, RoundsDoNotOverlap, NobodyIsSkipped, AddressesLive | BarrierExact, RoundComplete, AudienceServed, ClientsAlive | `RoundInv`: while `~ surplus`, the semaphore is what is outstanding for the head, and every counted client is to come, in hand, or has its sender (`Counted`) |

The four properties of the last row need each other.  The count is exact only if
every sender that takes a unit is one of the head's, which holds because earlier
rounds ended with a count that was exact; that a node is freed only before its
sender exists comes from `OrderInv`.  The one fact about a loop that counts
(`HASH_COUNT` equals the number of addresses) is `ListCount`, by a bijection.
`OrderInv` and `RoundInv` were checked by TLC at the bounds of `server` before they
were proved.

`BroadcastProofs`

| theorem | property | rests on |
|---|---|---|
| ImplementsBroadcast | BroadcastSpec | `OrderInv`, `RoundInv` and `AudienceInv` |

The initial states map to initial states, and each step to a step of `Broadcast`
or a stutter.  `AudienceInv` says that whoever has a sender for the head, or is
still due, is of the audience.  The set of what was sent is computed from the
places of the senders; `WentOutIs` and `WentOutIsNext` turn it into pairs of message
and client before and after a step.  That `Close` finds its whole audience served
is `RoundInv` at a semaphore that is zero.

`DataBlocksProofs`

| theorem | property | rests on |
|---|---|---|
| BlocksTypeCorrect | BlocksTypeOK | the type of each piece that is cut out of a sequence |
| BlocksAreTheFileAlways | BlocksAreTheFile | `CutInv`: the blocks made so far are those of the part read, which ends at a multiple of the block's length or at the end of the file |
| OnlyTailsLostAlways | OnlyTailsLost | `WireInv`: what is on the wire is of this message, with its id and time; `RoomIs`: how much fits behind that head |

`CutInv` needs the arithmetic of `StretchIs` (to which block a byte belongs), and that
`strcpy` stops at the least Nul, which exists by well-foundedness.  The theorems are
about `BlocksSpec`, where a file is any sequence of bytes; the run checks the same
actions within `Files`.

`ArrayHeapProofs`

| theorem | property | rests on |
|---|---|---|
| TypeCorrect | TypeOK | `SwapKeeps`, `PoppedKeeps`, `AppendKeeps`: who is in the array, and that nobody is twice |
| HeapImplementsQueue | ImplementsQueue | `SeenInv`: what the array holds while an operation is under way; heap_push's element is at the slot it has risen to |
| FrontIsSoonest | FirstIsSoonest | `OrderInv`: while an operation is at a slot, nothing else is greater than its parent, and that slot's children are in order with its parent (`SinkInv`, `RiseInv`) |

`FirstIsSoonest` speaks of the root only and is far from inductive; `OrderInv` was
checked by TLC at the bounds of `heap` before it was proved.  `LargestIs` is where
totality and transitivity of `connect_sooner` enter, `RootIsFirst` where order
between neighbours becomes order with the root, by the least slot that breaks it.

`FilesProofs`

| theorem | property | rests on |
|---|---|---|
| LinesCorrect | LinesWhole, TooLongIsFatal, of `LinesSpec`, which may open any file next | `LinesInv` |
| LinesWholeAlways, TooLongIsFatalAlways, FilesTypeCorrect | LinesWhole, TooLongIsFatal, TypeOK | `LinesInv`, within `FilesInv` |
| ServersOnceAlways | ServersOnce | `ListIs`, which `ListStep` shows of one turn of the loop |
| ConfigAsWrittenAlways | ConfigAsWritten | `ParseInv`, within `FilesInv` |
| ServerBlocksCorrect | BlocksAreTheFile, OnlyTailsLost, from the start of `main` | the step lemmas of `DataBlocksProofs` |

`LinesWhole` is about closed files only.  `LinesInv` says where a file that is open
has been read up to: `Got` symbols in whole pieces, `At` of them taken out of the
buffer (`ReaderInv`).  The lines got are those that end before `First`, the place the
outermost call began at (`LinesGot`, with `Within`); each call that waits holds what
stands between its beginning and the end of a piece, without a newline (`CallsInv`);
and what a call returns is one of three: a whole line (`LineIs`), the rest of the file
without a newline (`RestIs`), or that without its last symbol (`LostIs`), which needs
a file that ends as `LastLost` says.  `Join` takes each of the three to one of them
(`JoinLine`, `JoinRest`, `JoinLost`), and that it may go too far by one symbol before
the program ends is why `TooLongIsFatal` has two bounds.  `LinesGot` is kept because
a stretch that comes last is appended by `Cut` (`CutAppend`, by the rank of a stretch:
how many begin before it).  TLC checked `LinesInv` on the files of the run, and on all
files of two symbols up to a length of eleven, before it was proved.

`ConfigAsWritten` speaks of whole lines and is not inductive.  `ParseInv` says what
holds behind any number of the words: the config has the last setting of each name
among those that have ended (`AllSettled`), every string is closed but the one that is
being read, and the stage says what the next word is to be (`StageIs`): behind `value`
stands the name of a line; in `string` the text since an opening quote is in `value`;
in `set` the last setting that ended is in hand, so that setting it again, which the
code does for each word left of the line, changes nothing (`SetAgain`).  Each of the
three actions has its lemma (`LineStep`, `TokenStep`, `EndLineStep`).  `EndsBefore` is
what they need of the file: a setting ends before the next line begins, so settings end
in the order of their lines.  Behind the last word of a line `AllSettled` is
`AsWritten` (`SettledSays`).  TLC checked `ParseInv` on the files of the run before it
was proved.

`StreamNetProofs`

| theorem | property | rests on |
|---|---|---|
| ImplementsUpdater | every step of the composition is a step of `ClientUpdater` or leaves its variables alone | `ClientSees` |
| ImplementsTransmitter | the same for `ServerTransmitter`, or the server is started again | `ServerSees` |
| TypeCorrect | TypeOK | the two above |
| CrashOnlyAfterSurplus | a server ends by itself only after `surplus`, over all its starts | `ServerInv` |
| SubscriptionStays | StaysSubscribed | `NetInv` |
| SubscriberIsServed | SubscriberServed | `NetInv` |

The invariants of the two programs are not proved again: `StreamNetProofs` takes
`ClientUpdaterProofs` and `ServerTransmitterProofs` by INSTANCE and uses their lemmas
that a step preserves them; a restart establishes the server's anew.  `NetInv` is
what the two have in common.  As long as no fault touched the last request, that
request is in one of four phases: `Asked` (on the wire, or not yet), `Told` (the server
has it; the answer is on the wire or being stored), `Taking` (the request thread
parses it), `Kept` (the server is in `subscribed_queue`).  In each phase `NetInv`
says where the other program is, and that the age the server sees is not above the
one the client sees, because no time passes within a request that nothing disturbs.
`NetInv` was checked by TLC with two
faults before it was proved.

Every type invariant, safety invariant and refinement a passing run checks is a
theorem.  Only model-checked is all liveness (`RequestReturns`,
`ClientNeverStalls`, `MessagesGetOut`, `AnnouncedGetOut`, `SubscriptionRestored`): it
needs fairness and ENABLED, which is beyond this prover.

## 6. What disagrees with the code's own words

Each is a run whose one property states a comment of the code and is violated.

- `client_backoff`: a server in WAIT is tried again before its back-off is over,
  when the timed wait ends for one server and line 200 of the updater pops another.
- `server_barrier`: a client that subscribes between HASH_COUNT and HASH_ITER gets a
  sender the barrier does not count; the message is retired before all senders are
  through, and one may read the next message, or a null pointer (`SenderCrash`).
- `loader_move`: the source of a move is removed although its copy failed.
- `block_numbers`: every block of a message is sent with the number 1; line 215 of
  the transmitter sets `block_number` and nothing counts it up.

Losses the passing runs allow, as the code has them, and describe exactly: a last
symbol without a newline that comes alone in the last piece of a file
(`LastLost`); what follows a zero byte in a block (`TextOf`); up to two bytes at
the end of a full block, because MTN_DM_BLOCK_HEAD_LEN counts two of the four
spaces and newlines of the head (`TooLong`); the end of a message whose file could not
be read to its end, which is sent and archived as if it were whole (`cut`); and
whatever waits when a SIGHUP met a thread inside `new_message_mutex` or inside a log
call (`kept`): that file and later ones stay where they are until the server is started
again.
An answer that is stored when `pthread_cond_timedwait` has already timed out, or that
comes later, is not looked at (line 53 of `mtn-client-request.c`), in code and model; no
comment claims that it is, and the server is asked again.

## 7. What is not modelled

- Contents: names and descriptions in an ACCEPT.
- `mtn-client-data-message.c`: unfinished at this commit, it does not compile and
  ends in a TODO.  `DataBlocks` ends where it would begin.
- The comparison of keywords in `mtn-protocol.c`: a datagram is of its kind.
- How digits and addresses are read (`atoi`, `inet_pton`); that `port_str[5]` is one
  byte short for a port of five digits.
- Sizes given to `malloc`, `realloc` for a config value: they are those of a pointer,
  and what a longer value overwrites is beyond the model.  The `memset` of the same
  kind in the client's server list is modelled: it leaves fields unset.
- A `read` that fails in `get_file_line`; it is not told from the length it returns.
- Options (`getopt`; `--server-list` is mapped to the letter of `--config-file` in
  `mtn-client.c`), sockets, the PID file, `str_replace`, `strcopy`.
- What is printed.  Of the log calls `MessageLoader` has those of loader, transmitter,
  senders and request_control_thread that take `print_mutex` with the default
  `debug 0` (`mtn-config.c:22`): `info`, `warning` and the errors.  `debug` prints nothing then.  The other
  modules leave the mutex out: nothing waits while it is held.  The message of a file
  whose read fails is made in one step, before the error is reported; in the code its
  time is read after that.
- A datagram of no bytes: `recvfrom` returns 0 for it, which ends `receive_thread` and
  `request_control_thread`.  Neither program sends one.
- A `read` that returns less than it was asked for before the end of the file:
  `DataBlocks` has short reads at the end only, as for regular files.
- Between line 189 and 207 of the updater `server->state` is read and written without
  `server->mutex`; the test and the write of SEND_REQ are one step, as is what the
  thread does between two waits.
- A `last_connect_attempt_time` in the future: `malloc` may leave one, but the ages of
  `Init` are 0 to NEXT_CONNECT_ATTEMPT_TIME.  Such a server waits for that time.
- The comparison of an `int` with an unsigned length in `heapify` has no effect the
  model could miss: an index is never negative, and for an empty array, where the first
  test lets it pass, there is no child to look at.
- `set 60` in the example of a server config is a name the code does not know;
  unknown names are only reported, in code and model.
- `receive_response` for a sender that is not in the list dereferences a null
  pointer: the models take answers from asked servers only, what follows is the end
  of the client.
- Freed memory: a refresh of a freed client is modelled as a write that reaches no
  node of the map; that it may corrupt the heap is beyond the model.  So is memory
  that is never freed (line 117 of the transmitter frees the wrong variable).
- Races inside a uthash macro: each macro is one step.
- Files that are still being written when they are read: a file appears whole.
- More than one client and one server over the wire of `StreamNet`; messages there
  are what the transmitter sends, not the datagrams of `DataBlocks`.
- The vendored uthash and utlist, and the test program of the heap, which asserts
  nothing.

## 8. Plan

Done: the updater, the transmitter, the loader and the heap, each with the proofs
of all its safety properties; the abstract broadcast and the proof that the server
implements it; files, configuration and server list with the proofs that lines come
out whole, the config as it is written and servers once; the blocks of a message with
the proofs of what is cut and what arrives; the composition of client and server
over a network with faults, with the proofs of its safety properties.

What could follow: two clients in `StreamNet`; the client's data messages once they are written, which would let `DataBlocks` state that
a message is put together again.
