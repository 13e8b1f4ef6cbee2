--------------------------- MODULE MessageLoader ---------------------------
(***************************************************************************)
(* How a file becomes a data message of mtn-server and goes to the archive. *)
(* A user drops a file into new_messages and sends SIGHUP; the handler sets *)
(* new_message_available; load_data_message_thread scans the directory and  *)
(* queues what it reads; transmission_thread sends the head of the queue,   *)
(* then moves the file to sent_messages by a copy and an unlink.            *)
(*                                                                         *)
(*   Signal...      new_message_signal       mtn-server-data-message.c     *)
(*   Loader...      load_data_message_thread mtn-server-data-message.c     *)
(*   Transmitter... transmission_thread      mtn-server-transmitter.c      *)
(*                                                                         *)
(* A round of sending is one step here (ServerTransmitter has its detail).  *)
(* A text stands for what a file holds: a user's file appears whole (written *)
(* elsewhere and renamed), a copy that failed half-way counts as Empty.     *)
(* A thread at "log", "report", "summary", "tell" or "complain" is in a call *)
(* of info, warning or error_errno, which takes print_mutex (mtn-common.c).  *)
(***************************************************************************)
EXTENDS Integers, Sequences, FiniteSets

CONSTANTS
  Names,         \* file names
  Texts,         \* what the user's files hold, each dropped at most once
  Empty,         \* what a file of no bytes holds
  Absent,        \* there is no such file
  NoName,
  NoMessage,     \* the null pointer
  Budgets        \* bounds: how many files, SIGHUPs, restarts of the server and
                 \* changes of the clock there may be, one choice for each behaviour

\* whole: no read failed before the end of the file.
Messages == [name : Names, text : Texts, time : Nat, id : Nat, whole : BOOLEAN]

Threads == {"loader", "transmitter"}

ASSUME LoaderAssumption ==
  /\ Empty \notin Texts /\ Absent \notin Texts \cup {Empty}
  /\ NoName \notin Names /\ NoMessage \notin Messages
  /\ Budgets \subseteq [drops : Nat, signals : Nat, restarts : Nat, changes : Nat]

VARIABLES
  new_messages,       \* the files of USER_NEW_MESSAGE_DIR
  sent_messages,      \* those of USER_SENT_MESSAGE_DIR: file, file-1, file-2 ...
  available,          \* new_message_available
  loader,             \* load_data_message_thread: pc, file and message in hand
  todo,               \* files its open directory stream is still to return
  maybe,              \* files it may return or not: they came or went since opendir
  last_release_time,
  last_id,
  queue,              \* to_send_queue
  transmitter,        \* transmission_thread: pc, message in hand
  sent_map,           \* keys of the messages in sent_map
  now,                \* time(NULL)
  left,               \* what is left of the budget
  kept,               \* mutexes that will never be released
  halted,             \* threads that will never leave the signal handler
  dropped,            \* history: the name each text was dropped under
  announced,          \* history: texts a SIGHUP handled by this process found
  transmitted,        \* history: texts a whole round sent
  cut,                \* history: texts of which a whole round sent only the beginning
  failed,             \* history: what has failed, a "copy" of a file or a "read"
  stepped             \* history: the clock was set back

disk == <<new_messages, sent_messages>>
loading == <<available, loader, todo, maybe>>
identity == <<last_release_time, last_id>>
sending == <<queue, transmitter, sent_map>>
outside == <<now, left, kept, halted>>
history == <<dropped, announced, transmitted, cut, failed, stepped>>
vars == <<disk, loading, identity, sending, outside, history>>

-----------------------------------------------------------------------------
(* Helpers.                                                                *)

Message(name, text, time, id, whole) ==
  [name |-> name, text |-> text, time |-> time, id |-> id, whole |-> whole]

Key(m) == <<m.time, m.id>>

Spend(kind) ==
  /\ left[kind] > 0
  /\ left' = [left EXCEPT ![kind] = @ - 1]

Scanning ==
  loader.pc \in {"readdir", "access", "creat", "open", "report", "append", "log"}

Present == {n \in Names : new_messages[n] # Absent}

\* An entry that comes while a stream is open may be returned by it.
Appear(n) == maybe' = IF Scanning THEN maybe \cup {n} ELSE maybe

\* An entry that goes may still be returned: the stream is buffered.
Disappear(n) ==
  /\ todo' = todo \ {n}
  /\ maybe' = IF n \in todo THEN maybe \cup {n} ELSE maybe

\* Lines 172 to 175 left out.
NextIdAlways == 0

\* The first id of a second is 0.
NextId == IF now = last_release_time THEN last_id + 1 ELSE 0

LoaderGoto(pc) ==
  loader' = [pc |-> pc, name |-> loader.name, message |-> loader.message]

TransmitterGoto(pc) == transmitter' = [pc |-> pc, message |-> transmitter.message]

\* The loop over file-1, file-2 ... left out: the old file is truncated.
FileOver(n, text) == sent_messages' = [sent_messages EXCEPT ![n] = <<text>>]

\* The first of file, file-1, file-2 ... that does not exist.
FileNext(n, text) == sent_messages' = [sent_messages EXCEPT ![n] = Append(@, text)]

-----------------------------------------------------------------------------
(* The user and the clock.                                                 *)

Drop(n, text) ==
  /\ Spend("drops")
  /\ dropped[text] = NoName
  /\ new_messages[n] = Absent
  /\ new_messages' = [new_messages EXCEPT ![n] = text]
  /\ dropped' = [dropped EXCEPT ![text] = n]
  /\ Appear(n)
  /\ UNCHANGED <<sent_messages, available, loader, todo, identity, sending, now, kept,
                 halted, announced, transmitted, cut, failed, stepped>>

Tick ==
  /\ Spend("changes")
  /\ now' = now + 1
  /\ UNCHANGED <<disk, loading, identity, sending, kept, halted, history>>

\* current_time() is the wall clock.
StepBack ==
  /\ Spend("changes")
  /\ now' \in 1 .. now - 1
  /\ stepped' = TRUE
  /\ UNCHANGED <<disk, loading, identity, sending, kept, halted, dropped, announced,
                 transmitted, cut, failed>>

-----------------------------------------------------------------------------
(* new_message_signal, in whatever thread SIGHUP interrupts.  Its last line  *)
(* is a log call.                                                          *)

\* Where the interrupted thread may be in a log call: of the loader, of the
\* transmitter or one of its senders, or of request_control_thread.
Logging(thread) ==
  \/ thread = "loader" /\ loader.pc \in {"log", "report", "summary"}
  \/ thread = "transmitter" /\ transmitter.pc \in {"sending", "tell", "complain"}
  \/ thread = "receiver"

\* Line 66 left out.
HeardFlagOnly ==
  /\ available' = TRUE
  /\ announced' = announced \cup {text \in Texts : \E n \in Names : new_messages[n] = text}
  /\ UNCHANGED loader

\* The section under new_message_mutex.
Heard ==
  /\ available' = TRUE
  /\ announced' = announced \cup {text \in Texts : \E n \in Names : new_messages[n] = text}
  /\ IF loader.pc = "asleep" THEN LoaderGoto("lock") ELSE UNCHANGED loader

\* A thread that finds new_message_mutex or print_mutex taken waits until it is
\* free; the interrupted thread holds neither.
Signal ==
  /\ Spend("signals")
  /\ kept = {}
  /\ loader.pc # "locked"
  /\ Heard
  /\ UNCHANGED <<disk, todo, maybe, identity, sending, now, kept, halted, dropped,
                 transmitted, cut, failed, stepped>>

\* The handler runs in the loader, which holds the mutex: it never returns.
SignalInLoader ==
  /\ Spend("signals")
  /\ loader.pc = "locked" /\ "loader" \notin halted
  /\ kept' = kept \cup {"new_message"}
  /\ halted' = halted \cup {"loader"}
  /\ UNCHANGED <<disk, loading, identity, sending, now, history>>

\* The handler runs within a log call: it raises the flag, but never returns
\* from its own log call.
SignalInLog(thread) ==
  /\ Spend("signals")
  /\ kept = {}
  /\ loader.pc # "locked"
  /\ Logging(thread)
  /\ Heard
  /\ kept' = {"print"}
  /\ halted' = halted \cup ({thread} \cap Threads)
  /\ UNCHANGED <<disk, todo, maybe, identity, sending, now, dropped, transmitted, cut,
                 failed, stepped>>

\* Where a thread takes to_send_queue_mutex.
TakesQueue(thread) ==
  \/ thread = "loader" /\ loader.pc = "append"
  \/ thread = "transmitter" /\ transmitter.pc = "idle"

\* From then on each SIGHUP stops one more thread, with what it holds.
SignalToo(thread) ==
  /\ Spend("signals")
  /\ kept # {} /\ thread \notin halted
  /\ \/ /\ "new_message" \in kept
        /\ UNCHANGED <<available, loader, announced>>
     \/ /\ "new_message" \notin kept /\ loader.pc # "locked"
        /\ Heard
  /\ \/ UNCHANGED kept
     \/ /\ TakesQueue(thread)
        /\ kept' = kept \cup {"queue"}
  /\ halted' = halted \cup ({thread} \cap Threads)
  /\ UNCHANGED <<disk, todo, maybe, identity, sending, now, dropped, transmitted, cut,
                 failed, stepped>>

-----------------------------------------------------------------------------
(* load_data_message_thread.                                               *)

LoaderLock ==
  /\ loader.pc = "lock"
  /\ LoaderGoto("locked")
  /\ UNCHANGED <<disk, available, todo, maybe, identity, sending, outside, history>>

LoaderSleep ==
  /\ loader.pc = "locked"
  /\ ~ available
  /\ LoaderGoto("asleep")
  /\ UNCHANGED <<disk, available, todo, maybe, identity, sending, outside, history>>

LoaderTake ==
  /\ loader.pc = "locked"
  /\ available
  /\ available' = FALSE
  /\ LoaderGoto("opendir")
  /\ UNCHANGED <<disk, todo, maybe, identity, sending, outside, history>>

LoaderOpenDir ==
  /\ loader.pc = "opendir"
  /\ LoaderGoto("readdir")
  /\ todo' = Present
  /\ UNCHANGED <<disk, available, maybe, identity, sending, outside, history>>

LoaderReadDir(n) ==
  /\ loader.pc = "readdir"
  /\ n \in todo \cup maybe
  /\ loader' = [pc |-> "access", name |-> n, message |-> NoMessage]
  /\ todo' = todo \ {n}
  /\ maybe' = maybe \ {n}
  /\ UNCHANGED <<disk, available, identity, sending, outside, history>>

\* load_file makes the file if it has gone, in two steps.
LoaderAccess ==
  /\ loader.pc = "access"
  /\ LoaderGoto(IF loader.name \in Present THEN "open" ELSE "creat")
  /\ UNCHANGED <<disk, available, todo, maybe, identity, sending, outside, history>>

\* creat truncates a file that came since.
LoaderCreat ==
  /\ loader.pc = "creat"
  /\ new_messages' = [new_messages EXCEPT ![loader.name] = Empty]
  /\ Appear(loader.name)
  /\ LoaderGoto("open")
  /\ UNCHANGED <<sent_messages, available, todo, identity, sending, outside, history>>

\* A file that has gone again, and one of no bytes, are passed over.
LoaderSkip ==
  /\ loader.pc = "open"
  /\ new_messages[loader.name] \in {Absent, Empty}
  /\ loader' = [pc |-> "log", name |-> NoName, message |-> NoMessage]
  /\ UNCHANGED <<disk, available, todo, maybe, identity, sending, outside, history>>

\* Lines 157 to 161 left out.
LoaderReadEmpty ==
  LET text == new_messages[loader.name]
  IN  /\ loader.pc = "open"
      /\ text # Absent
      /\ loader' = [pc |-> "append", name |-> loader.name,
                    message |-> Message(loader.name, text, now, NextId, TRUE)]
      /\ last_release_time' = now
      /\ last_id' = NextId
      /\ UNCHANGED <<disk, available, todo, maybe, sending, outside, history>>

LoaderRead ==
  LET text == new_messages[loader.name]
  IN  /\ loader.pc = "open"
      /\ text \in Texts
      /\ loader' = [pc |-> "append", name |-> loader.name,
                    message |-> Message(loader.name, text, now, NextId, TRUE)]
      /\ last_release_time' = now
      /\ last_id' = NextId
      /\ UNCHANGED <<disk, available, todo, maybe, sending, outside, history>>

\* A read fails behind a block: what was read is a message.
LoaderReadFails ==
  LET text == new_messages[loader.name]
  IN  /\ loader.pc = "open"
      /\ text \in Texts
      /\ loader' = [pc |-> "report", name |-> loader.name,
                    message |-> Message(loader.name, text, now, NextId, FALSE)]
      /\ last_release_time' = now
      /\ last_id' = NextId
      /\ UNCHANGED <<disk, available, todo, maybe, sending, outside, history>>

\* to_send_queue_mutex is free.
QueueFree == transmitter.pc # "sending" /\ "queue" \notin kept

LoaderAppend ==
  /\ loader.pc = "append"
  /\ QueueFree
  /\ queue' = Append(queue, loader.message)
  /\ loader' = [pc |-> "log", name |-> NoName, message |-> NoMessage]
  /\ UNCHANGED <<disk, available, todo, maybe, identity, transmitter, sent_map, outside,
                 history>>

LoaderLog ==
  /\ "print" \notin kept
  /\ \/ loader.pc = "log" /\ LoaderGoto("readdir")
     \/ loader.pc = "report" /\ LoaderGoto("append")
     \/ loader.pc = "summary" /\ LoaderGoto("lock")
  /\ UNCHANGED <<disk, available, todo, maybe, identity, sending, outside, history>>

\* The flag taken down after the scan, not before it.
LoaderCloseDirAndClear ==
  /\ loader.pc = "readdir"
  /\ todo = {}
  /\ maybe' = {}
  /\ available' = FALSE
  /\ LoaderGoto("summary")
  /\ UNCHANGED <<disk, todo, identity, sending, outside, history>>

LoaderCloseDir ==
  /\ loader.pc = "readdir"
  /\ todo = {}
  /\ maybe' = {}
  /\ LoaderGoto("summary")
  /\ UNCHANGED <<disk, available, todo, identity, sending, outside, history>>

\* opendir or readdir fails, or the open of one file or its first read does: the
\* scan, or the file, is given up.
LoaderError ==
  /\ loader.pc \in {"opendir", "readdir", "open"}
  /\ failed' = failed \cup {"read"}
  /\ IF loader.pc = "open"
       THEN /\ loader' = [pc |-> "log", name |-> NoName, message |-> NoMessage]
            /\ UNCHANGED <<todo, maybe>>
       ELSE /\ LoaderGoto("summary")
            /\ todo' = {}
            /\ maybe' = {}
  /\ UNCHANGED <<disk, available, identity, sending, outside, dropped, announced,
                 transmitted, cut, stepped>>

-----------------------------------------------------------------------------
(* transmission_thread.  "sending" holds to_send_queue_mutex.              *)

TransmitterTake ==
  /\ transmitter.pc = "idle"
  /\ "queue" \notin kept
  /\ queue # <<>>
  /\ TransmitterGoto("sending")
  /\ UNCHANGED <<disk, loading, identity, queue, sent_map, outside, history>>

\* The senders read the end of the queue, not its head.
TransmitterRetireLast ==
  /\ transmitter.pc = "sending"
  /\ transmitter' = [pc |-> "dest", message |-> Head(queue)]
  /\ queue' = Tail(queue)
  /\ transmitted' = transmitted \cup {queue[Len(queue)].text}
  /\ UNCHANGED <<disk, loading, identity, sent_map, outside, dropped, announced, cut,
                 failed, stepped>>

TransmitterRetire ==
  /\ transmitter.pc = "sending"
  /\ transmitter' = [pc |-> "dest", message |-> Head(queue)]
  /\ queue' = Tail(queue)
  /\ \/ /\ Head(queue).whole
        /\ transmitted' = transmitted \cup {Head(queue).text}
        /\ UNCHANGED cut
     \/ /\ ~ Head(queue).whole
        /\ cut' = cut \cup {Head(queue).text}
        /\ UNCHANGED transmitted
  /\ UNCHANGED <<disk, loading, identity, sent_map, outside, dropped, announced, failed,
                 stepped>>

\* A sender that has an error to report waits for print_mutex, and the round for it.
TransmitterHalts ==
  /\ transmitter.pc = "sending"
  /\ "print" \in kept
  /\ halted' = halted \cup {"transmitter"}
  /\ UNCHANGED <<disk, loading, identity, sending, now, left, kept, history>>

\* The destination is made by creat, or cannot be.
TransmitterDest ==
  /\ transmitter.pc = "dest"
  /\ \/ /\ FileNext(transmitter.message.name, Empty)
        /\ TransmitterGoto("copy")
        /\ UNCHANGED failed
     \/ /\ TransmitterGoto("tell")
        /\ failed' = failed \cup {"copy"}
        /\ UNCHANGED sent_messages
  /\ UNCHANGED <<new_messages, loading, identity, queue, sent_map, outside, dropped,
                 announced, transmitted, cut, stepped>>

\* The source is copied, or is not there, or cannot be read or written.
TransmitterCopy ==
  LET n == transmitter.message.name
  IN  /\ transmitter.pc = "copy"
      /\ TransmitterGoto("tell")
      /\ \/ /\ n \in Present
            /\ sent_messages' =
                 [sent_messages EXCEPT ![n][Len(sent_messages[n])] = new_messages[n]]
            /\ UNCHANGED failed
         \/ /\ n \notin Present
            /\ UNCHANGED <<sent_messages, failed>>
         \/ /\ failed' = failed \cup {"copy"}
            /\ UNCHANGED sent_messages
      /\ UNCHANGED <<new_messages, loading, identity, queue, sent_map, outside, dropped,
                     announced, transmitted, cut, stepped>>

TransmitterLog ==
  /\ "print" \notin kept
  /\ \/ transmitter.pc = "tell" /\ TransmitterGoto("remove")
     \/ transmitter.pc = "complain" /\ TransmitterGoto("file")
  /\ UNCHANGED <<disk, loading, identity, queue, sent_map, outside, history>>

\* Whatever became of the copy, the source is removed, or cannot be.
TransmitterRemove ==
  LET n == transmitter.message.name
  IN  /\ transmitter.pc = "remove"
      /\ \/ /\ n \in Present
            /\ new_messages' = [new_messages EXCEPT ![n] = Absent]
            /\ Disappear(n)
            /\ TransmitterGoto("file")
         \/ /\ TransmitterGoto("complain")
            /\ UNCHANGED <<new_messages, todo, maybe>>
      /\ UNCHANGED <<sent_messages, available, loader, identity, queue, sent_map, outside,
                     history>>

TransmitterFile ==
  /\ transmitter.pc = "file"
  /\ transmitter' = [pc |-> "idle", message |-> NoMessage]
  /\ sent_map' = sent_map \cup {Key(transmitter.message)}
  /\ UNCHANGED <<disk, loading, identity, queue, outside, history>>

-----------------------------------------------------------------------------
LoaderStart == [pc |-> "lock", name |-> NoName, message |-> NoMessage]

TransmitterStart == [pc |-> "idle", message |-> NoMessage]

Init ==
  /\ available = FALSE /\ loader = LoaderStart /\ todo = {} /\ maybe = {}
  /\ last_release_time = 0 /\ last_id = 0
  /\ queue = <<>> /\ transmitter = TransmitterStart /\ sent_map = {}
  /\ new_messages = [n \in Names |-> Absent]
  /\ sent_messages = [n \in Names |-> <<>>]
  /\ now = 1 /\ left \in Budgets
  /\ kept = {} /\ halted = {}
  /\ dropped = [text \in Texts |-> NoName]
  /\ announced = {} /\ transmitted = {} /\ cut = {}
  /\ failed = {} /\ stepped = FALSE

\* The server ends, whatever it is doing, and is started again: of its state
\* only the two directories stay.
Restart ==
  /\ Spend("restarts")
  /\ available' = FALSE /\ loader' = LoaderStart /\ todo' = {} /\ maybe' = {}
  /\ last_release_time' = 0 /\ last_id' = 0
  /\ queue' = <<>> /\ transmitter' = TransmitterStart /\ sent_map' = {}
  /\ kept' = {} /\ halted' = {} /\ announced' = {}
  /\ UNCHANGED <<disk, now, dropped, transmitted, cut, failed, stepped>>

LoaderThread ==
  /\ "loader" \notin halted
  /\ \/ LoaderLock
     \/ LoaderSleep
     \/ LoaderTake
     \/ LoaderOpenDir
     \/ \E n \in Names : LoaderReadDir(n)
     \/ LoaderAccess
     \/ LoaderCreat
     \/ LoaderSkip
     \/ LoaderRead
     \/ LoaderReadFails
     \/ LoaderAppend
     \/ LoaderLog
     \/ LoaderCloseDir
     \/ LoaderError

TransmissionThread ==
  /\ "transmitter" \notin halted
  /\ \/ TransmitterTake
     \/ TransmitterRetire
     \/ TransmitterHalts
     \/ TransmitterDest
     \/ TransmitterCopy
     \/ TransmitterLog
     \/ TransmitterRemove
     \/ TransmitterFile

Next ==
  \/ \E n \in Names, text \in Texts : Drop(n, text)
  \/ Tick
  \/ StepBack
  \/ Signal
  \/ SignalInLoader
  \/ \E thread \in Threads \cup {"receiver"} : SignalInLog(thread)
  \/ \E thread \in Threads \cup {"receiver"} : SignalToo(thread)
  \/ LoaderThread
  \/ TransmissionThread
  \/ Restart

Spec == Init /\ [][Next]_vars

FairSpec == Spec /\ WF_vars(LoaderThread) /\ WF_vars(TransmissionThread)

-----------------------------------------------------------------------------
(* Properties.                                                             *)

\* Type invariant.
TypeOK ==
  /\ new_messages \in [Names -> Texts \cup {Empty, Absent}]
  /\ sent_messages \in [Names -> Seq(Texts \cup {Empty})]
  /\ available \in BOOLEAN
  /\ loader \in [pc : {"lock", "locked", "asleep", "opendir", "readdir", "access", "creat",
                       "open", "report", "append", "log", "summary"},
                 name : Names \cup {NoName}, message : Messages \cup {NoMessage}]
  /\ todo \subseteq Names /\ maybe \subseteq Names
  /\ last_release_time \in Nat /\ last_id \in Nat
  /\ queue \in Seq(Messages)
  /\ transmitter \in [pc : {"idle", "sending", "dest", "copy", "tell", "remove", "complain",
                            "file"},
                      message : Messages \cup {NoMessage}]
  /\ sent_map \subseteq Nat \X Nat
  /\ now \in Nat \ {0}
  /\ left \in [drops : Nat, signals : Nat, restarts : Nat, changes : Nat]
  /\ kept \subseteq {"new_message", "print", "queue"} /\ halted \subseteq Threads
  /\ dropped \in [Texts -> Names \cup {NoName}]
  /\ announced \subseteq Texts /\ transmitted \subseteq Texts /\ cut \subseteq Texts
  /\ failed \subseteq {"copy", "read"} /\ stepped \in BOOLEAN

\* A name served for two texts.
Reused ==
  \E text, other \in Texts :
    text # other /\ dropped[text] = dropped[other] /\ dropped[text] # NoName

InHand(thread) == thread.message # NoMessage

\* Comment at mtn-server-data-message.h:29, "unique id for the release_time":
\* while the clock is not set back, no two messages of one run of the server
\* share release time and id, be they in the loader's hand, in the queue, in the
\* transmitter's hand or in sent_map.
KeysUnique ==
  ~ stepped =>
    /\ \A i, j \in 1 .. Len(queue) : Key(queue[i]) = Key(queue[j]) => i = j
    /\ \A i \in 1 .. Len(queue) : Key(queue[i]) \notin sent_map
    /\ InHand(loader) =>
         /\ \A i \in 1 .. Len(queue) : Key(queue[i]) # Key(loader.message)
         /\ Key(loader.message) \notin sent_map
    /\ InHand(transmitter) =>
         /\ \A i \in 1 .. Len(queue) : Key(queue[i]) # Key(transmitter.message)
         /\ Key(transmitter.message) \notin sent_map
    /\ InHand(loader) /\ InHand(transmitter) =>
         Key(loader.message) # Key(transmitter.message)

Archived(text) ==
  \E n \in Names : \E i \in 1 .. Len(sent_messages[n]) : sent_messages[n][i] = text

Waiting(text) == \E n \in Names : new_messages[n] = text

\* If no name is used twice and no copy fails, every text a user dropped is
\* whole in one of the two directories at any time, whenever the server ends
\* and however often a file is loaded.
NothingLost ==
  ~ Reused /\ "copy" \notin failed =>
    \A text \in Texts : dropped[text] # NoName => Waiting(text) \/ Archived(text)

\* Comment at mtn-server-transmitter.c:132, "move new message file to sent
\* messages directory": a move loses nothing, even if its copy fails.
MoveLosesNothing ==
  ~ Reused => \A text \in Texts : dropped[text] # NoName => Waiting(text) \/ Archived(text)

\* Texts a whole round sent, at least their beginning.
Sent == transmitted \cup cut

\* If no name is used twice, what is in sent_messages was sent by a whole round, in
\* this or an earlier run of the server: all of it, or what could be read of it
\* before a read failed.
ArchivedWasSent ==
  ~ Reused => \A text \in Texts : Archived(text) => text \in Sent

\* A file that a SIGHUP announced is not forgotten, unless it could not be read:
\* until it is sent, the flag is up, or the scan is still to come to it, or it is
\* in hand or in the queue, even where a thread halts in the handler.
AnnouncedKept ==
  ~ Reused /\ "read" \notin failed =>
    \A text \in announced \ Sent :
      \/ available
      \/ /\ Waiting(text)
         /\ \/ loader.pc = "opendir"
            \/ dropped[text] \in todo
            \/ loader.pc \in {"access", "open"} /\ loader.name = dropped[text]
      \/ loader.pc \in {"report", "append"} /\ loader.message.text = text
      \/ \E i \in 1 .. Len(queue) : queue[i].text = text

\* And it is sent in the end, unless the server ends before, or a file could not be
\* read, or a name is used twice, or a thread halted in the handler, inside
\* new_message_mutex or inside a log call, with a mutex the others need.
AnnouncedGetOut ==
  \A text \in Texts :
    text \in announced ~>
      text \in Sent \/ text \notin announced \/ Reused \/ "read" \in failed \/ kept # {}
=============================================================================
