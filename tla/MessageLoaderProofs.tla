------------------------ MODULE MessageLoaderProofs ------------------------
(* Theorems about MessageLoader, for any names and texts and any bounds.   *)
EXTENDS MessageLoader, TLAPS

(***************************************************************************)
(* The type invariant, with what each thread has in hand where it is.      *)
(***************************************************************************)

Loaded == loader.pc \in {"report", "append"}

LoaderHands ==
  /\ Loaded => loader.message \in Messages
  /\ ~ Loaded => loader.message = NoMessage
  /\ loader.pc \in {"access", "creat", "open", "report", "append"} => loader.name \in Names

TransmitterHands ==
  /\ transmitter.pc = "sending" => queue # <<>>
  /\ transmitter.pc \in {"dest", "copy", "tell", "remove", "complain", "file"} =>
       transmitter.message \in Messages
  /\ transmitter.pc = "copy" => Len(sent_messages[transmitter.message.name]) > 0

TypeInv == TypeOK /\ LoaderHands /\ TransmitterHands

LEMMA TypeInit == Init => TypeInv
<1> SUFFICES ASSUME Init PROVE TypeInv
    OBVIOUS
<1> USE LoaderAssumption DEF Init, TypeInv
<1>1. TypeOK
  <2>1. new_messages \in [Names -> Texts \cup {Empty, Absent}]
    OBVIOUS
  <2>2. sent_messages \in [Names -> Seq(Texts \cup {Empty})] /\ available \in BOOLEAN
    <3>1. <<>> \in Seq(Texts \cup {Empty})
      OBVIOUS
    <3>2. sent_messages = [n \in Names |-> <<>>] /\ available = FALSE
      OBVIOUS
    <3> QED
      BY ONLY <3>1, <3>2
  <2>3. loader \in [pc : {"lock", "locked", "asleep", "opendir", "readdir", "access", "creat",
                         "open", "report", "append", "log", "summary"},
                   name : Names \cup {NoName}, message : Messages \cup {NoMessage}]
    BY DEF LoaderStart
  <2>4. /\ todo \subseteq Names /\ maybe \subseteq Names
        /\ last_release_time \in Nat /\ last_id \in Nat
        /\ queue \in Seq(Messages)
    OBVIOUS
  <2>5. transmitter \in [pc : {"idle", "sending", "dest", "copy", "tell", "remove", "complain",
                              "file"},
                        message : Messages \cup {NoMessage}]
    BY DEF TransmitterStart
  <2>6. /\ sent_map \subseteq Nat \X Nat
        /\ now \in Nat \ {0}
        /\ left \in [drops : Nat, signals : Nat, restarts : Nat, changes : Nat]
        /\ announced \subseteq Texts /\ transmitted \subseteq Texts /\ cut \subseteq Texts
        /\ kept \subseteq {"new_message", "print", "queue"} /\ halted \subseteq Threads
    OBVIOUS
  <2>7. failed \subseteq {"copy", "read"} /\ stepped \in BOOLEAN
    OBVIOUS
  <2>8. dropped \in [Texts -> Names \cup {NoName}]
    OBVIOUS
  <2> QED
    BY ONLY <2>1, <2>2, <2>3, <2>4, <2>5, <2>6, <2>7, <2>8 DEF TypeOK
<1>2. LoaderHands
  BY DEF Loaded, LoaderHands, LoaderStart
<1>3. TransmitterHands
  BY DEF TransmitterHands, TransmitterStart
<1> QED
  BY <1>1, <1>2, <1>3

\* What is spent was there.
LEMMA SpendType ==
  ASSUME left \in [drops : Nat, signals : Nat, restarts : Nat, changes : Nat],
         NEW kind \in {"drops", "signals", "restarts", "changes"}, Spend(kind)
  PROVE  left' \in [drops : Nat, signals : Nat, restarts : Nat, changes : Nat]
<1>1. left[kind] \in Nat /\ left[kind] > 0
  BY DEF Spend
<1>2. left[kind] - 1 \in Nat
  BY <1>1
<1> QED
  BY <1>2 DEF Spend

\* The handler, in any thread, inside a log call or not.
Signalled ==
  \/ Signal
  \/ SignalInLoader
  \/ \E thread \in Threads \cup {"receiver"} : SignalInLog(thread)
  \/ \E thread \in Threads \cup {"receiver"} : SignalToo(thread)

\* Whatever thread it is in, it raises the flag and wakes the loader, or does nothing
\* but stop a thread.
LEMMA SignalDoes ==
  ASSUME Signalled
  PROVE  /\ Spend("signals")
         /\ Heard \/ UNCHANGED <<available, loader, announced>>
         /\ UNCHANGED <<disk, todo, maybe, identity, sending, now, dropped, transmitted, cut,
                        failed, stepped>>
<1>1. CASE Signal
  BY <1>1 DEF Signal
<1>2. CASE SignalInLoader
  BY <1>2 DEF SignalInLoader, loading, history
<1>3. ASSUME NEW thread, SignalInLog(thread)
      PROVE  /\ Spend("signals") /\ Heard
             /\ UNCHANGED <<disk, todo, maybe, identity, sending, now, dropped, transmitted, cut,
                            failed, stepped>>
  BY <1>3 DEF SignalInLog
<1>4. ASSUME NEW thread, SignalToo(thread)
      PROVE  /\ Spend("signals")
             /\ Heard \/ UNCHANGED <<available, loader, announced>>
             /\ UNCHANGED <<disk, todo, maybe, identity, sending, now, dropped, transmitted, cut,
                            failed, stepped>>
  BY <1>4 DEF SignalToo
<1> QED
  BY <1>1, <1>2, <1>3, <1>4 DEF Signalled

\* What it leaves behind.
LEMMA SignalLeaves ==
  ASSUME TypeOK, Signalled
  PROVE  kept' \subseteq {"new_message", "print", "queue"} /\ halted' \subseteq Threads
<1>1. kept \subseteq {"new_message", "print", "queue"} /\ halted \subseteq Threads
  BY DEF TypeOK
<1>2. CASE Signal
  BY <1>1, <1>2 DEF Signal
<1>3. CASE SignalInLoader
  BY <1>1, <1>3 DEF SignalInLoader, Threads
<1>4. ASSUME NEW thread, SignalInLog(thread)
      PROVE  kept' \subseteq {"new_message", "print", "queue"} /\ halted' \subseteq Threads
  BY <1>1, <1>4 DEF SignalInLog
<1>5. ASSUME NEW thread, SignalToo(thread)
      PROVE  kept' \subseteq {"new_message", "print", "queue"} /\ halted' \subseteq Threads
  BY <1>1, <1>5 DEF SignalToo
<1> QED
  BY <1>2, <1>3, <1>4, <1>5 DEF Signalled

\* What the threads have in hand, if neither they nor what they work on change.
LEMMA HandsFrame ==
  ASSUME LoaderHands, TransmitterHands,
         UNCHANGED <<loader, transmitter, queue, sent_messages>>
  PROVE  LoaderHands' /\ TransmitterHands'
  BY DEF LoaderHands, TransmitterHands, Loaded

\* And the types of these.
LEMMA TypeFrame ==
  ASSUME TypeOK, UNCHANGED <<loader, transmitter, queue, sent_messages>>
  PROVE  /\ sent_messages' \in [Names -> Seq(Texts \cup {Empty})]
         /\ loader' \in [pc : {"lock", "locked", "asleep", "opendir", "readdir", "access",
                              "creat", "open", "report", "append", "log", "summary"},
                        name : Names \cup {NoName}, message : Messages \cup {NoMessage}]
         /\ queue' \in Seq(Messages)
         /\ transmitter' \in [pc : {"idle", "sending", "dest", "copy", "tell", "remove",
                                   "complain", "file"},
                             message : Messages \cup {NoMessage}]
<1>1. sent_messages \in [Names -> Seq(Texts \cup {Empty})] /\ queue \in Seq(Messages)
  BY DEF TypeOK
<1>2. loader \in [pc : {"lock", "locked", "asleep", "opendir", "readdir", "access", "creat",
                       "open", "report", "append", "log", "summary"},
                 name : Names \cup {NoName}, message : Messages \cup {NoMessage}]
  BY DEF TypeOK
<1>3. transmitter \in [pc : {"idle", "sending", "dest", "copy", "tell", "remove", "complain",
                            "file"},
                      message : Messages \cup {NoMessage}]
  BY DEF TypeOK
<1> QED
  BY <1>1, <1>2, <1>3

\* The user, the clock, the handler and a restart.
LEMMA TypeOutside ==
  ASSUME TypeInv,
         \/ \E n \in Names, text \in Texts : Drop(n, text)
         \/ Tick
         \/ StepBack
         \/ Signalled
         \/ Restart
  PROVE  TypeInv'
<1> USE LoaderAssumption
    DEF TypeInv, TypeOK, Loaded, LoaderHands, TransmitterHands, disk, loading, identity, sending,
        outside, history
<1>1. ASSUME NEW n \in Names, NEW text \in Texts, Drop(n, text)
      PROVE  TypeInv'
  <2>1. left' \in [drops : Nat, signals : Nat, restarts : Nat, changes : Nat]
    BY <1>1, SpendType DEF Drop
  <2>2. new_messages' \in [Names -> Texts \cup {Empty, Absent}]
    BY <1>1 DEF Drop
  <2>3. dropped' \in [Texts -> Names \cup {NoName}]
    BY <1>1 DEF Drop
  <2>4. maybe' \subseteq Names
    BY <1>1 DEF Drop, Appear
  <2>5. UNCHANGED <<sent_messages, available, loader, todo, last_release_time, last_id, queue,
                    transmitter, sent_map, now, kept, halted, announced, transmitted, cut,
                    failed, stepped>>
    BY <1>1 DEF Drop
  <2>6. LoaderHands' /\ TransmitterHands'
    BY HandsFrame, <2>5
  <2>7. TypeOK
    OBVIOUS
  <2>8. TypeOK'
    BY ONLY <2>1, <2>2, <2>3, <2>4, <2>5, <2>7, TypeFrame DEF TypeOK
  <2> QED
    BY ONLY <2>6, <2>8 DEF TypeInv
<1>2. CASE Tick
  <2>1. left' \in [drops : Nat, signals : Nat, restarts : Nat, changes : Nat]
    BY <1>2, SpendType DEF Tick
  <2>2. now' \in Nat \ {0}
    BY <1>2 DEF Tick
  <2>3. UNCHANGED <<new_messages, sent_messages, available, loader, todo, maybe,
                    last_release_time, last_id, queue, transmitter, sent_map, kept, halted,
                    dropped, announced, transmitted, cut, failed, stepped>>
    BY <1>2 DEF Tick
  <2>6. LoaderHands' /\ TransmitterHands'
    BY HandsFrame, <2>3
  <2>7. TypeOK
    OBVIOUS
  <2>8. TypeOK'
    BY ONLY <2>1, <2>2, <2>3, <2>7, TypeFrame DEF TypeOK
  <2> QED
    BY ONLY <2>6, <2>8 DEF TypeInv
<1>3. CASE StepBack
  <2>1. left' \in [drops : Nat, signals : Nat, restarts : Nat, changes : Nat]
    BY <1>3, SpendType DEF StepBack
  <2>2. now' \in Nat \ {0}
    BY <1>3 DEF StepBack
  <2>3. UNCHANGED <<new_messages, sent_messages, available, loader, todo, maybe,
                    last_release_time, last_id, queue, transmitter, sent_map, kept, halted,
                    dropped, announced, transmitted, cut, failed>>
    BY <1>3 DEF StepBack
  <2>4. stepped' \in BOOLEAN
    BY <1>3 DEF StepBack
  <2>6. LoaderHands' /\ TransmitterHands'
    BY HandsFrame, <2>3
  <2>7. TypeOK
    OBVIOUS
  <2>8. TypeOK'
    BY ONLY <2>1, <2>2, <2>3, <2>4, <2>7, TypeFrame DEF TypeOK
  <2> QED
    BY ONLY <2>6, <2>8 DEF TypeInv
<1>4. CASE Signalled
  <2>1. left' \in [drops : Nat, signals : Nat, restarts : Nat, changes : Nat]
    BY <1>4, SignalDoes, SpendType
  <2>2. /\ available' \in BOOLEAN /\ announced' \subseteq Texts
        /\ \/ loader' = loader
           \/ loader.pc = "asleep" /\ LoaderGoto("lock")
    BY <1>4, SignalDoes DEF Heard
  <2>3. kept' \subseteq {"new_message", "print", "queue"} /\ halted' \subseteq Threads
    BY <1>4, SignalLeaves
  <2>4. UNCHANGED <<new_messages, sent_messages, todo, maybe, last_release_time, last_id, queue,
                    transmitter, sent_map, now, dropped, transmitted, cut, failed, stepped>>
    BY <1>4, SignalDoes DEF sending
  <2>5. LoaderHands'
    BY <2>2, <2>4 DEF LoaderGoto
  <2>6. loader' \in [pc : {"lock", "locked", "asleep", "opendir", "readdir", "access", "creat",
                          "open", "report", "append", "log", "summary"},
                    name : Names \cup {NoName}, message : Messages \cup {NoMessage}]
    BY <2>2 DEF LoaderGoto
  <2> QED
    BY <2>1, <2>2, <2>3, <2>4, <2>5, <2>6
<1>5. CASE Restart
  <2>1. /\ new_messages' \in [Names -> Texts \cup {Empty, Absent}]
        /\ sent_messages' \in [Names -> Seq(Texts \cup {Empty})]
        /\ available' \in BOOLEAN
    BY <1>5 DEF Restart
  <2>2. loader' \in [pc : {"lock", "locked", "asleep", "opendir", "readdir", "access", "creat",
                         "open", "report", "append", "log", "summary"},
                   name : Names \cup {NoName}, message : Messages \cup {NoMessage}]
    BY <1>5 DEF Restart, LoaderStart
  <2>3. /\ todo' \subseteq Names /\ maybe' \subseteq Names
        /\ last_release_time' \in Nat /\ last_id' \in Nat
        /\ queue' \in Seq(Messages)
    BY <1>5 DEF Restart
  <2>4. transmitter' \in [pc : {"idle", "sending", "dest", "copy", "tell", "remove", "complain",
                               "file"},
                         message : Messages \cup {NoMessage}]
    BY <1>5 DEF Restart, TransmitterStart
  <2>5. /\ sent_map' \subseteq Nat \X Nat
        /\ now' \in Nat \ {0}
        /\ left' \in [drops : Nat, signals : Nat, restarts : Nat, changes : Nat]
        /\ dropped' \in [Texts -> Names \cup {NoName}]
        /\ announced' \subseteq Texts /\ transmitted' \subseteq Texts /\ cut' \subseteq Texts
        /\ kept' \subseteq {"new_message", "print", "queue"} /\ halted' \subseteq Threads
        /\ failed' \subseteq {"copy", "read"} /\ stepped' \in BOOLEAN
    BY <1>5, SpendType DEF Restart
  <2>6. LoaderHands' /\ TransmitterHands'
    BY <1>5 DEF Restart, LoaderStart, TransmitterStart
  <2>7. TypeOK'
    BY ONLY <2>1, <2>2, <2>3, <2>4, <2>5 DEF TypeOK, Messages
  <2> QED
    BY <2>6, <2>7 DEF TypeInv
<1> QED
  BY <1>1, <1>2, <1>3, <1>4, <1>5

\* A read of the whole text, or up to a failure.
LoaderReads(pc, whole) ==
  LET text == new_messages[loader.name]
  IN  /\ loader.pc = "open"
      /\ text \in Texts
      /\ loader' = [pc |-> pc, name |-> loader.name,
                    message |-> Message(loader.name, text, now, NextId, whole)]
      /\ last_release_time' = now
      /\ last_id' = NextId
      /\ UNCHANGED <<disk, available, todo, maybe, sending, outside, history>>

LEMMA ReadsIs ==
  /\ LoaderRead => LoaderReads("append", TRUE)
  /\ LoaderReadFails => LoaderReads("report", FALSE)
  BY DEF LoaderRead, LoaderReadFails, LoaderReads

LEMMA TypeLoader ==
  ASSUME TypeInv, LoaderThread
  PROVE  TypeInv'
<1> USE LoaderAssumption
    DEF TypeInv, TypeOK, Loaded, LoaderHands, TransmitterHands, disk, loading, identity, sending,
        outside, history, LoaderGoto
<1>1. CASE LoaderLock
  BY <1>1 DEF LoaderLock
<1>2. CASE LoaderSleep
  BY <1>2 DEF LoaderSleep
<1>3. CASE LoaderTake
  BY <1>3 DEF LoaderTake
<1>4. CASE LoaderOpenDir
  BY <1>4 DEF LoaderOpenDir, Present
<1>5. ASSUME NEW n \in Names, LoaderReadDir(n)
      PROVE  TypeInv'
  BY <1>5 DEF LoaderReadDir
<1>6. CASE LoaderAccess
  BY <1>6 DEF LoaderAccess
<1>7. CASE LoaderCreat
  BY <1>7 DEF LoaderCreat, Appear
<1>8. CASE LoaderSkip
  BY <1>8 DEF LoaderSkip
<1>9. ASSUME NEW pc \in {"report", "append"}, NEW whole \in BOOLEAN, LoaderReads(pc, whole)
      PROVE  TypeInv'
  <2> DEFINE m == Message(loader.name, new_messages[loader.name], now, NextId, whole)
  <2>1. /\ NextId \in Nat /\ loader.name \in Names
        /\ loader' = [pc |-> pc, name |-> loader.name, message |-> m]
        /\ last_release_time' = now /\ last_id' = NextId
    BY <1>9 DEF LoaderReads, NextId
  <2>2. m \in Messages
    <3>1. new_messages[loader.name] \in Texts /\ now \in Nat
      BY <1>9 DEF LoaderReads
    <3> QED
      BY ONLY <2>1, <3>1 DEF Message, Messages
  <2> HIDE DEF m
  <2> QED
    BY <1>9, <2>1, <2>2 DEF LoaderReads
<1>10. CASE LoaderAppend
  BY <1>10 DEF LoaderAppend
<1>11. CASE LoaderCloseDir
  BY <1>11 DEF LoaderCloseDir
<1>12. CASE LoaderError
  BY <1>12 DEF LoaderError
<1>13. CASE LoaderLog
  BY <1>13 DEF LoaderLog
<1> QED
  BY <1>1, <1>2, <1>3, <1>4, <1>5, <1>6, <1>7, <1>8, <1>9, <1>10, <1>11, <1>12,
     <1>13, ReadsIs
  DEF LoaderThread

LEMMA TypeTransmitter ==
  ASSUME TypeInv, TransmissionThread
  PROVE  TypeInv'
<1> USE LoaderAssumption
    DEF TypeInv, TypeOK, Loaded, LoaderHands, TransmitterHands, disk, loading, identity, sending,
        outside, history, TransmitterGoto
<1>1. CASE TransmitterTake
  BY <1>1 DEF TransmitterTake
<1>2. CASE TransmitterRetire
  <2>1. Head(queue) \in Messages /\ queue' \in Seq(Messages)
    BY <1>2 DEF TransmitterRetire
  <2>2. Head(queue).text \in Texts
    BY <2>1 DEF Messages
  <2> QED
    BY <1>2, <2>1, <2>2 DEF TransmitterRetire
<1>3. CASE TransmitterDest
  <2> DEFINE n == transmitter.message.name
  <2>1. n \in Names /\ transmitter.message \in Messages
    BY <1>3 DEF TransmitterDest, Messages
  <2>2. CASE FileNext(n, Empty) /\ TransmitterGoto("copy") /\ UNCHANGED failed
    <3>1. Append(sent_messages[n], Empty) \in Seq(Texts \cup {Empty})
      BY <2>1
    <3>2. Len(Append(sent_messages[n], Empty)) > 0
      BY <2>1
    <3>3. /\ sent_messages' \in [Names -> Seq(Texts \cup {Empty})]
          /\ Len(sent_messages'[n]) > 0
      BY <2>1, <2>2, <3>1, <3>2 DEF FileNext
    <3> QED
      BY <1>3, <2>1, <2>2, <3>3 DEF TransmitterDest
  <2>3. CASE TransmitterGoto("tell") /\ failed' = failed \cup {"copy"} /\ UNCHANGED sent_messages
    BY <1>3, <2>1, <2>3 DEF TransmitterDest
  <2> QED
    BY <1>3, <2>2, <2>3 DEF TransmitterDest
<1>4. CASE TransmitterCopy
  <2> DEFINE n == transmitter.message.name
             copied == [sent_messages EXCEPT ![n][Len(sent_messages[n])] = new_messages[n]]
  <2>1. n \in Names /\ transmitter.message \in Messages /\ Len(sent_messages[n]) > 0
    BY <1>4 DEF TransmitterCopy, Messages
  <2>2. ASSUME n \in Present
        PROVE  copied \in [Names -> Seq(Texts \cup {Empty})]
    <3>1. new_messages[n] \in Texts \cup {Empty}
      BY <2>1, <2>2 DEF Present
    <3>2. [sent_messages[n] EXCEPT ![Len(sent_messages[n])] = new_messages[n]]
            \in Seq(Texts \cup {Empty})
      BY <2>1, <3>1
    <3> QED
      BY <2>1, <3>2
  <2>3. sent_messages' \in [Names -> Seq(Texts \cup {Empty})]
    BY <1>4, <2>2 DEF TransmitterCopy
  <2>4. failed' \subseteq {"copy", "read"}
    BY <1>4 DEF TransmitterCopy
  <2> QED
    BY <1>4, <2>1, <2>3, <2>4 DEF TransmitterCopy
<1>5. CASE TransmitterRemove
  <2>1. new_messages' \in [Names -> Texts \cup {Empty, Absent}]
    BY <1>5 DEF TransmitterRemove
  <2>2. todo' \subseteq Names /\ maybe' \subseteq Names
    <3>1. CASE Disappear(transmitter.message.name)
      <4>1. todo \subseteq Names /\ maybe \subseteq Names
        OBVIOUS
      <4> QED
        BY ONLY <3>1, <4>1 DEF Disappear
    <3>2. CASE UNCHANGED <<todo, maybe>>
      BY <3>2
    <3> QED
      BY <1>5, <3>1, <3>2 DEF TransmitterRemove
  <2> QED
    BY <1>5, <2>1, <2>2 DEF TransmitterRemove
<1>6. CASE TransmitterFile
  <2>1. Key(transmitter.message) \in Nat \X Nat
    <3>1. transmitter.message \in Messages
      BY <1>6 DEF TransmitterFile
    <3> QED
      BY ONLY <3>1 DEF Key, Messages
  <2>2. sent_map' \subseteq Nat \X Nat
    <3>1. sent_map \subseteq Nat \X Nat /\ sent_map' = sent_map \cup {Key(transmitter.message)}
      BY <1>6 DEF TransmitterFile
    <3> QED
      BY ONLY <2>1, <3>1
  <2>3. /\ transmitter' = [pc |-> "idle", message |-> NoMessage]
        /\ UNCHANGED <<new_messages, sent_messages, available, loader, todo, maybe,
                       last_release_time, last_id, queue, now, left, kept, halted,
                       dropped, announced, transmitted, cut, failed, stepped>>
    BY <1>6 DEF TransmitterFile
  <2> QED
    BY <2>2, <2>3
<1>7. CASE TransmitterHalts
  BY <1>7 DEF TransmitterHalts, Threads
<1>8. CASE TransmitterLog
  BY <1>8 DEF TransmitterLog
<1> QED
  BY <1>1, <1>2, <1>3, <1>4, <1>5, <1>6, <1>7, <1>8 DEF TransmissionThread

LEMMA TypeStep == TypeInv /\ [Next]_vars => TypeInv'
<1> SUFFICES ASSUME TypeInv, [Next]_vars PROVE TypeInv'
    OBVIOUS
<1>1. CASE UNCHANGED vars
  BY <1>1 DEF TypeInv, TypeOK, Loaded, LoaderHands, TransmitterHands, vars, disk, loading, identity,
              sending, outside, history
<1> QED
  BY <1>1, TypeOutside, TypeLoader, TypeTransmitter DEF Next, Signalled

LEMMA TypeAlways == Spec => []TypeInv
  BY TypeInit, TypeStep, PTL DEF Spec

\* Every reachable state of loader, queue and directories is well-typed.
THEOREM TypeCorrect == Spec => []TypeOK
<1>1. TypeInv => TypeOK
  BY DEF TypeInv
<1> QED
  BY <1>1, TypeAlways, PTL

-----------------------------------------------------------------------------
(***************************************************************************)
(* The keys of the messages, in the order in which the loader gave them:    *)
(* those in sent_map, that in the transmitter's hand, those in the queue,   *)
(* and last <<last_release_time, last_id>>, the key of the message in the   *)
(* loader's hand or else of one that has left it.                           *)
(***************************************************************************)

Before(k, l) == k[1] < l[1] \/ (k[1] = l[1] /\ k[2] < l[2])

Newest == <<last_release_time, last_id>>

Given(k) == Before(k, Newest) \/ (~ Loaded /\ k = Newest)

Retired == transmitter.message \in Messages

KeyOrder ==
  /\ last_release_time <= now
  /\ Loaded => Key(loader.message) = Newest
  /\ \A k \in sent_map : Given(k)
  /\ \A k \in sent_map : \A i \in 1 .. Len(queue) : Before(k, Key(queue[i]))
  /\ \A i \in 1 .. Len(queue) : Given(Key(queue[i]))
  /\ \A i, j \in 1 .. Len(queue) : i < j => Before(Key(queue[i]), Key(queue[j]))
  /\ Retired =>
       /\ Given(Key(transmitter.message))
       /\ \A k \in sent_map : Before(k, Key(transmitter.message))
       /\ \A i \in 1 .. Len(queue) : Before(Key(transmitter.message), Key(queue[i]))

KeyInv == ~ stepped => KeyOrder

(***************************************************************************)
(* Where the texts are.                                                    *)
(***************************************************************************)

\* A name once used for a text.
Known(n) == \E text \in Texts : dropped[text] = n

\* Everything bears the name it was dropped under.
NamesKept ==
  /\ \A n \in Names : new_messages[n] \in Texts => dropped[new_messages[n]] = n
  /\ \A n \in Present \cup todo \cup maybe : Known(n)
  /\ loader.pc \in {"access", "creat", "open"} => Known(loader.name)
  /\ Loaded => dropped[loader.message.text] = loader.message.name
  /\ \A i \in 1 .. Len(queue) : dropped[queue[i].text] = queue[i].name
  /\ Retired => /\ dropped[transmitter.message.text] = transmitter.message.name
                /\ transmitter.message.text \in Sent

\* What the steps of loader and transmitter rely on, each from the one before.
StepsInOrder ==
  LET n == transmitter.message.name
  IN  /\ loader.pc = "creat" => new_messages[loader.name] \notin Texts
      /\ transmitter.pc = "copy" => sent_messages[n][Len(sent_messages[n])] = Empty
      /\ transmitter.pc \in {"tell", "remove"} /\ "copy" \notin failed
           /\ new_messages[n] \in Texts =>
           Archived(new_messages[n])

DiskInv ==
  /\ NamesKept
  /\ ~ Reused => StepsInOrder
  /\ NothingLost
  /\ ArchivedWasSent

\* A text that a SIGHUP found stays where it is until a round has sent it.
AnnouncedWait == ~ Reused => \A text \in announced \ Sent : Waiting(text)

AnnouncedInv == AnnouncedWait /\ AnnouncedKept

-----------------------------------------------------------------------------
LEMMA BeforeOrders ==
  /\ \A k, l, m \in Nat \X Nat : Before(k, l) /\ Before(l, m) => Before(k, m)
  /\ \A k \in Nat \X Nat : ~ Before(k, k)
  BY DEF Before

LEMMA KeyTypes ==
  ASSUME TypeOK
  PROVE  /\ Newest \in Nat \X Nat
         /\ sent_map \subseteq Nat \X Nat
         /\ \A m \in Messages : Key(m) \in Nat \X Nat
         /\ \A i \in 1 .. Len(queue) : queue[i] \in Messages
         /\ Len(queue) \in Nat
<1>1. Newest \in Nat \X Nat /\ sent_map \subseteq Nat \X Nat
  BY DEF TypeOK, Newest
<1>2. \A m \in Messages : Key(m) \in Nat \X Nat
  BY DEF Key, Messages
<1>3. queue \in Seq(Messages)
  BY DEF TypeOK
<1>4. Len(queue) \in Nat /\ \A i \in 1 .. Len(queue) : queue[i] \in Messages
  BY <1>3
<1> QED
  BY <1>1, <1>2, <1>4

\* The order uses no more than this.
LEMMA KeyFrame ==
  ASSUME KeyInv, TypeOK,
         UNCHANGED <<last_release_time, last_id, queue, sent_map, stepped>>,
         loader'.message = loader.message, transmitter'.message = transmitter.message,
         now' >= now, now' \in Nat,
         Loaded' <=> Loaded
  PROVE  KeyInv'
<1> SUFFICES ASSUME ~ stepped PROVE KeyOrder'
    BY DEF KeyInv
<1>1. last_release_time' <= now'
  BY DEF KeyInv, KeyOrder, TypeOK, identity
<1>2. Newest' = Newest /\ Retired' = Retired
  BY DEF Newest, Retired, identity, Messages
<1>3. \A k : Given(k)' <=> Given(k)
  BY <1>2 DEF Given, Before
<1> QED
  BY <1>1, <1>2, <1>3 DEF KeyInv, KeyOrder, Key, Newest, Given, Before

LEMMA KeyInit == Init => KeyInv
<1> SUFFICES ASSUME Init PROVE KeyOrder
    BY DEF KeyInv
<1>1. ~ Retired
  BY LoaderAssumption DEF Init, TransmitterStart, Retired
<1>2. sent_map = {} /\ Len(queue) = 0
  BY DEF Init
<1>3. last_release_time <= now /\ ~ Loaded
  BY DEF Init, LoaderStart, Loaded
<1> QED
  BY <1>1, <1>2, <1>3 DEF KeyOrder

\* A key given later is above all that were given.
LEMMA KeyRead ==
  ASSUME TypeInv, TypeInv', KeyInv,
         NEW pc \in {"report", "append"}, NEW whole \in BOOLEAN, LoaderReads(pc, whole)
  PROVE  KeyInv'
<1> SUFFICES ASSUME ~ stepped PROVE KeyOrder'
    BY DEF LoaderReads, KeyInv, history
<1> USE DEF TypeInv
<1>1. KeyOrder /\ ~ Loaded /\ Loaded'
  BY DEF KeyInv, LoaderReads, Loaded
<1>2. Newest' = <<now, NextId>> /\ Key(loader'.message) = <<now, NextId>>
  BY DEF LoaderReads, Newest, Message, Key
<1>3. UNCHANGED <<queue, sent_map, transmitter, now>>
  BY DEF LoaderReads, sending, outside
<1>4. Before(Newest, Newest')
  BY <1>1, <1>2 DEF KeyOrder, Before, Newest, NextId, TypeOK
<1>5. \A k \in Nat \X Nat : Given(k) => Before(k, Newest')
  <2>1. Newest \in Nat \X Nat /\ Newest' \in Nat \X Nat
    BY KeyTypes DEF TypeOK, Newest
  <2> QED
    BY <1>4, <2>1, BeforeOrders DEF Given
<1>6. /\ \A k \in sent_map : Before(k, Newest')
      /\ \A i \in 1 .. Len(queue) : Before(Key(queue[i]), Newest')
      /\ Retired => Before(Key(transmitter.message), Newest')
  BY <1>1, <1>5, KeyTypes DEF KeyOrder, Retired
<1>7. last_release_time' <= now'
  BY DEF LoaderReads, outside, TypeOK
<1> QED
  BY <1>1, <1>2, <1>3, <1>6, <1>7 DEF KeyOrder, Given, Retired, Key, Before

LEMMA KeyAppend ==
  ASSUME TypeInv, TypeInv', KeyInv, LoaderAppend
  PROVE  KeyInv'
<1> SUFFICES ASSUME ~ stepped PROVE KeyOrder'
    BY DEF LoaderAppend, KeyInv, history
<1> USE DEF TypeInv
<1>1. KeyOrder /\ Loaded /\ ~ Loaded'
  BY DEF KeyInv, LoaderAppend, Loaded
<1>2. loader.message \in Messages /\ Key(loader.message) = Newest
  BY <1>1 DEF KeyOrder, LoaderHands
<1>3. UNCHANGED <<sent_map, transmitter, now, last_release_time>> /\ Newest' = Newest
  BY DEF LoaderAppend, identity, outside, Newest
<1>4. /\ Len(queue') = Len(queue) + 1
      /\ \A i \in 1 .. Len(queue) : queue'[i] = queue[i]
      /\ queue'[Len(queue) + 1] = loader.message
  BY <1>2 DEF LoaderAppend, TypeOK
<1>5. \A i \in 1 .. Len(queue') :
        \/ i \in 1 .. Len(queue) /\ queue'[i] = queue[i]
        \/ i = Len(queue) + 1 /\ Key(queue'[i]) = Newest
  BY <1>2, <1>4, KeyTypes
<1>6. /\ \A k \in sent_map : Before(k, Newest)
      /\ \A i \in 1 .. Len(queue) : Before(Key(queue[i]), Newest)
      /\ Retired => Before(Key(transmitter.message), Newest)
  BY <1>1 DEF KeyOrder, Given
<1>7. \A i, j \in 1 .. Len(queue') : i < j => Before(Key(queue'[i]), Key(queue'[j]))
  <2> SUFFICES ASSUME NEW i \in 1 .. Len(queue'), NEW j \in 1 .. Len(queue'), i < j
               PROVE  Before(Key(queue'[i]), Key(queue'[j]))
      OBVIOUS
  <2>1. i \in 1 .. Len(queue)
    BY <1>4, KeyTypes
  <2> QED
    BY <1>1, <1>4, <1>5, <1>6, <2>1 DEF KeyOrder
<1>8. \A k \in sent_map : \A i \in 1 .. Len(queue') : Before(k, Key(queue'[i]))
  BY <1>1, <1>5, <1>6 DEF KeyOrder
<1>9. Retired => \A i \in 1 .. Len(queue') : Before(Key(transmitter.message), Key(queue'[i]))
  BY <1>1, <1>5, <1>6 DEF KeyOrder
<1>10. \A i \in 1 .. Len(queue') :
         Before(Key(queue'[i]), Newest) \/ Key(queue'[i]) = Newest
  BY <1>5, <1>6
<1>11. last_release_time' <= now'
  BY <1>1, <1>3 DEF KeyOrder
<1>12. Retired => \A k \in sent_map : Before(k, Key(transmitter.message))
  BY <1>1 DEF KeyOrder
<1> HIDE DEF TypeInv
<1> QED
  BY <1>1, <1>3, <1>6, <1>7, <1>8, <1>9, <1>10, <1>11, <1>12 DEF KeyOrder, Given, Retired

LEMMA KeyRetire ==
  ASSUME TypeInv, TypeInv', KeyInv, TransmitterRetire
  PROVE  KeyInv'
<1> SUFFICES ASSUME ~ stepped PROVE KeyOrder'
    BY DEF TransmitterRetire, KeyInv
<1>1. KeyOrder
  BY DEF KeyInv, TransmitterRetire
<1>2. UNCHANGED <<loader, sent_map, now, last_release_time>> /\ Newest' = Newest
  BY DEF TransmitterRetire, loading, identity, outside, Newest
<1>3. queue \in Seq(Messages) /\ Len(queue) > 0 /\ queue' = Tail(queue)
  BY DEF TransmitterRetire, TypeInv, TypeOK, TransmitterHands
<1>4. /\ Len(queue') = Len(queue) - 1
      /\ \A i \in 1 .. Len(queue') : queue'[i] = queue[i + 1] /\ i + 1 \in 1 .. Len(queue)
  BY <1>3
<1>5. transmitter'.message = queue[1] /\ 1 \in 1 .. Len(queue)
  BY <1>3 DEF TransmitterRetire
<1>6. \A i \in 1 .. Len(queue') :
        /\ Before(Key(transmitter'.message), Key(queue'[i]))
        /\ Given(Key(queue'[i]))
        /\ \A k \in sent_map : Before(k, Key(queue'[i]))
  <2> SUFFICES ASSUME NEW i \in 1 .. Len(queue')
               PROVE  /\ Before(Key(transmitter'.message), Key(queue'[i]))
                      /\ Given(Key(queue'[i]))
                      /\ \A k \in sent_map : Before(k, Key(queue'[i]))
      OBVIOUS
  <2>1. queue'[i] = queue[i + 1] /\ i + 1 \in 1 .. Len(queue) /\ 1 < i + 1
    BY <1>3, <1>4
  <2> QED
    BY <1>1, <1>5, <2>1 DEF KeyOrder
<1>7. \A i, j \in 1 .. Len(queue') : i < j => Before(Key(queue'[i]), Key(queue'[j]))
  <2> SUFFICES ASSUME NEW i \in 1 .. Len(queue'), NEW j \in 1 .. Len(queue'), i < j
               PROVE  Before(Key(queue'[i]), Key(queue'[j]))
      OBVIOUS
  <2>1. i + 1 < j + 1 /\ i + 1 \in 1 .. Len(queue) /\ j + 1 \in 1 .. Len(queue)
    BY <1>3, <1>4
  <2> QED
    BY <1>1, <1>4, <2>1 DEF KeyOrder
<1>8. /\ Given(Key(transmitter'.message))
      /\ \A k \in sent_map : Before(k, Key(transmitter'.message))
  BY <1>1, <1>5 DEF KeyOrder
<1> QED
  BY <1>1, <1>2, <1>6, <1>7, <1>8 DEF KeyOrder, Given, Loaded

LEMMA KeyFile ==
  ASSUME TypeInv, TypeInv', KeyInv, TransmitterFile
  PROVE  KeyInv'
<1> SUFFICES ASSUME ~ stepped PROVE KeyOrder'
    BY DEF TransmitterFile, KeyInv, history
<1>1. KeyOrder
  BY DEF KeyInv, TransmitterFile
<1>2. UNCHANGED <<loader, queue, now, last_release_time>> /\ Newest' = Newest
  BY DEF TransmitterFile, loading, identity, outside, Newest
<1>3. Retired /\ ~ Retired'
  BY LoaderAssumption DEF TransmitterFile, TypeInv, TransmitterHands, Retired, Messages
<1>4. sent_map' = sent_map \cup {Key(transmitter.message)}
  BY DEF TransmitterFile
<1>5. \A k \in sent_map' :
        Given(k) /\ \A i \in 1 .. Len(queue) : Before(k, Key(queue[i]))
  BY <1>1, <1>3, <1>4 DEF KeyOrder
<1> QED
  BY <1>1, <1>2, <1>3, <1>5 DEF KeyOrder, Given, Loaded

LEMMA KeyRestart ==
  ASSUME Restart, TypeInv
  PROVE  KeyInv'
<1> SUFFICES KeyOrder'
    BY DEF KeyInv
<1>1. ~ Retired'
  BY LoaderAssumption DEF Restart, TransmitterStart, Retired, Messages
<1>2. sent_map' = {} /\ Len(queue') = 0
  BY DEF Restart
<1>3. last_release_time' <= now' /\ ~ Loaded'
  BY DEF Restart, LoaderStart, TypeInv, TypeOK, Loaded
<1> QED
  BY <1>1, <1>2, <1>3 DEF KeyOrder

LEMMA KeyStep == TypeInv /\ TypeInv' /\ KeyInv /\ [Next]_vars => KeyInv'
<1> SUFFICES ASSUME TypeInv, TypeInv', KeyInv, [Next]_vars PROVE KeyInv'
    OBVIOUS
<1> DEFINE Frame ==
             /\ UNCHANGED <<last_release_time, last_id, queue, sent_map, stepped>>
             /\ loader'.message = loader.message
             /\ transmitter'.message = transmitter.message
             /\ now' >= now /\ now' \in Nat
             /\ Loaded' <=> Loaded
<1>1. TypeOK /\ now \in Nat /\ (~ Loaded => loader.message = NoMessage)
  BY DEF TypeInv, TypeOK, LoaderHands
<1>2. Frame => KeyInv'
  BY <1>1, KeyFrame
<1>3. CASE UNCHANGED vars
  BY <1>1, <1>2, <1>3 DEF vars, loading, identity, sending, outside, history, Loaded
<1>4. CASE (\E n \in Names, text \in Texts : Drop(n, text)) \/ Tick
  BY <1>1, <1>2, <1>4 DEF Drop, Tick, loading, identity, sending, history, Loaded
<1>5. CASE Signalled
  <2>1. \/ loader' = loader
        \/ loader.pc = "asleep" /\ LoaderGoto("lock")
    BY <1>5, SignalDoes DEF Heard
  <2>2. loader'.message = loader.message /\ (Loaded' <=> Loaded)
    BY <2>1 DEF LoaderGoto, Loaded
  <2> QED
    BY <1>1, <1>2, <1>5, <2>2, SignalDoes DEF identity, sending
<1>6. CASE StepBack
  BY <1>6 DEF StepBack, KeyInv
<1>7. CASE Restart
  BY <1>7, KeyRestart
<1>8. CASE LoaderThread /\ ~ LoaderRead /\ ~ LoaderReadFails /\ ~ LoaderAppend
  <2>1. CASE LoaderLock \/ LoaderSleep \/ LoaderTake \/ LoaderOpenDir
    BY <1>1, <1>2, <2>1
       DEF LoaderLock, LoaderSleep, LoaderTake, LoaderOpenDir, LoaderGoto, identity, sending, outside,
           history, Loaded
  <2>2. ASSUME NEW n \in Names, LoaderReadDir(n)
        PROVE  KeyInv'
    BY <1>1, <1>2, <2>2
       DEF LoaderReadDir, identity, sending, outside, history, TypeInv, LoaderHands, Loaded
  <2>3. CASE LoaderAccess \/ LoaderCreat \/ LoaderCloseDir
    BY <1>1, <1>2, <2>3
       DEF LoaderAccess, LoaderCreat, LoaderCloseDir, LoaderGoto, identity, sending, outside, history,
           Loaded
  <2>4. CASE LoaderSkip
    BY <1>1, <1>2, <2>4 DEF LoaderSkip, identity, sending, outside, history, Loaded
  <2>5. CASE LoaderError
    BY <1>1, <1>2, <2>5 DEF LoaderError, LoaderGoto, identity, sending, outside, Loaded
  <2>6. CASE LoaderLog
    BY <1>1, <1>2, <2>6 DEF LoaderLog, LoaderGoto, identity, sending, outside, history, Loaded
  <2> QED
    BY <1>8, <2>1, <2>2, <2>3, <2>4, <2>5, <2>6 DEF LoaderThread
<1>9. CASE TransmissionThread /\ ~ TransmitterRetire /\ ~ TransmitterFile
  BY <1>1, <1>2, <1>9
     DEF TransmissionThread, TransmitterTake, TransmitterHalts, TransmitterDest, TransmitterCopy,
         TransmitterLog, TransmitterRemove, TransmitterGoto, loading, identity, sending, outside,
         history, Loaded
<1> QED
  BY <1>3, <1>4, <1>5, <1>6, <1>7, <1>8, <1>9, ReadsIs, KeyRead, KeyAppend, KeyRetire, KeyFile
  DEF Next, Signalled, LoaderThread, TransmissionThread

LEMMA KeyAlways == Spec => []KeyInv
  BY TypeAlways, KeyInit, KeyStep, PTL DEF Spec

\* For any files, bounds and interleaving: while the clock is not set back, no
\* two messages of one run of the server have the same key.
THEOREM KeysNeverRepeat == Spec => []KeysUnique
<1>1. TypeInv /\ KeyInv => KeysUnique
  <2> SUFFICES ASSUME TypeInv, KeyInv, ~ stepped PROVE KeysUnique
      BY DEF KeysUnique
  <2>1. KeyOrder
    BY DEF KeyInv
  <2>2. /\ InHand(transmitter) => Retired
        /\ InHand(loader) => Loaded
    BY DEF TypeInv, TypeOK, LoaderHands, InHand, Retired
  <2>3. \A k \in Nat \X Nat : ~ Before(k, k)
    BY BeforeOrders
  <2>4. \A i, j \in 1 .. Len(queue) : Key(queue[i]) = Key(queue[j]) => i = j
    <3> SUFFICES ASSUME NEW i \in 1 .. Len(queue), NEW j \in 1 .. Len(queue),
                        Key(queue[i]) = Key(queue[j]), i # j
                 PROVE  FALSE
        OBVIOUS
    <3>1. Key(queue[i]) \in Nat \X Nat
      BY KeyTypes DEF TypeInv
    <3>2. i < j \/ j < i
      OBVIOUS
    <3> QED
      BY <2>1, <2>3, <3>1, <3>2 DEF KeyOrder
  <2>5. /\ \A i \in 1 .. Len(queue) : Key(queue[i]) \notin sent_map
        /\ InHand(transmitter) =>
             /\ \A i \in 1 .. Len(queue) : Key(queue[i]) # Key(transmitter.message)
             /\ Key(transmitter.message) \notin sent_map
    BY <2>1, <2>2, <2>3, KeyTypes DEF KeyOrder, TypeInv
  <2>6. InHand(loader) =>
          /\ \A i \in 1 .. Len(queue) : Key(queue[i]) # Key(loader.message)
          /\ Key(loader.message) \notin sent_map
          /\ InHand(transmitter) => Key(loader.message) # Key(transmitter.message)
    BY <2>1, <2>2, <2>3, KeyTypes DEF KeyOrder, TypeInv, Given
  <2> QED
    BY <2>4, <2>5, <2>6 DEF KeysUnique
<1> QED
  BY <1>1, TypeAlways, KeyAlways, PTL

-----------------------------------------------------------------------------
LEMMA DiskInit == Init => DiskInv
<1> SUFFICES ASSUME Init PROVE DiskInv
    OBVIOUS
<1>1. /\ Len(queue) = 0 /\ ~ Retired /\ ~ Loaded
      /\ loader.pc = "lock" /\ transmitter.pc = "idle"
  BY LoaderAssumption DEF Init, LoaderStart, TransmitterStart, Retired, Loaded
<1>2. /\ \A n \in Names : new_messages[n] = Absent /\ Len(sent_messages[n]) = 0
      /\ \A text \in Texts : dropped[text] = NoName
      /\ todo = {} /\ maybe = {}
  BY DEF Init
<1>3. NamesKept
  BY <1>1, <1>2, LoaderAssumption DEF NamesKept, Present
<1>4. StepsInOrder
  BY <1>1 DEF StepsInOrder
<1>5. NothingLost
  BY <1>2 DEF NothingLost
<1>6. ArchivedWasSent
  BY <1>2 DEF ArchivedWasSent, Archived
<1> QED
  BY <1>3, <1>4, <1>5, <1>6 DEF DiskInv

\* Only a user drops.
LEMMA DroppedStep ==
  ASSUME [Next]_vars
  PROVE  UNCHANGED dropped \/ \E n \in Names, text \in Texts : Drop(n, text)
<1>1. Signalled => UNCHANGED dropped
  BY SignalDoes
<1>2. LoaderThread => UNCHANGED dropped
  BY DEF LoaderThread, LoaderLock, LoaderSleep, LoaderTake, LoaderOpenDir, LoaderReadDir,
         LoaderAccess, LoaderCreat, LoaderSkip, LoaderRead, LoaderReadFails, LoaderAppend,
         LoaderLog, LoaderCloseDir, LoaderError, history
<1>3. TransmissionThread => UNCHANGED dropped
  BY DEF TransmissionThread, TransmitterTake, TransmitterRetire, TransmitterHalts,
         TransmitterDest, TransmitterCopy, TransmitterLog, TransmitterRemove, TransmitterFile,
         history
<1>4. Tick \/ StepBack \/ Restart \/ UNCHANGED vars => UNCHANGED dropped
  BY DEF Tick, StepBack, Restart, history, vars
<1> QED
  BY <1>1, <1>2, <1>3, <1>4 DEF Next, Signalled

\* A name in use stays known, and one used twice stays so.
LEMMA DroppedStays ==
  ASSUME TypeInv, [Next]_vars
  PROVE  /\ \A text \in Texts : dropped[text] # NoName => dropped'[text] = dropped[text]
         /\ \A n \in Names : Known(n) => Known(n)'
         /\ Reused => Reused'
<1>1. \A text \in Texts : dropped[text] # NoName => dropped'[text] = dropped[text]
  <2>1. CASE \E n \in Names, text \in Texts : Drop(n, text)
    BY <2>1 DEF Drop, TypeInv, TypeOK
  <2>2. CASE UNCHANGED dropped
    BY <2>2
  <2> QED
    BY <2>1, <2>2, DroppedStep
<1>2. \A n \in Names : Known(n) => Known(n)'
  BY <1>1, LoaderAssumption DEF Known
<1>3. Reused => Reused'
  BY <1>1 DEF Reused
<1> QED
  BY <1>1, <1>2, <1>3

LEMMA NamesOutside ==
  ASSUME TypeInv, NamesKept,
         \/ \E n \in Names, text \in Texts : Drop(n, text)
         \/ Restart
  PROVE  NamesKept'
<1> USE LoaderAssumption DEF TypeInv, TypeOK, LoaderHands
<1>1. ASSUME NEW n \in Names, NEW text \in Texts, Drop(n, text)
      PROVE  NamesKept'
  <2>1. /\ dropped[text] = NoName
        /\ new_messages' = [new_messages EXCEPT ![n] = text]
        /\ dropped' = [dropped EXCEPT ![text] = n]
        /\ todo' = todo /\ maybe' \subseteq maybe \cup {n}
        /\ UNCHANGED <<loader, queue, transmitter, transmitted, cut>>
    BY <1>1 DEF Drop, Appear, sending
  <2>2. \A other \in Texts : dropped[other] # NoName => dropped'[other] = dropped[other]
    BY <2>1
  <2>3. \A m \in Names : Known(m) \/ m = n => Known(m)'
    BY <2>1, <2>2 DEF Known
  <2>4. \A m \in Names : new_messages'[m] \in Texts => dropped'[new_messages'[m]] = m
    BY <2>1, <2>2 DEF NamesKept
  <2>5. \A m \in Present' \cup todo' \cup maybe' : Known(m)'
    BY <2>1, <2>3 DEF NamesKept, Present
  <2>6. loader'.pc \in {"access", "creat", "open"} => Known(loader.name)'
    BY <2>1, <2>3 DEF NamesKept, Known
  <2>7. Loaded' => dropped'[loader'.message.text] = loader'.message.name
    BY <2>1, <2>2 DEF NamesKept, Messages, Loaded
  <2>8. \A i \in 1 .. Len(queue') : dropped'[queue'[i].text] = queue'[i].name
    <3> SUFFICES ASSUME NEW i \in 1 .. Len(queue)
                 PROVE  dropped'[queue[i].text] = queue[i].name
        BY <2>1
    <3>1. queue[i].text \in Texts /\ queue[i].name # NoName
      <4>1. queue[i] \in Messages
        BY KeyTypes
      <4> QED
        BY ONLY <4>1, LoaderAssumption DEF Messages
    <3>2. dropped[queue[i].text] = queue[i].name
      BY DEF NamesKept
    <3> QED
      BY ONLY <2>2, <3>1, <3>2
  <2>9. Retired' => /\ dropped'[transmitter'.message.text] = transmitter'.message.name
                    /\ transmitter'.message.text \in Sent'
    BY <2>1, <2>2 DEF NamesKept, Messages, Retired, Sent
  <2> QED
    BY <2>4, <2>5, <2>6, <2>7, <2>8, <2>9 DEF NamesKept, Known
<1>2. CASE Restart
  <2>1. /\ Len(queue') = 0 /\ ~ Retired' /\ ~ Loaded' /\ loader'.pc = "lock"
        /\ todo' = {} /\ maybe' = {}
    BY <1>2 DEF Restart, LoaderStart, TransmitterStart, Retired, Messages, Loaded
  <2>2. UNCHANGED <<new_messages, dropped>>
    BY <1>2 DEF Restart, disk
  <2> QED
    BY <2>1, <2>2 DEF NamesKept, Present, Known
<1> QED
  BY <1>1, <1>2

\* A step that moves no file and no message.
LEMMA NamesFrame ==
  ASSUME NamesKept, UNCHANGED <<new_messages, dropped, queue, transmitted, cut>>,
         transmitter'.message = transmitter.message,
         todo' \cup maybe' \subseteq Present \cup todo \cup maybe,
         loader'.pc \in {"access", "creat", "open"} => Known(loader'.name),
         Loaded' => dropped[loader'.message.text] = loader'.message.name
  PROVE  NamesKept'
<1>1. \A n \in Present' \cup todo' \cup maybe' : Known(n)
  BY DEF NamesKept, Present
<1> QED
  BY <1>1 DEF NamesKept, Known, Retired, Messages, Sent

LEMMA NamesLoader ==
  ASSUME TypeInv, NamesKept, LoaderThread
  PROVE  NamesKept'
<1> USE LoaderAssumption DEF LoaderGoto, Loaded, disk, identity, sending, history
<1>1. CASE LoaderLock \/ LoaderSleep \/ LoaderTake
  BY <1>1, NamesFrame DEF LoaderLock, LoaderSleep, LoaderTake, NamesKept
<1>2. CASE LoaderOpenDir
  BY <1>2, NamesFrame DEF LoaderOpenDir, NamesKept
<1>3. ASSUME NEW n \in Names, LoaderReadDir(n)
      PROVE  NamesKept'
  <2>1. loader'.pc = "access" /\ loader'.name = n /\ Known(n)
    BY <1>3 DEF LoaderReadDir, NamesKept
  <2> QED
    BY <1>3, <2>1, NamesFrame DEF LoaderReadDir
<1>4. CASE LoaderAccess
  <2>1. loader'.name = loader.name /\ Known(loader.name) /\ ~ Loaded'
    BY <1>4 DEF LoaderAccess, NamesKept
  <2> QED
    BY <1>4, <2>1, NamesFrame DEF LoaderAccess
<1>5. CASE LoaderCreat
  <2>1. /\ loader.name \in Names /\ Known(loader.name)
        /\ new_messages' = [new_messages EXCEPT ![loader.name] = Empty]
        /\ todo' = todo /\ maybe' \subseteq maybe \cup {loader.name}
        /\ loader'.pc = "open" /\ loader'.name = loader.name
        /\ UNCHANGED <<dropped, queue, transmitter, transmitted, cut>>
    BY <1>5 DEF LoaderCreat, Appear, NamesKept, TypeInv, LoaderHands
  <2>2. \A n \in Names : new_messages'[n] \in Texts => dropped[new_messages'[n]] = n
    BY <2>1 DEF NamesKept, TypeInv, TypeOK
  <2>3. \A n \in Present' \cup todo' \cup maybe' : Known(n)
    BY <2>1 DEF NamesKept, Present, TypeInv, TypeOK
  <2> QED
    BY <2>1, <2>2, <2>3 DEF NamesKept, Known, Retired, Messages, Sent
<1>6. CASE LoaderSkip
  BY <1>6, NamesFrame DEF LoaderSkip, NamesKept
<1>7. ASSUME NEW pc \in {"report", "append"}, NEW whole \in BOOLEAN, LoaderReads(pc, whole)
      PROVE  NamesKept'
  <2>1. /\ loader'.pc = pc
        /\ loader'.message.name = loader.name
        /\ loader'.message.text = new_messages[loader.name]
    BY <1>7 DEF LoaderReads, Message
  <2>2. dropped[new_messages[loader.name]] = loader.name
    BY <1>7 DEF LoaderReads, NamesKept, TypeInv, LoaderHands
  <2> QED
    BY <1>7, <2>1, <2>2, NamesFrame DEF LoaderReads
<1>8. CASE LoaderAppend
  <2>1. /\ queue \in Seq(Messages) /\ queue' = Append(queue, loader.message)
        /\ dropped[loader.message.text] = loader.message.name
        /\ loader'.pc = "log"
        /\ UNCHANGED <<new_messages, dropped, todo, maybe, transmitter, transmitted, cut>>
    BY <1>8 DEF LoaderAppend, NamesKept, TypeInv, TypeOK
  <2>2. \A i \in 1 .. Len(queue') :
          \/ i \in 1 .. Len(queue) /\ queue'[i] = queue[i]
          \/ queue'[i] = loader.message
    BY <1>8, <2>1 DEF LoaderAppend, TypeInv, LoaderHands
  <2>3. \A i \in 1 .. Len(queue') : dropped[queue'[i].text] = queue'[i].name
    BY <2>1, <2>2 DEF NamesKept
  <2> QED
    BY <2>1, <2>3 DEF NamesKept, Known, Present, Retired, Messages, Sent
<1>9. CASE LoaderCloseDir \/ LoaderError
  BY <1>9, NamesFrame DEF LoaderCloseDir, LoaderError, NamesKept
<1>10. CASE LoaderLog
  BY <1>10, NamesFrame DEF LoaderLog, NamesKept
<1> QED
  BY <1>1, <1>2, <1>3, <1>4, <1>5, <1>6, <1>7, <1>8, <1>9, <1>10, ReadsIs DEF LoaderThread

LEMMA NamesTransmitter ==
  ASSUME TypeInv, NamesKept, TransmissionThread
  PROVE  NamesKept'
<1> USE LoaderAssumption DEF TransmitterGoto, Loaded, disk, loading, history
<1>1. CASE TransmitterTake \/ TransmitterHalts \/ TransmitterDest \/ TransmitterCopy
           \/ TransmitterLog
  BY <1>1, NamesFrame DEF TransmitterTake, TransmitterHalts, TransmitterDest, TransmitterCopy,
                          TransmitterLog, NamesKept, sending
<1>2. CASE TransmitterRetire
  <2>1. /\ queue \in Seq(Messages) /\ Len(queue) > 0 /\ queue' = Tail(queue)
        /\ transmitter'.message = queue[1] /\ 1 \in 1 .. Len(queue)
        /\ Sent' = Sent \cup {queue[1].text}
        /\ UNCHANGED <<new_messages, dropped, loader, todo, maybe>>
    BY <1>2 DEF TransmitterRetire, TypeInv, TypeOK, TransmitterHands, Sent
  <2>2. \A i \in 1 .. Len(queue') : queue'[i] = queue[i + 1] /\ i + 1 \in 1 .. Len(queue)
    BY <2>1
  <2>3. \A i \in 1 .. Len(queue') : dropped[queue'[i].text] = queue'[i].name
    BY <2>2 DEF NamesKept
  <2>4. /\ dropped[transmitter'.message.text] = transmitter'.message.name
        /\ transmitter'.message.text \in Sent'
    BY <2>1 DEF NamesKept
  <2> QED
    BY <2>1, <2>3, <2>4 DEF NamesKept, Known, Present
<1>3. CASE TransmitterRemove
  <2> DEFINE n == transmitter.message.name
  <2>1. /\ \/ new_messages' = [new_messages EXCEPT ![n] = Absent]
           \/ new_messages' = new_messages
        /\ todo' \cup maybe' \subseteq todo \cup maybe
        /\ transmitter'.message = transmitter.message
        /\ UNCHANGED <<dropped, queue, loader, transmitted, cut>>
    BY <1>3 DEF TransmitterRemove, Disappear
  <2>2. \A m \in Names : new_messages'[m] = new_messages[m] \/ new_messages'[m] = Absent
    BY <2>1 DEF TypeInv, TypeOK
  <2>3. \A m \in Names : new_messages'[m] \in Texts => dropped[new_messages'[m]] = m
    BY <2>2 DEF NamesKept
  <2>4. \A m \in Present' \cup todo' \cup maybe' : Known(m)
    BY <2>1, <2>2 DEF NamesKept, Present
  <2> HIDE DEF n
  <2> QED
    BY <2>1, <2>3, <2>4 DEF NamesKept, Known, Retired, Messages, Sent
<1>4. CASE TransmitterFile
  <2>1. ~ Retired'
    BY <1>4 DEF TransmitterFile, Retired, Messages
  <2> QED
    BY <1>4, <2>1 DEF TransmitterFile, NamesKept, Known, Present
<1> QED
  BY <1>1, <1>2, <1>3, <1>4 DEF TransmissionThread

LEMMA NamesStep == TypeInv /\ NamesKept /\ [Next]_vars => NamesKept'
<1> SUFFICES ASSUME TypeInv, NamesKept, [Next]_vars PROVE NamesKept'
    OBVIOUS
<1>1. CASE UNCHANGED vars
  BY <1>1, NamesFrame DEF vars, disk, loading, sending, history, NamesKept, Loaded
<1>2. CASE Tick \/ StepBack
  BY <1>2, NamesFrame DEF Tick, StepBack, disk, loading, sending, history, NamesKept, Loaded
<1>3. CASE Signalled
  <2>1. \/ loader' = loader
        \/ loader.pc = "asleep" /\ LoaderGoto("lock")
    BY <1>3, SignalDoes DEF Heard
  <2> QED
    BY <1>3, <2>1, SignalDoes, NamesFrame DEF LoaderGoto, Loaded, disk, sending, NamesKept
<1> QED
  BY <1>1, <1>2, <1>3, NamesOutside, NamesLoader, NamesTransmitter DEF Next, Signalled

\* Two texts in play under one name are one text, if no name is used twice.
LEMMA OneText ==
  ASSUME TypeInv, ~ Reused, NEW a \in Texts, NEW b \in Texts,
         dropped[a] = dropped[b], dropped[a] \in Names
  PROVE  a = b
  BY LoaderAssumption DEF Reused

\* A user's file under a name that was in use is a second text of that name.
LEMMA DropReuses ==
  ASSUME TypeInv, NEW n \in Names, NEW text \in Texts, Drop(n, text), Known(n)
  PROVE  Reused'
<1>1. PICK other \in Texts : dropped[other] = n
  BY DEF Known
<1>2. dropped[text] = NoName /\ dropped' = [dropped EXCEPT ![text] = n]
  BY DEF Drop
<1>3. other # text /\ dropped'[other] = n /\ dropped'[text] = n /\ n # NoName
  BY <1>1, <1>2, LoaderAssumption DEF TypeInv, TypeOK
<1> QED
  BY <1>3 DEF Reused

\* Which steps write the directory of new messages, and how.
LEMMA NewMessagesStep ==
  ASSUME TypeInv, [Next]_vars
  PROVE  \/ UNCHANGED new_messages
         \/ \E n \in Names, text \in Texts : Drop(n, text)
         \/ LoaderCreat
         \/ TransmitterRemove
<1>1. Signalled => UNCHANGED new_messages
  BY SignalDoes DEF disk
<1>2. LoaderThread => UNCHANGED new_messages \/ LoaderCreat
  BY DEF LoaderThread, LoaderLock, LoaderSleep, LoaderTake, LoaderOpenDir, LoaderReadDir,
         LoaderAccess, LoaderSkip, LoaderRead, LoaderReadFails, LoaderAppend, LoaderLog,
         LoaderCloseDir, LoaderError, disk
<1>3. TransmissionThread => UNCHANGED new_messages \/ TransmitterRemove
  BY DEF TransmissionThread, TransmitterTake, TransmitterRetire, TransmitterHalts,
         TransmitterDest, TransmitterCopy, TransmitterLog, TransmitterFile, disk
<1>4. Tick \/ StepBack \/ Restart \/ UNCHANGED vars => UNCHANGED new_messages
  BY DEF Tick, StepBack, Restart, disk, vars
<1> QED
  BY <1>1, <1>2, <1>3, <1>4 DEF Next, Signalled

\* And that of sent messages.
LEMMA SentMessagesStep ==
  ASSUME TypeInv, [Next]_vars
  PROVE  UNCHANGED sent_messages \/ TransmitterDest \/ TransmitterCopy
<1>1. Signalled => UNCHANGED sent_messages
  BY SignalDoes DEF disk
<1>2. LoaderThread => UNCHANGED sent_messages
  BY DEF LoaderThread, LoaderLock, LoaderSleep, LoaderTake, LoaderOpenDir, LoaderReadDir,
         LoaderAccess, LoaderCreat, LoaderSkip, LoaderRead, LoaderReadFails, LoaderAppend,
         LoaderLog, LoaderCloseDir, LoaderError, disk
<1>3. TransmissionThread => UNCHANGED sent_messages \/ TransmitterDest \/ TransmitterCopy
  BY DEF TransmissionThread, TransmitterTake, TransmitterRetire, TransmitterHalts,
         TransmitterLog, TransmitterRemove, TransmitterFile, disk
<1>4. (\E n \in Names, text \in Texts : Drop(n, text)) \/ Tick \/ StepBack \/ Restart
        \/ UNCHANGED vars => UNCHANGED sent_messages
  BY DEF Drop, Tick, StepBack, Restart, disk, vars
<1> QED
  BY <1>1, <1>2, <1>3, <1>4 DEF Next, Signalled

\* Nothing that was archived is overwritten.
LEMMA ArchiveStays ==
  ASSUME TypeInv, [Next]_vars, transmitter.pc = "copy" => StepsInOrder,
         NEW text \in Texts, Archived(text)
  PROVE  Archived(text)'
<1> DEFINE m == transmitter.message.name
<1>1. PICK n \in Names : \E i \in 1 .. Len(sent_messages[n]) : sent_messages[n][i] = text
  BY DEF Archived
<1> PICK i \in 1 .. Len(sent_messages[n]) : sent_messages[n][i] = text
  BY <1>1
<1>2. sent_messages \in [Names -> Seq(Texts \cup {Empty})]
  BY DEF TypeInv, TypeOK
<1>3. CASE UNCHANGED sent_messages
  BY <1>3 DEF Archived
<1>4. CASE TransmitterDest
  <2>1. m \in Names
    BY <1>4 DEF TransmitterDest, TypeInv, TransmitterHands, Messages
  <2>2. CASE sent_messages' = [sent_messages EXCEPT ![m] = Append(@, Empty)]
    <3>1. i \in 1 .. Len(sent_messages'[n]) /\ sent_messages'[n][i] = text
      BY <1>1, <1>2, <2>1, <2>2
    <3> QED
      BY <3>1 DEF Archived
  <2> QED
    BY <1>3, <1>4, <2>2 DEF TransmitterDest, FileNext
<1>5. CASE TransmitterCopy
  <2>1. m \in Names /\ sent_messages[m][Len(sent_messages[m])] = Empty /\ transmitter.pc = "copy"
    BY <1>5 DEF TransmitterCopy, TypeInv, TransmitterHands, Messages, StepsInOrder
  <2>2. CASE sent_messages' =
               [sent_messages EXCEPT ![m][Len(sent_messages[m])] = new_messages[m]]
    <3>1. text # Empty
      BY LoaderAssumption
    <3>2. ~ (n = m /\ i = Len(sent_messages[m]))
      BY <1>1, <2>1, <3>1
    <3>3. Len(sent_messages'[n]) = Len(sent_messages[n]) /\ sent_messages'[n][i] = text
      BY <1>1, <1>2, <2>1, <2>2, <3>2
    <3> QED
      BY <1>1, <3>3 DEF Archived
  <2> QED
    BY <1>3, <1>5, <2>2 DEF TransmitterCopy
<1> QED
  BY <1>3, <1>4, <1>5, SentMessagesStep

\* Where a thread stands before a step that leaves it at one of these places.
LEMMA Arrivals ==
  ASSUME TypeInv, [Next]_vars
  PROVE  /\ loader'.pc = "creat" => LoaderAccess \/ loader' = loader
         /\ transmitter'.pc \in {"copy", "tell", "remove"} =>
              TransmitterDest \/ TransmitterCopy \/ TransmitterLog \/ transmitter' = transmitter
         /\ failed \subseteq failed' /\ Sent \subseteq Sent'
<1> USE DEF Sent, loading, sending, history
<1>1. CASE UNCHANGED vars
  BY <1>1 DEF vars
<1>2. CASE \/ \E n \in Names, text \in Texts : Drop(n, text)
           \/ Tick \/ StepBack \/ Restart
  BY <1>2 DEF Drop, Tick, StepBack, Restart, LoaderStart, TransmitterStart
<1>3. CASE Signalled
  <2>1. loader' = loader \/ LoaderGoto("lock")
    BY <1>3, SignalDoes DEF Heard
  <2>2. UNCHANGED <<transmitter, failed, transmitted, cut>>
    BY <1>3, SignalDoes
  <2> QED
    BY <2>1, <2>2 DEF LoaderGoto
<1>4. CASE LoaderThread /\ ~ LoaderAccess
  <2>1. ASSUME NEW pc \in {"report", "append"}, NEW whole \in BOOLEAN, LoaderReads(pc, whole)
        PROVE  /\ loader'.pc # "creat"
               /\ UNCHANGED <<transmitter, failed, transmitted, cut>>
    BY <2>1 DEF LoaderReads
  <2>2. \/ /\ LoaderThread /\ ~ LoaderAccess
           /\ ~ LoaderRead /\ ~ LoaderReadFails /\ ~ LoaderAppend /\ ~ LoaderError
        \/ LoaderAppend \/ LoaderError
        => /\ loader'.pc # "creat" /\ UNCHANGED <<transmitter, transmitted, cut>>
           /\ failed \subseteq failed'
    BY DEF LoaderThread, LoaderLock, LoaderSleep, LoaderTake, LoaderOpenDir, LoaderReadDir,
           LoaderCreat, LoaderSkip, LoaderAppend, LoaderLog, LoaderCloseDir, LoaderError,
           LoaderGoto
  <2> QED
    BY <1>4, <2>1, <2>2, ReadsIs
<1>5. CASE LoaderAccess
  BY <1>5 DEF LoaderAccess
<1>6. CASE TransmissionThread
  BY <1>6 DEF TransmissionThread, TransmitterTake, TransmitterRetire, TransmitterHalts,
              TransmitterDest, TransmitterCopy, TransmitterLog, TransmitterRemove,
              TransmitterFile, TransmitterGoto
<1> QED
  BY <1>1, <1>2, <1>3, <1>4, <1>5, <1>6 DEF Next, Signalled

LEMMA StepsStep ==
  ASSUME TypeInv, TypeInv', DiskInv, [Next]_vars, ~ Reused'
  PROVE  StepsInOrder'
<1> DEFINE n == transmitter.message.name
<1>1. ~ Reused /\ StepsInOrder /\ NamesKept
  BY DroppedStays DEF DiskInv
<1>2. loader'.pc = "creat" => new_messages'[loader'.name] \notin Texts
  <2>1. CASE LoaderAccess
    BY <2>1, LoaderAssumption DEF LoaderAccess, LoaderGoto, disk, Present, TypeInv, LoaderHands
  <2>2. CASE loader' = loader /\ loader.pc = "creat"
    <3>1. loader.name \in Names /\ Known(loader.name) /\ new_messages[loader.name] \notin Texts
      BY <1>1, <2>2 DEF NamesKept, StepsInOrder, TypeInv, LoaderHands
    <3>2. ASSUME NEW m \in Names, NEW text \in Texts, Drop(m, text)
          PROVE  new_messages'[loader.name] \notin Texts
      <4>1. m # loader.name
        BY <3>1, <3>2, DropReuses
      <4> QED
        BY <3>1, <3>2, <4>1 DEF Drop, TypeInv, TypeOK
    <3>3. ~ LoaderCreat
      BY <2>2 DEF LoaderCreat, LoaderGoto
    <3>4. CASE TransmitterRemove
      <4>1. Absent \notin Texts /\ new_messages \in [Names -> Texts \cup {Empty, Absent}]
        BY LoaderAssumption DEF TypeInv, TypeOK
      <4>2. \/ new_messages' = [new_messages EXCEPT ![n] = Absent]
            \/ new_messages' = new_messages
        BY <3>4 DEF TransmitterRemove
      <4>3. new_messages'[loader.name] \in {Absent, new_messages[loader.name]}
        BY ONLY <3>1, <4>1, <4>2
      <4> QED
        BY ONLY <2>2, <3>1, <4>1, <4>3
    <3> QED
      BY <2>2, <3>1, <3>2, <3>3, <3>4, NewMessagesStep
  <2> QED
    BY <2>1, <2>2, Arrivals
<1>3. ASSUME transmitter' = transmitter \/ TransmitterLog
      PROVE  UNCHANGED sent_messages \/ transmitter.pc \notin {"copy", "tell", "remove"}
  BY <1>3, SentMessagesStep DEF TransmitterDest, TransmitterCopy, TransmitterGoto, TransmitterLog, disk
<1>4. transmitter'.pc = "copy" =>
        sent_messages'[transmitter'.message.name]
          [Len(sent_messages'[transmitter'.message.name])] = Empty
  <2>1. CASE TransmitterDest /\ transmitter'.pc = "copy"
    <3>1. n \in Names /\ transmitter'.message = transmitter.message
      BY <2>1 DEF TransmitterDest, TransmitterGoto, TypeInv, TransmitterHands, Messages
    <3>2. sent_messages' = [sent_messages EXCEPT ![n] = Append(@, Empty)]
      BY <2>1 DEF TransmitterDest, TransmitterGoto, FileNext
    <3>3. sent_messages[n] \in Seq(Texts \cup {Empty})
      BY <3>1 DEF TypeInv, TypeOK
    <3>4. sent_messages'[n] = Append(sent_messages[n], Empty)
      <4>1. DOMAIN sent_messages = Names
        BY DEF TypeInv, TypeOK
      <4> QED
        BY ONLY <3>1, <3>2, <4>1
    <3> QED
      BY <3>1, <3>3, <3>4
  <2>2. CASE TransmitterCopy
    BY <2>2 DEF TransmitterCopy, TransmitterGoto
  <2>3. CASE transmitter' = transmitter /\ transmitter.pc = "copy"
    BY <1>1, <1>3, <2>3 DEF StepsInOrder
  <2>4. CASE TransmitterLog
    BY <2>4 DEF TransmitterLog, TransmitterGoto
  <2> QED
    BY <2>1, <2>2, <2>3, <2>4, Arrivals
<1>5. ASSUME transmitter'.pc \in {"tell", "remove"}, "copy" \notin failed',
             new_messages'[transmitter'.message.name] \in Texts
      PROVE  Archived(new_messages[transmitter.message.name])'
  <2>1. CASE TransmitterDest
    BY <1>5, <2>1 DEF TransmitterDest, TransmitterGoto
  <2>2. CASE TransmitterCopy
    <3>1. /\ n \in Names /\ transmitter'.message = transmitter.message
          /\ new_messages' = new_messages /\ Len(sent_messages[n]) > 0
      BY <2>2 DEF TransmitterCopy, TransmitterGoto, TypeInv, TransmitterHands, Messages
    <3>2. n \in Present
      BY <1>5, <3>1, LoaderAssumption DEF Present
    <3>3. sent_messages' = [sent_messages EXCEPT ![n][Len(sent_messages[n])] = new_messages[n]]
      BY <1>5, <2>2, <3>2 DEF TransmitterCopy
    <3>4. sent_messages[n] \in Seq(Texts \cup {Empty})
      BY <3>1 DEF TypeInv, TypeOK
    <3>5. sent_messages'[n] = [sent_messages[n] EXCEPT ![Len(sent_messages[n])] = new_messages[n]]
      <4>1. DOMAIN sent_messages = Names
        BY DEF TypeInv, TypeOK
      <4> QED
        BY ONLY <3>1, <3>3, <4>1
    <3>6. /\ Len(sent_messages'[n]) = Len(sent_messages[n])
          /\ Len(sent_messages[n]) \in 1 .. Len(sent_messages[n])
          /\ sent_messages'[n][Len(sent_messages[n])] = new_messages[n]
      BY <3>1, <3>4, <3>5
    <3> QED
      BY <3>1, <3>6 DEF Archived
  <2>3. CASE transmitter' = transmitter \/ TransmitterLog
    <3>0. transmitter'.message = transmitter.message /\ transmitter.pc \in {"tell", "remove"}
      BY <1>5, <2>3 DEF TransmitterLog, TransmitterGoto
    <3>1. /\ n \in Names /\ Known(n) /\ "copy" \notin failed
          /\ new_messages[n] \in Texts => Archived(new_messages[n])
      BY <1>1, <1>5, <3>0, Arrivals
      DEF NamesKept, StepsInOrder, TypeInv, TransmitterHands, Messages, Retired, Known
    <3>2. UNCHANGED sent_messages
      BY <1>3, <2>3, <3>0
    <3>3. new_messages'[n] = new_messages[n]
      <4>1. ASSUME NEW m \in Names, NEW text \in Texts, Drop(m, text)
            PROVE  new_messages'[n] = new_messages[n]
        <5>1. m # n
          BY <3>1, <4>1, DropReuses
        <5>2. DOMAIN new_messages = Names
          BY DEF TypeInv, TypeOK
        <5>3. new_messages' = [new_messages EXCEPT ![m] = text]
          BY <4>1 DEF Drop
        <5> QED
          BY ONLY <3>1, <5>1, <5>2, <5>3
      <4>2. CASE LoaderCreat
        BY <1>5, <3>0, <3>1, <4>2, LoaderAssumption DEF LoaderCreat, TypeInv, TypeOK
      <4>3. ~ TransmitterRemove
        BY <1>5, <2>3 DEF TransmitterRemove, TransmitterGoto, TransmitterLog
      <4> QED
        BY <4>1, <4>2, <4>3, NewMessagesStep
    <3> QED
      BY <1>5, <3>0, <3>1, <3>2, <3>3 DEF Archived
  <2> QED
    BY <1>5, <2>1, <2>2, <2>3, Arrivals
<1> QED
  BY <1>2, <1>4, <1>5 DEF StepsInOrder

LEMMA LostStep ==
  ASSUME TypeInv, DiskInv, [Next]_vars
  PROVE  NothingLost'
<1> SUFFICES ASSUME ~ Reused', "copy" \notin failed',
                    NEW text \in Texts, dropped'[text] # NoName
             PROVE  Waiting(text)' \/ Archived(text)'
    BY DEF NothingLost
<1>1. ~ Reused /\ StepsInOrder /\ NamesKept /\ NothingLost /\ "copy" \notin failed
  BY DroppedStays, Arrivals DEF DiskInv
<1>2. CASE Archived(text)
  BY <1>1, <1>2, ArchiveStays
<1>3. CASE dropped[text] = NoName
  <2>1. PICK n \in Names : new_messages'[n] = text
    <3>1. PICK n \in Names, other \in Texts : Drop(n, other)
      BY <1>3, DroppedStep
    <3>2. other = text /\ new_messages' = [new_messages EXCEPT ![n] = other]
      BY <1>3, <3>1 DEF Drop, TypeInv, TypeOK
    <3> QED
      BY <3>2 DEF TypeInv, TypeOK
  <2> QED
    BY <2>1 DEF Waiting
<1>4. CASE Waiting(text)
  <2>1. PICK n \in Names : new_messages[n] = text
    BY <1>4 DEF Waiting
  <2>2. CASE UNCHANGED new_messages
    BY <2>1, <2>2 DEF Waiting
  <2>3. ASSUME NEW m \in Names, NEW other \in Texts, Drop(m, other)
        PROVE  Waiting(text)'
    <3>1. m # n
      BY <2>1, <2>3, LoaderAssumption DEF Drop
    <3>2. new_messages'[n] = text
      BY <2>1, <2>3, <3>1 DEF Drop, TypeInv, TypeOK
    <3> QED
      BY <3>2 DEF Waiting
  <2>4. CASE LoaderCreat
    <3>1. n # loader.name
      BY <1>1, <2>1, <2>4 DEF LoaderCreat, StepsInOrder
    <3>2. new_messages'[n] = text
      BY <2>1, <2>4, <3>1 DEF LoaderCreat, TypeInv, TypeOK
    <3> QED
      BY <3>2 DEF Waiting
  <2>5. CASE TransmitterRemove
    <3>1. CASE n = transmitter.message.name
      <4>1. Archived(text)
        BY <1>1, <2>1, <2>5, <3>1 DEF TransmitterRemove, StepsInOrder
      <4> QED
        BY <1>1, <4>1, ArchiveStays
    <3>2. CASE n # transmitter.message.name
      <4>1. new_messages'[n] = text
        BY <2>1, <2>5, <3>2 DEF TransmitterRemove, TypeInv, TypeOK
      <4> QED
        BY <4>1 DEF Waiting
    <3> QED
      BY <3>1, <3>2
  <2> QED
    BY <2>2, <2>3, <2>4, <2>5, NewMessagesStep
<1> QED
  BY <1>1, <1>2, <1>3, <1>4 DEF NothingLost

LEMMA SentStep ==
  ASSUME TypeInv, DiskInv, [Next]_vars
  PROVE  ArchivedWasSent'
<1> SUFFICES ASSUME ~ Reused', NEW text \in Texts, Archived(text)'
             PROVE  text \in Sent'
    BY DEF ArchivedWasSent
<1> DEFINE m == transmitter.message.name
<1>1. ~ Reused /\ NamesKept
  BY DroppedStays DEF DiskInv
<1>2. Archived(text) => text \in Sent'
  BY <1>1, Arrivals DEF DiskInv, ArchivedWasSent
<1>3. CASE UNCHANGED sent_messages
  BY <1>2, <1>3 DEF Archived
<1>4. PICK n \in Names : \E i \in 1 .. Len(sent_messages'[n]) : sent_messages'[n][i] = text
  BY DEF Archived
<1>5. PICK i \in 1 .. Len(sent_messages'[n]) : sent_messages'[n][i] = text
  BY <1>4
<1>6. text # Empty /\ sent_messages \in [Names -> Seq(Texts \cup {Empty})]
  BY LoaderAssumption DEF TypeInv, TypeOK
<1>7. CASE TransmitterDest /\ sent_messages' = [sent_messages EXCEPT ![m] = Append(@, Empty)]
  <2>1. m \in Names
    BY <1>7 DEF TransmitterDest, TypeInv, TransmitterHands, Messages
  <2>2. CASE n = m
    <3>1. sent_messages[m] \in Seq(Texts \cup {Empty})
      BY <1>6, <2>1
    <3>2. sent_messages'[n] = Append(sent_messages[m], Empty)
      BY <1>6, <1>7, <2>1, <2>2
    <3>3. i \in 1 .. Len(sent_messages[m]) /\ sent_messages[m][i] = text
      BY <1>5, <1>6, <3>1, <3>2
    <3> QED
      BY <1>2, <2>1, <3>3 DEF Archived
  <2>3. CASE n # m
    <3>1. sent_messages'[n] = sent_messages[n]
      BY <1>6, <1>7, <2>3
    <3> QED
      BY <1>2, <1>5, <3>1 DEF Archived
  <2> QED
    BY <2>2, <2>3
<1>8. CASE /\ TransmitterCopy
           /\ m \in Present
           /\ sent_messages' = [sent_messages EXCEPT ![m][Len(sent_messages[m])] = new_messages[m]]
  <2>1. m \in Names /\ transmitter.message \in Messages
    BY <1>8 DEF TransmitterCopy, TypeInv, TransmitterHands, Messages
  <2>2. CASE n = m /\ i = Len(sent_messages[m])
    <3>1. new_messages[m] = text
      BY <1>5, <1>6, <1>8, <2>1, <2>2
    <3>2. dropped[text] = m /\ dropped[transmitter.message.text] = m
      BY <1>1, <2>1, <3>1 DEF NamesKept, Retired
    <3>3. text = transmitter.message.text
      BY <1>1, <2>1, <3>2, OneText DEF Messages
    <3> QED
      BY <1>1, <2>1, <3>3, Arrivals DEF NamesKept, Retired
  <2>3. CASE ~ (n = m /\ i = Len(sent_messages[m]))
    <3>1. sent_messages'[n][i] = sent_messages[n][i] /\ i \in 1 .. Len(sent_messages[n])
      BY <1>5, <1>6, <1>8, <2>1, <2>3
    <3> QED
      BY <1>2, <1>5, <3>1 DEF Archived
  <2> QED
    BY <2>2, <2>3
<1> QED
  BY <1>3, <1>7, <1>8, SentMessagesStep DEF TransmitterDest, TransmitterCopy, FileNext

LEMMA DiskStep == TypeInv /\ TypeInv' /\ DiskInv /\ [Next]_vars => DiskInv'
  BY NamesStep, StepsStep, LostStep, SentStep DEF DiskInv

LEMMA DiskAlways == Spec => []DiskInv
  BY TypeAlways, DiskInit, DiskStep, PTL DEF Spec

\* However many files, SIGHUPs, restarts and failures there are: while no name
\* serves two texts and no copy fails, a dropped text is whole in one of the two
\* directories.
THEOREM NoFileLost == Spec => []NothingLost
<1>1. DiskInv => NothingLost
  BY DEF DiskInv
<1> QED
  BY <1>1, DiskAlways, PTL

\* Nothing gets to sent_messages that no round has sent.
THEOREM OnlySentArchived == Spec => []ArchivedWasSent
<1>1. DiskInv => ArchivedWasSent
  BY DEF DiskInv
<1> QED
  BY <1>1, DiskAlways, PTL

-----------------------------------------------------------------------------
\* The places AnnouncedKept lists.
Kept(text) ==
  \/ available
  \/ /\ Waiting(text)
     /\ \/ loader.pc = "opendir"
        \/ dropped[text] \in todo
        \/ loader.pc \in {"access", "open"} /\ loader.name = dropped[text]
  \/ Loaded /\ loader.message.text = text
  \/ \E i \in 1 .. Len(queue) : queue[i].text = text

LEMMA AnnouncedInit == Init => AnnouncedInv
  BY DEF Init, AnnouncedInv, AnnouncedWait, AnnouncedKept

\* A text found by this step was found before, or is found by the handler.
LEMMA AnnouncedStep ==
  ASSUME TypeInv, [Next]_vars, NEW text \in announced'
  PROVE  \/ text \in announced /\ announced' = announced
         \/ Signalled /\ Heard
<1>1. CASE Restart
  BY <1>1 DEF Restart
<1>2. CASE Signalled
  BY <1>2, SignalDoes
<1> QED
  BY <1>1, <1>2
  DEF Next, Signalled, Drop, Tick, StepBack,
      LoaderThread, LoaderLock, LoaderSleep, LoaderTake, LoaderOpenDir, LoaderReadDir,
      LoaderAccess, LoaderCreat, LoaderSkip, LoaderRead, LoaderReadFails, LoaderAppend,
      LoaderLog, LoaderCloseDir, LoaderError, TransmissionThread, TransmitterTake,
      TransmitterRetire, TransmitterHalts, TransmitterDest, TransmitterCopy, TransmitterLog,
      TransmitterRemove, TransmitterFile, history, vars

\* A file is removed when its own text has been sent.
LEMMA WaitingStays ==
  ASSUME TypeInv, DiskInv, [Next]_vars, ~ Reused', NEW text \in Texts,
         Waiting(text), text \notin Sent
  PROVE  /\ Waiting(text)'
         /\ TransmitterRemove => transmitter.message.name # dropped[text]
<1>1. ~ Reused /\ StepsInOrder /\ NamesKept
  BY DroppedStays DEF DiskInv
<1>2. PICK n \in Names : new_messages[n] = text
  BY DEF Waiting
<1>3. dropped[text] = n
  BY <1>1, <1>2 DEF NamesKept
<1>4. ASSUME TransmitterRemove
      PROVE  transmitter.message.name # n
  <2>1. transmitter.message \in Messages
    BY <1>4 DEF TransmitterRemove, TypeInv, TransmitterHands
  <2>2. /\ dropped[transmitter.message.text] = transmitter.message.name
        /\ transmitter.message.text \in Sent /\ transmitter.message.text \in Texts
    BY <1>1, <2>1 DEF NamesKept, Retired, Messages
  <2> QED
    BY <1>1, <1>3, <2>2, OneText
<1>5. new_messages'[n] = text
  <2>1. ASSUME NEW m \in Names, NEW other \in Texts, Drop(m, other)
        PROVE  new_messages'[n] = text
    <3>1. m # n
      BY <1>2, <2>1, LoaderAssumption DEF Drop
    <3> QED
      BY <1>2, <2>1, <3>1 DEF Drop, TypeInv, TypeOK
  <2>2. CASE LoaderCreat
    <3>1. n # loader.name
      BY <1>1, <1>2, <2>2 DEF LoaderCreat, StepsInOrder
    <3> QED
      BY <1>2, <2>2, <3>1 DEF LoaderCreat, TypeInv, TypeOK
  <2>3. CASE TransmitterRemove
    BY <1>2, <1>4, <2>3 DEF TransmitterRemove, TypeInv, TypeOK
  <2> QED
    BY <1>2, <2>1, <2>2, <2>3, NewMessagesStep
<1> QED
  BY <1>3, <1>4, <1>5 DEF Waiting

LEMMA WaitStep ==
  ASSUME TypeInv, DiskInv, AnnouncedInv, [Next]_vars
  PROVE  AnnouncedWait'
<1> SUFFICES ASSUME ~ Reused', NEW text \in announced', text \notin Sent'
             PROVE  Waiting(text)'
    BY DEF AnnouncedWait
<1>1. ~ Reused /\ text \notin Sent
  BY DroppedStays, Arrivals
<1>2. CASE Signalled /\ Heard /\ text \notin announced
  BY <1>2, SignalDoes DEF Heard, Waiting, disk
<1>3. CASE text \in announced
  <2>1. Waiting(text) /\ text \in Texts
    BY <1>1, <1>3 DEF AnnouncedInv, AnnouncedWait, TypeInv, TypeOK
  <2> QED
    BY <1>1, <2>1, WaitingStays
<1> QED
  BY <1>2, <1>3, AnnouncedStep

LEMMA KeptStep ==
  ASSUME TypeInv, TypeInv', DiskInv, AnnouncedInv, [Next]_vars
  PROVE  AnnouncedKept'
<1> SUFFICES ASSUME ~ Reused', "read" \notin failed',
                    NEW text \in announced', text \notin Sent'
             PROVE  Kept(text)'
    BY DEF AnnouncedKept, Kept, Loaded
<1>1. ~ Reused /\ text \notin Sent /\ "read" \notin failed
  BY DroppedStays, Arrivals
<1>2. CASE Signalled /\ Heard
  BY <1>2 DEF Heard, Kept
<1>3. CASE text \in announced /\ announced' = announced
  <2>1. Waiting(text) /\ Waiting(text)' /\ text \in Texts
    BY <1>1, <1>3, WaitingStays DEF AnnouncedInv, AnnouncedWait, TypeInv, TypeOK
  <2>2. /\ dropped[text] \in Names /\ new_messages[dropped[text]] = text
        /\ dropped[text] \in Present /\ dropped'[text] = dropped[text]
    BY <2>1, DroppedStays, LoaderAssumption DEF Waiting, DiskInv, NamesKept, Present
  <2>3. ~ Restart
    BY <1>3 DEF Restart
  <2>4. Kept(text)
    BY <1>1, <1>3 DEF AnnouncedInv, AnnouncedKept, Kept, Loaded
  <2>5. Kept(text)'
    <3>1. CASE LoaderTake
      BY <2>1, <3>1 DEF LoaderTake, LoaderGoto, Kept
    <3>2. CASE LoaderOpenDir
      BY <2>1, <2>2, <2>4, <3>2 DEF LoaderOpenDir, LoaderGoto, Kept, sending
    <3>3. ASSUME NEW n \in Names, LoaderReadDir(n)
          PROVE  Kept(text)'
      BY <2>1, <2>2, <2>4, <3>3 DEF LoaderReadDir, Kept, Loaded, sending
    <3>4. CASE LoaderAccess
      BY <2>1, <2>2, <2>4, <3>4 DEF LoaderAccess, LoaderGoto, Kept, Loaded, sending
    <3>5. CASE LoaderSkip
      BY <2>1, <2>2, <2>4, <3>5, LoaderAssumption DEF LoaderSkip, Kept, Loaded, sending
    <3>6. ASSUME NEW pc \in {"report", "append"}, NEW whole \in BOOLEAN, LoaderReads(pc, whole)
          PROVE  Kept(text)'
      BY <2>1, <2>2, <2>4, <3>6 DEF LoaderReads, Message, Kept, sending, Loaded
    <3>7. CASE LoaderAppend
      <4>1. queue \in Seq(Messages) /\ queue' = Append(queue, loader.message)
        BY <3>7 DEF LoaderAppend, TypeInv, TypeOK
      <4>2. \A i \in 1 .. Len(queue) : i \in 1 .. Len(queue') /\ queue'[i] = queue[i]
        BY <3>7, <4>1 DEF LoaderAppend, TypeInv, LoaderHands
      <4>3. Len(queue') \in 1 .. Len(queue') /\ queue'[Len(queue')] = loader.message
        BY <3>7, <4>1 DEF LoaderAppend, TypeInv, LoaderHands
      <4> QED
        BY <2>1, <2>2, <2>4, <3>7, <4>2, <4>3 DEF LoaderAppend, Kept
    <3>8. CASE LoaderCloseDir
      BY <2>1, <2>2, <2>4, <3>8 DEF LoaderCloseDir, LoaderGoto, Kept, Loaded, sending
    <3>9. ~ LoaderError
      BY DEF LoaderError
    <3>10. CASE TransmitterRetire
      <4>1. queue \in Seq(Messages) /\ Len(queue) > 0 /\ queue' = Tail(queue)
        BY <3>10 DEF TransmitterRetire, TypeInv, TypeOK, TransmitterHands
      <4>2. queue[1].text # text
        BY <3>10, <4>1 DEF TransmitterRetire, Sent
      <4>3. \A i \in 1 .. Len(queue) :
              i # 1 => i - 1 \in 1 .. Len(queue') /\ queue'[i - 1] = queue[i]
        BY <4>1
      <4> QED
        BY <2>1, <2>2, <2>4, <3>10, <4>2, <4>3 DEF TransmitterRetire, Kept, Loaded, loading
    <3>11. CASE TransmitterRemove
      <4>1. transmitter.message.name # dropped[text]
        BY <1>1, <2>1, <3>11, WaitingStays
      <4> QED
        BY <2>1, <2>2, <2>4, <3>11, <4>1 DEF TransmitterRemove, Disappear, Kept, Loaded
    <3>12. CASE LoaderLock \/ LoaderSleep \/ LoaderCreat
      BY <2>1, <2>2, <2>4, <3>12
      DEF LoaderLock, LoaderSleep, LoaderCreat, LoaderGoto, Kept, Loaded, sending
    <3>13. CASE UNCHANGED <<available, loader, todo, queue>>
      BY <2>1, <2>2, <2>4, <3>13 DEF Kept, Loaded
    <3>14. CASE LoaderLog
      BY <2>1, <2>2, <2>4, <3>14 DEF LoaderLog, LoaderGoto, Kept, Loaded, sending
    <3>15. CASE Signalled
      BY <1>2, <3>13, <3>15, SignalDoes DEF sending
    <3> QED
      BY <1>2, <2>3, <3>1, <3>2, <3>3, <3>4, <3>5, <3>6, <3>7, <3>8, <3>9, <3>10, <3>11, <3>12,
         <3>13, <3>14, <3>15, ReadsIs
      DEF Next, Signalled, Drop, Tick, StepBack, LoaderThread, TransmissionThread,
          TransmitterTake, TransmitterHalts, TransmitterDest, TransmitterCopy, TransmitterLog,
          TransmitterFile, loading, sending, vars
  <2> QED
    BY <2>5
<1> QED
  BY <1>2, <1>3, AnnouncedStep

LEMMA AnnouncedAlways == Spec => []AnnouncedInv
<1>1. TypeInv /\ TypeInv' /\ DiskInv /\ AnnouncedInv /\ [Next]_vars => AnnouncedInv'
  BY WaitStep, KeptStep DEF AnnouncedInv
<1> QED
  BY <1>1, TypeAlways, DiskAlways, AnnouncedInit, PTL DEF Spec

\* A file that a SIGHUP announced is not forgotten between flag, scan, hand and
\* queue, whatever is dropped, announced again or removed in between.
THEOREM AnnouncedNotForgotten == Spec => []AnnouncedKept
<1>1. AnnouncedInv => AnnouncedKept
  BY DEF AnnouncedInv
<1> QED
  BY <1>1, AnnouncedAlways, PTL
=============================================================================
