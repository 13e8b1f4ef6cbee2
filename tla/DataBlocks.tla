----------------------------- MODULE DataBlocks -----------------------------
(***************************************************************************)
(* One data message from its file to a client: load_data_message_thread    *)
(* cuts the file in blocks, send_data_message_to_client sends the head and *)
(* the blocks as one datagram each, receive_thread of the client takes     *)
(* what arrives and tells the kinds apart.  Datagrams are lost, repeated   *)
(* and come in any order.                                                  *)
(*                                                                         *)
(* A byte is Nul or not; a datagram is its fields, with the length they    *)
(* take as text.  What the client does with a head or a block is not       *)
(* written yet (TODO at mtn-client-data-message.c:58 and 72).              *)
(***************************************************************************)
EXTENDS Integers, Sequences

CONSTANTS
  Bytes,         \* what a file is made of
  Nul,           \* the zero byte
  MTN_MSG_LEN,   \* bytes the receiver has room for
  MessageIds,    \* ids a message may get: they count within a second
  StampLengths   \* lengths release_time_str may have: strftime does not fit the
                 \* ten digits of a time in ten bytes and leaves the array as it is

MTN_MSG_TYPE_LEN == 4

MTN_DM_BLOCK_HEAD_LEN == 10 + 3 + 3 + 2

MTN_DM_BLOCK_DATA_LEN == MTN_MSG_LEN - MTN_MSG_TYPE_LEN - MTN_DM_BLOCK_HEAD_LEN

ASSUME BlockAssumption ==
  /\ Nul \in Bytes
  /\ MTN_MSG_LEN \in Nat /\ MTN_DM_BLOCK_DATA_LEN > 2
  /\ MessageIds \subseteq Nat
  /\ StampLengths \subseteq Nat /\ 10 \in StampLengths

VARIABLES
  stage,       \* where the message is: with main, the loader, the sender
  content,     \* the bytes of the file
  offset,      \* how many of them were read
  cut_short,   \* whether a read failed
  message,     \* data_message: id, length of its time as text, blocks
  next,        \* the block the sender comes to: 0 is the head
  wire,        \* datagrams that were sent
  inbox        \* datagrams receive_thread has taken, by their type

block_vars == <<stage, content, offset, cut_short, message, next, wire, inbox>>

-----------------------------------------------------------------------------
(* Strings and datagrams.                                                  *)

AtMost(a, b) == IF a < b THEN a ELSE b

\* strcpy of a buffer that ends with the byte read last: up to the first Nul.
CString(bytes) ==
  LET stops == {i \in 1 .. Len(bytes) : bytes[i] = Nul}
  IN  IF stops = {}
        THEN bytes
        ELSE SubSeq(bytes, 1, (CHOOSE i \in stops : \A j \in stops : i <= j) - 1)

\* What read returns.
Chunk == SubSeq(content, offset + 1, AtMost(offset + MTN_DM_BLOCK_DATA_LEN, Len(content)))

\* "%.3d"
Width(n) == IF n < 1000 THEN 3 ELSE 4

\* "%s %s %.3d %.3d", the type, the time, the id and a number.
HeadLength(d) ==
  MTN_MSG_TYPE_LEN + 1 + d.stamp + 1 + Width(d.id) + 1 + Width(d.number)

\* A block has a newline between its head and its data.
Room(d) == MTN_MSG_LEN - HeadLength(d) - 1

Datagram(type, number, text) ==
  [type |-> type, stamp |-> message.stamp, id |-> message.id, number |-> number,
   text |-> text]

\* sendto hands over all that snprintf would have written; recvfrom keeps
\* MTN_MSG_LEN bytes of it.
Received(d) ==
  IF d.type = "DATA"
    THEN d
    ELSE [d EXCEPT !.text = SubSeq(d.text, 1, AtMost(Len(d.text), Room(d)))]

-----------------------------------------------------------------------------
(* load_data_message_thread.                                               *)

\* A block shorter than the others dropped.
LoadBlockDropShort ==
  /\ stage = "load"
  /\ offset < Len(content)
  /\ message' = IF Len(Chunk) < MTN_DM_BLOCK_DATA_LEN
                  THEN message
                  ELSE [message EXCEPT !.blocks = Append(@, CString(Chunk))]
  /\ offset' = offset + Len(Chunk)
  /\ UNCHANGED <<stage, content, cut_short, next, wire, inbox>>

\* A full block taken as read, however much was.
LoadBlockFull ==
  /\ stage = "load"
  /\ offset < Len(content)
  /\ message' = [message EXCEPT !.blocks = Append(@, CString(Chunk))]
  /\ offset' = offset + MTN_DM_BLOCK_DATA_LEN
  /\ UNCHANGED <<stage, content, cut_short, next, wire, inbox>>

LoadBlock ==
  /\ stage = "load"
  /\ offset < Len(content)
  /\ message' = [message EXCEPT !.blocks = Append(@, CString(Chunk))]
  /\ offset' = offset + Len(Chunk)
  /\ UNCHANGED <<stage, content, cut_short, next, wire, inbox>>

\* read returns 0 or -1.  An empty message is ignored, any other goes the way of
\* the queue, as far as it was read.
LoadEnd(failed) ==
  /\ stage = "load"
  /\ ~ failed => offset = Len(content)
  /\ cut_short' = failed
  /\ IF message.blocks = <<>>
       THEN stage' = "ignored" /\ UNCHANGED message
       ELSE /\ stage' = "send"
            /\ \E id \in MessageIds, stamp \in StampLengths :
                 message' = [message EXCEPT !.id = id, !.stamp = stamp]
  /\ UNCHANGED <<content, offset, next, wire, inbox>>

-----------------------------------------------------------------------------
(* send_data_message_to_client.  A sendto that fails is only reported.     *)

Send(d) == wire' \in {wire, wire \cup {d}}

SendHead ==
  /\ stage = "send"
  /\ next = 0
  /\ Send(Datagram("DATA", Len(message.blocks), <<>>))
  /\ next' = 1
  /\ UNCHANGED <<stage, content, offset, cut_short, message, inbox>>

\* "%.4d" for the number of the block.
SendBlockWide ==
  /\ stage = "send"
  /\ next \in 1 .. Len(message.blocks)
  /\ Send(Datagram("BLCK", 1000, message.blocks[next]))
  /\ next' = next + 1
  /\ UNCHANGED <<stage, content, offset, cut_short, message, inbox>>

\* block_number stays 1.
SendBlock ==
  /\ stage = "send"
  /\ next \in 1 .. Len(message.blocks)
  /\ Send(Datagram("BLCK", 1, message.blocks[next]))
  /\ next' = next + 1
  /\ UNCHANGED <<stage, content, offset, cut_short, message, inbox>>

SendEnd ==
  /\ stage = "send"
  /\ next = Len(message.blocks) + 1
  /\ stage' = "sent"
  /\ UNCHANGED <<content, offset, cut_short, message, next, wire, inbox>>

-----------------------------------------------------------------------------
(* receive_thread of the client.                                           *)

Receive(d) ==
  /\ d \in wire
  /\ inbox' = inbox \cup {Received(d)}
  /\ UNCHANGED <<stage, content, offset, cut_short, message, next, wire>>

-----------------------------------------------------------------------------
BlocksInit(bytes) ==
  /\ content = bytes
  /\ offset = 0
  /\ cut_short = FALSE
  /\ message = [id |-> 0, stamp |-> 10, blocks |-> <<>>]
  /\ next = 0
  /\ wire = {}
  /\ inbox = {}

BlocksNext ==
  \/ LoadBlock
  \/ \E failed \in BOOLEAN : LoadEnd(failed)
  \/ SendHead \/ SendBlock \/ SendEnd
  \/ \E d \in wire : Receive(d)

BlocksSpec ==
  /\ \E bytes \in Seq(Bytes) : BlocksInit(bytes) /\ stage = "load"
  /\ [][BlocksNext]_block_vars

-----------------------------------------------------------------------------
(* Properties.                                                             *)

\* Type invariant.
BlocksTypeOK ==
  /\ stage \in {"main", "load", "send", "sent", "ignored"}
  /\ content \in Seq(Bytes)
  /\ offset \in 0 .. Len(content)
  /\ cut_short \in BOOLEAN
  /\ message \in [id : Nat, stamp : StampLengths, blocks : Seq(Seq(Bytes))]
  /\ next \in 0 .. Len(message.blocks) + 1
  /\ \A d \in wire \cup inbox :
       d \in [type : {"DATA", "BLCK"}, stamp : StampLengths, id : Nat, number : Nat,
              text : Seq(Bytes)]

\* The blocks of a message are its file, in order and nothing missing, but that
\* each block ends at its first zero byte; a read that fails loses whole blocks
\* at the end only, and a message without a block is never sent.
StretchOf(i) == (i - 1) \div MTN_DM_BLOCK_DATA_LEN

Kept(i) == \A j \in 1 .. i : StretchOf(j) = StretchOf(i) => content[j] # Nul

TextOf(n) ==
  LET whole == SubSeq(content, n * MTN_DM_BLOCK_DATA_LEN + 1,
                      AtMost((n + 1) * MTN_DM_BLOCK_DATA_LEN, Len(content)))
      kept == {k \in 1 .. Len(whole) : Kept(n * MTN_DM_BLOCK_DATA_LEN + k)}
  IN  [k \in kept |-> whole[k]]

BlocksAreTheFile ==
  stage \in {"send", "sent", "ignored"} =>
    /\ stage = "ignored" <=> message.blocks = <<>>
    /\ \A n \in 1 .. Len(message.blocks) : message.blocks[n] = TextOf(n - 1)
    /\ Len(content) > Len(message.blocks) * MTN_DM_BLOCK_DATA_LEN => cut_short
    /\ Len(content) > (Len(message.blocks) - 1) * MTN_DM_BLOCK_DATA_LEN

\* Whatever the network does, what the client gets of a block is the beginning
\* of a block of the message; and all of it, but for the two bytes by which
\* MTN_DM_BLOCK_HEAD_LEN is too small and those a longer time or id takes.
TooLong == 2 + (message.stamp - 10) + (Width(message.id) - 3)

OnlyTailsLost ==
  \A d \in inbox : d.type = "BLCK" =>
    \E i \in 1 .. Len(message.blocks) :
      LET block == message.blocks[i]
      IN  \E n \in 0 .. Len(block) :
            /\ d.text = SubSeq(block, 1, n)
            /\ n < Len(block) => n + TooLong >= MTN_DM_BLOCK_DATA_LEN

\* mtn-protocol.h:55, of the head of a block: "date in seconds + id + number of
\* block": a block that is sent carries its own number.
BlocksNumbered ==
  \A d \in wire : d.type = "BLCK" =>
    /\ d.number \in 1 .. Len(message.blocks)
    /\ d.text = message.blocks[d.number]
=============================================================================
