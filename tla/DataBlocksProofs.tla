-------------------------- MODULE DataBlocksProofs --------------------------
(* Theorems about DataBlocks, for files of any bytes and any length, any    *)
(* length of a datagram, and any ids and times.                            *)
EXTENDS DataBlocks, TLAPS, WellFoundedInduction

LEMMA DataLength == MTN_DM_BLOCK_DATA_LEN \in Nat /\ MTN_DM_BLOCK_DATA_LEN > 2
BY BlockAssumption DEF MTN_DM_BLOCK_DATA_LEN, MTN_DM_BLOCK_HEAD_LEN, MTN_MSG_TYPE_LEN

LEMMA HasLeast ==
  ASSUME NEW T, T \subseteq Nat, T # {}
  PROVE  \E x \in T : \A y \in T : x <= y
<1> DEFINE R == OpToRel(<, Nat)
<1>1. \E x \in T : \A y \in T : <<y, x>> \notin R
  <2> HIDE DEF R
  <2>1. IsWellFoundedOn(R, Nat)
    BY NatLessThanWellFounded, Zenon DEF R
  <2> QED
    BY <2>1, WFMin
<1>2. ASSUME NEW x \in Nat, NEW y \in Nat, <<y, x>> \notin R PROVE x <= y
  BY <1>2 DEF OpToRel
<1> QED
  BY <1>1, <1>2

\* What strcpy copies: what stands before the first Nul, or all.
LEMMA CStringIs ==
  ASSUME NEW s \in Seq(Bytes)
  PROVE  \E n \in 0 .. Len(s) :
           /\ CString(s) = SubSeq(s, 1, n)
           /\ \A j \in 1 .. n : s[j] # Nul
           /\ n < Len(s) => s[n + 1] = Nul
<1> DEFINE stops == {i \in 1 .. Len(s) : s[i] = Nul}
<1>0. Len(s) \in Nat /\ stops \subseteq Nat
  OBVIOUS
<1>1. CASE stops = {}
  <2>1. CString(s) = s
    BY <1>1 DEF CString
  <2>2. s = SubSeq(s, 1, Len(s))
    OBVIOUS
  <2>3. Len(s) \in 0 .. Len(s) /\ ~ (Len(s) < Len(s))
    BY <1>0
  <2>4. \A j \in 1 .. Len(s) : s[j] # Nul
    BY <1>1
  <2> QED
    BY <2>1, <2>2, <2>3, <2>4, Zenon
<1>2. CASE stops # {}
  <2>1. PICK x \in stops : x = CHOOSE i \in stops : \A j \in stops : i <= j
    <3>1. \E i \in stops : \A j \in stops : i <= j
      <4> HIDE DEF stops
      <4> QED
        BY <1>0, <1>2, HasLeast
    <3> HIDE DEF stops
    <3> QED
      BY <3>1
  <2>2. \A j \in stops : x <= j
    <3>1. \E i \in stops : \A j \in stops : i <= j
      <4> HIDE DEF stops
      <4> QED
        BY <1>0, <1>2, HasLeast
    <3> HIDE DEF stops
    <3> QED
      BY <2>1, <3>1
  <2>3. CString(s) = SubSeq(s, 1, x - 1)
    BY <1>2, <2>1 DEF CString
  <2>4. /\ x - 1 \in 0 .. Len(s) /\ s[(x - 1) + 1] = Nul
        /\ \A j \in 1 .. x - 1 : s[j] # Nul
    <3>1. x \in 1 .. Len(s) /\ s[x] = Nul
      OBVIOUS
    <3>2. x - 1 \in 0 .. Len(s) /\ (x - 1) + 1 = x
      BY <1>0, <3>1
    <3>3. ASSUME NEW j \in 1 .. x - 1 PROVE s[j] # Nul
      <4>1. j \in 1 .. Len(s) /\ ~ (x <= j)
        BY <1>0, <3>1
      <4>2. j \notin stops
        <5> HIDE DEF stops
        <5> QED
          BY <2>2, <4>1
      <4> QED
        BY <4>1, <4>2
    <3> HIDE DEF stops
    <3> QED
      BY <3>1, <3>2, <3>3
  <2> HIDE DEF stops
  <2> QED
    BY <2>3, <2>4
<1> QED
  BY <1>1, <1>2

LEMMA CStringType ==
  ASSUME NEW s \in Seq(Bytes)
  PROVE  CString(s) \in Seq(Bytes)
<1>1. PICK n \in 0 .. Len(s) : CString(s) = SubSeq(s, 1, n)
  BY CStringIs
<1> QED
  BY <1>1

LEMMA ChunkIs ==
  ASSUME content \in Seq(Bytes), offset \in Nat, offset < Len(content)
  PROVE  /\ Chunk \in Seq(Bytes)
         /\ Len(Chunk) = AtMost(MTN_DM_BLOCK_DATA_LEN, Len(content) - offset)
         /\ \A k \in 1 .. Len(Chunk) : Chunk[k] = content[offset + k]
BY DataLength DEF Chunk, AtMost

(***************************************************************************)
(* The type invariant.                                                     *)
(***************************************************************************)

DatagramType ==
  [type : {"DATA", "BLCK"}, stamp : StampLengths, id : Nat, number : Nat, text : Seq(Bytes)]

LEMMA DatagramTyped ==
  ASSUME BlocksTypeOK, NEW type \in {"DATA", "BLCK"}, NEW number \in Nat,
         NEW text \in Seq(Bytes)
  PROVE  Datagram(type, number, text) \in DatagramType
BY DEF BlocksTypeOK, Datagram, DatagramType

LEMMA WidthType == ASSUME NEW n \in Nat PROVE Width(n) \in {3, 4}
BY DEF Width

LEMMA RoomType == ASSUME NEW d \in DatagramType PROVE Room(d) \in Int
<1>1. d.stamp \in Nat /\ d.id \in Nat /\ d.number \in Nat
  BY BlockAssumption DEF DatagramType
<1>2. Width(d.id) \in Nat /\ Width(d.number) \in Nat
  BY <1>1, WidthType
<1> QED
  BY <1>1, <1>2, BlockAssumption DEF Room, HeadLength, MTN_MSG_TYPE_LEN

\* What the receiver keeps of a text.
LEMMA Beginning ==
  ASSUME NEW s \in Seq(Bytes), NEW room \in Int
  PROVE  \E n \in 0 .. Len(s) :
           /\ SubSeq(s, 1, AtMost(Len(s), room)) = SubSeq(s, 1, n)
           /\ n < Len(s) => n >= room
<1>1. CASE Len(s) < room
  BY <1>1 DEF AtMost
<1>2. CASE ~ (Len(s) < room) /\ room >= 0
  <2>1. room \in 0 .. Len(s) /\ AtMost(Len(s), room) = room
    BY <1>2 DEF AtMost
  <2> QED
    BY <2>1
<1>3. CASE ~ (Len(s) < room) /\ room < 0
  <2>1. AtMost(Len(s), room) = room
    BY <1>3 DEF AtMost
  <2>2. SubSeq(s, 1, room) = SubSeq(s, 1, 0)
    BY <1>3
  <2>3. 0 \in 0 .. Len(s)
    OBVIOUS
  <2> QED
    BY <1>3, <2>1, <2>2, <2>3
<1>4. Len(s) < room \/ (~ (Len(s) < room) /\ room >= 0) \/ (~ (Len(s) < room) /\ room < 0)
  OBVIOUS
<1> QED
  BY <1>1, <1>2, <1>3, <1>4, Zenon

\* Only the text of a block is shortened.
LEMMA ReceivedIs ==
  ASSUME NEW d \in DatagramType
  PROVE  /\ Received(d) \in DatagramType
         /\ Received(d).type = d.type
         /\ d.type = "BLCK" => Received(d).text = SubSeq(d.text, 1, AtMost(Len(d.text), Room(d)))
<1>1. CASE d.type = "DATA"
  BY <1>1 DEF Received
<1>2. CASE d.type = "BLCK"
  <2> DEFINE text == SubSeq(d.text, 1, AtMost(Len(d.text), Room(d)))
  <2>1. text \in Seq(Bytes)
    <3>1. d.text \in Seq(Bytes)
      BY DEF DatagramType
    <3>2. PICK n \in 0 .. Len(d.text) : text = SubSeq(d.text, 1, n)
      BY <3>1, RoomType, Beginning
    <3> HIDE DEF text
    <3> QED
      BY <3>1, <3>2
  <2>2. Received(d) = [d EXCEPT !.text = text]
    BY <1>2 DEF Received
  <2> HIDE DEF text
  <2>3. Received(d) \in DatagramType /\ Received(d).type = d.type /\ Received(d).text = text
    BY <2>1, <2>2 DEF DatagramType
  <2> QED
    BY <2>3 DEF text
<1> QED
  BY <1>1, <1>2 DEF DatagramType

LEMMA BlocksTypeStep == BlocksTypeOK /\ [BlocksNext]_block_vars => BlocksTypeOK'
<1> SUFFICES ASSUME BlocksTypeOK, [BlocksNext]_block_vars
             PROVE  BlocksTypeOK'
    OBVIOUS
<1>0. \A d \in wire \cup inbox : d \in DatagramType
  BY DEF BlocksTypeOK, DatagramType
<1>1. CASE LoadBlock
  <2>1. Chunk \in Seq(Bytes) /\ Len(Chunk) \in 0 .. Len(content) - offset
    BY <1>1, ChunkIs, DataLength DEF LoadBlock, BlocksTypeOK, AtMost
  <2>2. CString(Chunk) \in Seq(Bytes)
    BY <2>1, CStringType
  <2>3. offset' \in 0 .. Len(content)
    BY <1>1, <2>1 DEF LoadBlock, BlocksTypeOK
  <2>4. /\ message' = [message EXCEPT !.blocks = Append(message.blocks, CString(Chunk))]
        /\ UNCHANGED <<stage, content, cut_short, next, wire, inbox>>
    BY <1>1 DEF LoadBlock
  <2>5. /\ message'.blocks = Append(message.blocks, CString(Chunk))
        /\ message' \in [id : Nat, stamp : StampLengths, blocks : Seq(Seq(Bytes))]
    <3> DEFINE block == CString(Chunk)
    <3>1. /\ message \in [id : Nat, stamp : StampLengths, blocks : Seq(Seq(Bytes))]
          /\ block \in Seq(Bytes)
          /\ message' = [message EXCEPT !.blocks = Append(message.blocks, block)]
      BY <2>2, <2>4 DEF BlocksTypeOK
    <3> HIDE DEF block
    <3>2. Append(message.blocks, block) \in Seq(Seq(Bytes))
      BY <3>1
    <3>3. /\ message'.blocks = Append(message.blocks, block)
          /\ message' \in [id : Nat, stamp : StampLengths, blocks : Seq(Seq(Bytes))]
      BY <3>1, <3>2
    <3> QED
      BY <3>3 DEF block
  <2>6. next' \in 0 .. Len(message'.blocks) + 1
    BY <2>2, <2>4, <2>5 DEF BlocksTypeOK
  <2> QED
    BY <2>3, <2>4, <2>5, <2>6 DEF BlocksTypeOK
<1>2. ASSUME NEW failed \in BOOLEAN, LoadEnd(failed)
      PROVE  BlocksTypeOK'
  <2>1. /\ UNCHANGED <<content, offset, next, wire, inbox>>
        /\ stage' \in {"ignored", "send"} /\ cut_short' = failed
    BY <1>2 DEF LoadEnd
  <2>2. /\ message'.blocks = message.blocks
        /\ message' \in [id : Nat, stamp : StampLengths, blocks : Seq(Seq(Bytes))]
    BY <1>2, BlockAssumption DEF LoadEnd, BlocksTypeOK
  <2> QED
    BY <2>1, <2>2 DEF BlocksTypeOK
<1>3. CASE SendHead
  <2>1. Datagram("DATA", Len(message.blocks), <<>>) \in DatagramType
    <3>1. Len(message.blocks) \in Nat /\ <<>> \in Seq(Bytes)
      BY DEF BlocksTypeOK
    <3> QED
      BY <3>1, DatagramTyped
  <2>2. /\ UNCHANGED <<stage, content, offset, cut_short, message, inbox>>
        /\ next' = 1
        /\ \A d \in wire' : d \in wire \/ d = Datagram("DATA", Len(message.blocks), <<>>)
    BY <1>3 DEF SendHead, Send
  <2>3. \A d \in (wire \cup inbox)' : d \in DatagramType
    BY <1>0, <2>1, <2>2
  <2> QED
    BY <2>2, <2>3 DEF BlocksTypeOK, DatagramType
<1>4. CASE SendBlock
  <2>1. Datagram("BLCK", 1, message.blocks[next]) \in DatagramType
    <3>1. message.blocks[next] \in Seq(Bytes)
      BY <1>4 DEF SendBlock, BlocksTypeOK
    <3> QED
      BY <3>1, DatagramTyped
  <2>2. /\ UNCHANGED <<stage, content, offset, cut_short, message, inbox>>
        /\ next' = next + 1 /\ next \in 1 .. Len(message.blocks)
        /\ \A d \in wire' : d \in wire \/ d = Datagram("BLCK", 1, message.blocks[next])
    BY <1>4 DEF SendBlock, Send
  <2>3. \A d \in (wire \cup inbox)' : d \in DatagramType
    BY <1>0, <2>1, <2>2
  <2> QED
    BY <2>2, <2>3 DEF BlocksTypeOK, DatagramType
<1>5. CASE SendEnd
  BY <1>5 DEF SendEnd, BlocksTypeOK
<1>6. ASSUME NEW d \in wire, Receive(d)
      PROVE  BlocksTypeOK'
  <2>1. Received(d) \in DatagramType
    BY <1>0, ReceivedIs
  <2>2. \A e \in (wire \cup inbox)' : e \in DatagramType
    BY <1>0, <1>6, <2>1 DEF Receive
  <2> QED
    BY <1>6, <2>2 DEF Receive, BlocksTypeOK, DatagramType
<1>7. CASE UNCHANGED block_vars
  BY <1>7 DEF block_vars, BlocksTypeOK
<1> QED
  BY <1>1, <1>2, <1>3, <1>4, <1>5, <1>6, <1>7 DEF BlocksNext

\* Every value of every variable of a message's way has its type.
THEOREM BlocksTypeCorrect == BlocksSpec => []BlocksTypeOK
<1>1. (\E bytes \in Seq(Bytes) : BlocksInit(bytes) /\ stage = "load") => BlocksTypeOK
  <2> SUFFICES ASSUME NEW bytes \in Seq(Bytes), BlocksInit(bytes), stage = "load"
               PROVE  BlocksTypeOK
      OBVIOUS
  <2>1. message = [id |-> 0, stamp |-> 10, blocks |-> <<>>]
    BY DEF BlocksInit
  <2>2. /\ message \in [id : Nat, stamp : StampLengths, blocks : Seq(Seq(Bytes))]
        /\ message.blocks = <<>>
    BY <2>1, BlockAssumption
  <2>3. next = 0 /\ 0 \in 0 .. Len(message.blocks) + 1
    BY <2>2 DEF BlocksInit
  <2>4. /\ content \in Seq(Bytes) /\ offset \in 0 .. Len(content)
        /\ stage = "load" /\ wire \cup inbox = {}
    BY DEF BlocksInit
  <2>5. cut_short \in BOOLEAN
    BY DEF BlocksInit
  <2> QED
    BY <2>2, <2>3, <2>4, <2>5 DEF BlocksTypeOK
<1> QED
  BY <1>1, BlocksTypeStep, PTL DEF BlocksSpec

(***************************************************************************)
(* What the loader has cut so far: each block but the last read is full.   *)
(***************************************************************************)

CutInv ==
  /\ stage # "main"
  /\ \A n \in 1 .. Len(message.blocks) : message.blocks[n] = TextOf(n - 1)
  /\ Len(content) > (Len(message.blocks) - 1) * MTN_DM_BLOCK_DATA_LEN
  /\ stage = "load" =>
       IF offset < Len(content)
         THEN offset = Len(message.blocks) * MTN_DM_BLOCK_DATA_LEN
         ELSE Len(content) <= Len(message.blocks) * MTN_DM_BLOCK_DATA_LEN
  /\ stage # "load" /\ Len(content) > Len(message.blocks) * MTN_DM_BLOCK_DATA_LEN => cut_short
  /\ stage = "ignored" => message.blocks = <<>>
  /\ stage \in {"send", "sent"} => message.blocks # <<>>

\* A stretch of the file has the bytes of one block.
LEMMA StretchIs ==
  ASSUME NEW n \in Nat, NEW k \in 1 .. MTN_DM_BLOCK_DATA_LEN
  PROVE  StretchOf(n * MTN_DM_BLOCK_DATA_LEN + k) = n
<1> DEFINE D == MTN_DM_BLOCK_DATA_LEN
<1>1. D \in Nat /\ D > 0
  BY DataLength
<1> HIDE DEF D
<1>2. ASSUME NEW q \in Nat, q * D <= n * D + k - 1, n * D + k - 1 < (q + 1) * D
      PROVE  q = n
  <2>1. k \in 1 .. D
    BY DEF D
  <2>2. CASE q < n
    <3>1. (q + 1) * D <= n * D
      BY <1>1, <2>2
    <3> QED
      BY <1>1, <1>2, <2>1, <3>1
  <2>3. CASE q > n
    <3>1. (n + 1) * D <= q * D /\ (n + 1) * D = n * D + D
      BY <1>1, <2>3
    <3> QED
      BY <1>1, <1>2, <2>1, <3>1
  <2> QED
    BY <2>2, <2>3
<1>3. ((n * D + k) - 1) \div D = n
  BY <1>1, <1>2 DEF D
<1>4. StretchOf(n * D + k) = ((n * D + k) - 1) \div D
  BY Zenon DEF StretchOf, D
<1> QED
  BY <1>3, <1>4, Zenon DEF D

LEMMA AfterStretch ==
  ASSUME NEW n \in Nat, NEW j \in Nat \ {0}, j <= n * MTN_DM_BLOCK_DATA_LEN
  PROVE  StretchOf(j) # n
<1> DEFINE D == MTN_DM_BLOCK_DATA_LEN
           q == (j - 1) \div D
<1>1. D \in Nat /\ D > 0
  BY DataLength
<1> HIDE DEF D
<1>2. q \in Nat /\ q * D <= j - 1
  BY <1>1
<1>3. q # n
  BY <1>1, <1>2 DEF D
<1> QED
  BY <1>3, Zenon DEF StretchOf, D

\* What a read returns, as the text of the block that is cut next.
LEMMA ChunkIsText ==
  ASSUME content \in Seq(Bytes), NEW n \in Nat, offset = n * MTN_DM_BLOCK_DATA_LEN,
         offset < Len(content)
  PROVE  /\ Chunk \in Seq(Bytes)
         /\ CString(Chunk) = TextOf(n)
<1> DEFINE D == MTN_DM_BLOCK_DATA_LEN
           whole == SubSeq(content, n * D + 1, AtMost((n + 1) * D, Len(content)))
           kept == {k \in 1 .. Len(whole) : Kept(n * D + k)}
<1>1. D \in Nat /\ D > 0 /\ (n + 1) * D = n * D + D /\ n * D \in Nat
  BY DataLength
<1>2. Chunk = whole /\ offset = n * D
  BY <1>1 DEF Chunk
<1>3. Chunk \in Seq(Bytes) /\ whole \in Seq(Bytes) /\ Len(whole) \in 0 .. D
  <2>1. offset \in Nat
    BY <1>1, <1>2
  <2> QED
    BY <1>1, <1>2, <2>1, ChunkIs DEF AtMost
<1>4. \A k \in 1 .. Len(whole) : whole[k] = content[n * D + k]
  BY <1>1, <1>2, ChunkIs
<1> HIDE DEF D, whole
<1>5. PICK m \in 0 .. Len(whole) :
        /\ CString(whole) = SubSeq(whole, 1, m)
        /\ \A j \in 1 .. m : whole[j] # Nul
        /\ m < Len(whole) => whole[m + 1] = Nul
  BY <1>3, CStringIs
<1>6. ASSUME NEW k \in 1 .. Len(whole)
      PROVE  Kept(n * D + k) <=> \A j \in 1 .. k : whole[j] # Nul
  <2>1. k \in 1 .. D /\ n * D + k \in Nat
    BY <1>1, <1>3
  <2>2. StretchOf(n * D + k) = n
    BY <2>1, StretchIs DEF D
  <2>3. ASSUME NEW i \in 1 .. n * D + k, StretchOf(i) = n
        PROVE  \E j \in 1 .. k : i = n * D + j
    <3>1. ~ (i <= n * D)
      BY <2>3, <1>1, AfterStretch DEF D
    <3>2. i - n * D \in 1 .. k /\ i = n * D + (i - n * D)
      BY <1>1, <3>1
    <3> QED
      BY <3>2
  <2>4. ASSUME NEW j \in 1 .. k
        PROVE  /\ n * D + j \in 1 .. n * D + k
               /\ StretchOf(n * D + j) = n
               /\ content[n * D + j] = whole[j]
    <3>1. j \in 1 .. D /\ j \in 1 .. Len(whole) /\ n * D + j \in 1 .. n * D + k
      BY <1>1, <1>3, <2>1
    <3>2. StretchOf(n * D + j) = n
      BY <3>1, StretchIs DEF D
    <3> QED
      BY <1>4, <3>1, <3>2
  <2> QED
    BY <2>2, <2>3, <2>4, Zenon DEF Kept
<1>7. kept = 1 .. m
  <2>1. Len(whole) \in Nat /\ m \in Nat /\ m <= Len(whole)
    BY <1>3, <1>5
  <2>2. ASSUME NEW k \in 1 .. Len(whole)
        PROVE  (\A j \in 1 .. k : whole[j] # Nul) <=> k <= m
    <3>1. CASE k <= m
      <4>1. \A j \in 1 .. k : j \in 1 .. m
        BY <2>1, <3>1
      <4>2. \A j \in 1 .. k : whole[j] # Nul
        BY <1>5, <4>1
      <4> QED
        BY <3>1, <4>2
    <3>2. CASE ~ (k <= m)
      <4>1. m < Len(whole) /\ m + 1 \in 1 .. k
        BY <2>1, <3>2
      <4>2. whole[m + 1] = Nul
        BY <1>5, <4>1
      <4>3. ~ \A j \in 1 .. k : whole[j] # Nul
        BY <4>1, <4>2
      <4> QED
        BY <3>2, <4>3
    <3> QED
      BY <3>1, <3>2
  <2>3. ASSUME NEW k \in 1 .. Len(whole)
        PROVE  k \in kept <=> k \in 1 .. m
    BY <1>6, <2>1, <2>2
  <2>4. \A k \in 1 .. m : k \in 1 .. Len(whole)
    BY <2>1
  <2> QED
    BY <2>3, <2>4
<1>8. TextOf(n) = [k \in kept |-> whole[k]]
  BY Zenon DEF TextOf, D, whole
<1>9. SubSeq(whole, 1, m) = [k \in 1 .. m |-> whole[k]]
  BY <1>3, <1>5
<1> QED
  BY <1>2, <1>3, <1>5, <1>7, <1>8, <1>9

LEMMA CutStep == BlocksTypeOK /\ CutInv /\ [BlocksNext]_block_vars => CutInv'
<1> SUFFICES ASSUME BlocksTypeOK, CutInv, [BlocksNext]_block_vars
             PROVE  CutInv'
    OBVIOUS
<1> DEFINE D == MTN_DM_BLOCK_DATA_LEN
           N == Len(message.blocks)
<1>1. D \in Nat /\ D > 0 /\ N \in Nat /\ Len(content) \in Nat /\ offset \in Nat
  BY DataLength DEF BlocksTypeOK
<1>2. CASE LoadBlock
  <2>1. stage = "load" /\ offset < Len(content) /\ offset = N * D
    BY <1>2 DEF LoadBlock, CutInv
  <2>2. Chunk \in Seq(Bytes) /\ CString(Chunk) = TextOf(N)
    BY <1>1, <2>1, ChunkIsText DEF BlocksTypeOK
  <2>3. /\ stage' = stage /\ content' = content
        /\ message'.blocks = Append(message.blocks, TextOf(N))
        /\ offset' = offset + Len(Chunk)
    BY <1>2, <2>2 DEF LoadBlock, BlocksTypeOK
  <2>4. /\ Len(message'.blocks) = N + 1
        /\ message'.blocks[N + 1] = TextOf(N)
        /\ \A n \in 1 .. N : message'.blocks[n] = message.blocks[n]
    BY <2>3 DEF BlocksTypeOK
  <2>5. ASSUME NEW n \in 1 .. Len(message'.blocks)
        PROVE  message'.blocks[n] = TextOf(n - 1)'
    <3>1. TextOf(n - 1)' = TextOf(n - 1)
      BY <2>3 DEF TextOf, Kept, StretchOf
    <3>2. CASE n \in 1 .. N
      BY <2>4, <3>1, <3>2 DEF CutInv
    <3>3. CASE n = N + 1
      <4>1. n - 1 = N
        BY <1>1, <3>3
      <4> QED
        BY <2>4, <3>1, <3>3, <4>1
    <3> QED
      BY <1>1, <2>4, <3>2, <3>3
  <2>6. (N + 1) * D = N * D + D /\ N * D \in Nat
    BY <1>1
  <2>7. Len(Chunk) = AtMost(D, Len(content) - offset)
    BY <1>1, <2>1, ChunkIs DEF BlocksTypeOK
  <2>8. /\ Len(content) > ((N + 1) - 1) * D
        /\ IF offset' < Len(content)
             THEN offset' = (N + 1) * D
             ELSE Len(content) <= (N + 1) * D
    <3>1. (N + 1) - 1 = N
      BY <1>1
    <3>2. CASE D < Len(content) - offset
      <4>1. offset' = N * D + D /\ offset' < Len(content)
        <5> HIDE DEF D, N
        <5> QED
          BY <1>1, <2>1, <2>3, <2>6, <2>7, <3>2 DEF AtMost
      <4> HIDE DEF D, N
      <4> QED
        BY <1>1, <2>1, <2>6, <3>1, <4>1
    <3>3. CASE ~ (D < Len(content) - offset)
      <4>1. offset' = Len(content) /\ Len(content) <= N * D + D
        <5> HIDE DEF D, N
        <5> QED
          BY <1>1, <2>1, <2>3, <2>6, <2>7, <3>3 DEF AtMost
      <4> HIDE DEF D, N
      <4> QED
        BY <1>1, <2>1, <2>6, <3>1, <4>1
    <3> QED
      BY <3>2, <3>3
  <2> QED
    BY <2>1, <2>3, <2>4, <2>5, <2>8 DEF CutInv
<1>3. ASSUME NEW failed \in BOOLEAN, LoadEnd(failed)
      PROVE  CutInv'
  <2>1. /\ stage = "load" /\ content' = content /\ message'.blocks = message.blocks
        /\ ~ failed => offset = Len(content)
    BY <1>3 DEF LoadEnd, BlocksTypeOK
  <2>2. \/ stage' = "ignored" /\ message.blocks = <<>>
        \/ stage' = "send" /\ message.blocks # <<>>
    BY <1>3 DEF LoadEnd
  <2>3. \A n \in Nat : TextOf(n)' = TextOf(n)
    BY <2>1 DEF TextOf, Kept, StretchOf
  <2>4. \A n \in 1 .. N : message'.blocks[n] = TextOf(n - 1)'
    BY <1>1, <2>1, <2>3 DEF CutInv
  <2>5. Len(content) > N * D => cut_short'
    <3>1. CASE failed
      BY <1>3, <3>1, Zenon DEF LoadEnd
    <3>2. CASE ~ failed
      <4>1. Len(content) <= N * D
        BY <1>1, <2>1, <3>2 DEF CutInv
      <4> HIDE DEF D, N
      <4> QED
        BY <1>1, <4>1
    <3> QED
      BY <3>1, <3>2
  <2>6. Len(content) > (N - 1) * D
    BY DEF CutInv
  <2>7. CASE stage' = "ignored"
    BY <2>1, <2>2, <2>4, <2>5, <2>6, <2>7 DEF CutInv
  <2>8. CASE stage' = "send"
    BY <2>1, <2>2, <2>4, <2>5, <2>6, <2>8 DEF CutInv
  <2> QED
    BY <2>2, <2>7, <2>8
<1>4. CASE ~ LoadBlock /\ ~ (\E failed \in BOOLEAN : LoadEnd(failed))
  <2>1. /\ UNCHANGED <<content, message, offset, cut_short>>
        /\ \/ stage' = stage
           \/ stage = "send" /\ stage' = "sent"
    BY <1>4 DEF BlocksNext, SendHead, SendBlock, SendEnd, Receive, block_vars
  <2>2. \A n \in Nat : TextOf(n)' = TextOf(n)
    BY <2>1 DEF TextOf, Kept, StretchOf
  <2> QED
    BY <1>1, <2>1, <2>2 DEF CutInv
<1> QED
  BY <1>2, <1>3, <1>4

\* What is sent of a message is its file, whole blocks in order, wherever reads
\* end and whatever the bytes are.
THEOREM BlocksAreTheFileAlways == BlocksSpec => []BlocksAreTheFile
<1>1. (\E bytes \in Seq(Bytes) : BlocksInit(bytes) /\ stage = "load") => CutInv
  <2> SUFFICES ASSUME NEW bytes \in Seq(Bytes), BlocksInit(bytes), stage = "load"
               PROVE  CutInv
      OBVIOUS
  <2>1. message.blocks = <<>> /\ offset = 0 /\ Len(content) \in Nat
    BY DEF BlocksInit
  <2>2. Len(message.blocks) = 0
    BY <2>1
  <2>3. Len(content) > (Len(message.blocks) - 1) * MTN_DM_BLOCK_DATA_LEN
    BY <2>1, <2>2, DataLength
  <2>4. IF offset < Len(content)
          THEN offset = Len(message.blocks) * MTN_DM_BLOCK_DATA_LEN
          ELSE Len(content) <= Len(message.blocks) * MTN_DM_BLOCK_DATA_LEN
    BY <2>1, <2>2, DataLength
  <2>5. 1 .. Len(message.blocks) = {}
    BY <2>2
  <2> QED
    BY <2>3, <2>4, <2>5 DEF CutInv
<1>2. CutInv => BlocksAreTheFile
  BY DEF CutInv, BlocksAreTheFile
<1> QED
  BY <1>1, <1>2, CutStep, BlocksTypeCorrect, PTL DEF BlocksSpec

(***************************************************************************)
(* The datagrams carry what the message has.                               *)
(***************************************************************************)

IsBlock(text) == \E i \in 1 .. Len(message.blocks) : text = message.blocks[i]

WireInv ==
  /\ stage \notin {"send", "sent"} => wire = {} /\ inbox = {}
  /\ \A d \in wire : d.type = "BLCK" =>
       /\ d.stamp = message.stamp /\ d.id = message.id /\ d.number = 1
       /\ IsBlock(d.text)

\* The room a block of the message has in a datagram.
LEMMA RoomIs ==
  ASSUME BlocksTypeOK, NEW d \in DatagramType,
         d.stamp = message.stamp, d.id = message.id, d.number = 1
  PROVE  Room(d) + TooLong = MTN_DM_BLOCK_DATA_LEN /\ TooLong \in Int
<1>1. d.stamp \in Nat /\ d.id \in Nat
  BY BlockAssumption DEF DatagramType
<1>2. Width(d.id) \in Nat /\ Width(d.number) = 3
  BY <1>1, WidthType DEF Width
<1> QED
  BY <1>1, <1>2, BlockAssumption
  DEF Room, HeadLength, TooLong, MTN_DM_BLOCK_DATA_LEN, MTN_DM_BLOCK_HEAD_LEN, MTN_MSG_TYPE_LEN

\* How the tail of a block is lost.
LossOf(text) ==
  \E i \in 1 .. Len(message.blocks) :
    \E n \in 0 .. Len(message.blocks[i]) :
      /\ text = SubSeq(message.blocks[i], 1, n)
      /\ n < Len(message.blocks[i]) => n + TooLong >= MTN_DM_BLOCK_DATA_LEN

LEMMA TailsStep ==
  BlocksTypeOK /\ WireInv /\ OnlyTailsLost /\ [BlocksNext]_block_vars
  => WireInv' /\ OnlyTailsLost'
<1> SUFFICES ASSUME BlocksTypeOK, WireInv, OnlyTailsLost, [BlocksNext]_block_vars
             PROVE  WireInv' /\ OnlyTailsLost'
    OBVIOUS
<1>0. \A d \in wire \cup inbox : d \in DatagramType
  BY DEF BlocksTypeOK, DatagramType
<1>1. \A d \in inbox : d.type = "BLCK" => LossOf(d.text)
  BY DEF OnlyTailsLost, LossOf
<1>2. CASE LoadBlock \/ (\E failed \in BOOLEAN : LoadEnd(failed))
  <2>1. wire' = {} /\ inbox' = {}
    BY <1>2 DEF LoadBlock, LoadEnd, WireInv
  <2> QED
    BY <2>1 DEF WireInv, OnlyTailsLost
<1>3. CASE SendHead \/ SendBlock
  <2>1. /\ UNCHANGED <<stage, message, inbox>> /\ stage = "send"
        /\ \A d \in wire' : \/ d \in wire
                          \/ d.type = "DATA"
                          \/ /\ d = Datagram("BLCK", 1, message.blocks[next])
                             /\ next \in 1 .. Len(message.blocks)
    BY <1>3 DEF SendHead, SendBlock, Send, Datagram
  <2>2. ASSUME NEW d \in wire', d.type = "BLCK"
        PROVE  /\ d.stamp = message.stamp /\ d.id = message.id /\ d.number = 1
               /\ IsBlock(d.text)
    BY <2>1, <2>2 DEF WireInv, Datagram, IsBlock
  <2> QED
    BY <2>1, <2>2 DEF WireInv, IsBlock, OnlyTailsLost, TooLong
<1>4. CASE SendEnd \/ UNCHANGED block_vars
  <2>1. /\ UNCHANGED <<message, wire, inbox>>
        /\ \/ stage' = stage
           \/ stage = "send" /\ stage' = "sent"
    BY <1>4 DEF SendEnd, block_vars
  <2> QED
    BY <2>1 DEF WireInv, IsBlock, OnlyTailsLost, TooLong
<1>5. ASSUME NEW d \in wire, Receive(d)
      PROVE  WireInv' /\ OnlyTailsLost'
  <2>1. UNCHANGED <<stage, message, wire>> /\ inbox' = inbox \cup {Received(d)}
    BY <1>5 DEF Receive
  <2>2. stage \in {"send", "sent"}
    BY DEF WireInv
  <2>3. Received(d).type = "BLCK" => LossOf(Received(d).text)
    <3> SUFFICES ASSUME Received(d).type = "BLCK" PROVE LossOf(Received(d).text)
        OBVIOUS
    <3>1. /\ d \in DatagramType /\ d.type = "BLCK"
          /\ Received(d).text = SubSeq(d.text, 1, AtMost(Len(d.text), Room(d)))
      BY <1>0, ReceivedIs
    <3>2. /\ d.stamp = message.stamp /\ d.id = message.id /\ d.number = 1
          /\ IsBlock(d.text)
      BY <3>1 DEF WireInv
    <3>3. PICK i \in 1 .. Len(message.blocks) : d.text = message.blocks[i]
      BY <3>2 DEF IsBlock
    <3>4. d.text \in Seq(Bytes) /\ Room(d) \in Int
      BY <3>1, RoomType DEF DatagramType
    <3>5. PICK n \in 0 .. Len(d.text) :
            /\ SubSeq(d.text, 1, AtMost(Len(d.text), Room(d))) = SubSeq(d.text, 1, n)
            /\ n < Len(d.text) => n >= Room(d)
      BY <3>4, Beginning
    <3>6. n < Len(d.text) => n + TooLong >= MTN_DM_BLOCK_DATA_LEN
      <4>1. Room(d) + TooLong = MTN_DM_BLOCK_DATA_LEN /\ TooLong \in Int
        BY <3>1, <3>2, RoomIs
      <4>2. n \in Int /\ MTN_DM_BLOCK_DATA_LEN \in Int
        BY DataLength
      <4> QED
        BY <3>4, <3>5, <4>1, <4>2
    <3> QED
      BY <3>1, <3>3, <3>5, <3>6 DEF LossOf
  <2>4. \A e \in inbox' : e.type = "BLCK" => LossOf(e.text)
    BY <1>1, <2>1, <2>3
  <2>5. OnlyTailsLost'
    BY <2>1, <2>4 DEF OnlyTailsLost, LossOf, TooLong
  <2> QED
    BY <2>1, <2>2, <2>5 DEF WireInv, IsBlock
<1> QED
  BY <1>2, <1>3, <1>4, <1>5 DEF BlocksNext

\* Whatever is lost or repeated on the way, what the client gets as a block is
\* a block of the message, but for the few last bytes there is no room for.
THEOREM OnlyTailsLostAlways == BlocksSpec => []OnlyTailsLost
<1>1. (\E bytes \in Seq(Bytes) : BlocksInit(bytes) /\ stage = "load")
      => WireInv /\ OnlyTailsLost
  BY DEF BlocksInit, WireInv, OnlyTailsLost
<1> QED
  BY <1>1, TailsStep, BlocksTypeCorrect, PTL DEF BlocksSpec
=============================================================================
