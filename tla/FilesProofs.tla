----------------------------- MODULE FilesProofs -----------------------------
(* Theorems about Files, for files of any length and any LINE_MAX_SIZE:     *)
(* what get_file_line makes of a file that is read in pieces, what becomes  *)
(* of the config file and of the server list, and the types of both         *)
(* programs' start.                                                        *)
EXTENDS Files, DataBlocksProofs, FiniteSetTheorems

(***************************************************************************)
(* Pieces of a file.                                                       *)
(***************************************************************************)

Boundary(i) == i % LINE_MAX_SIZE = 0

LEMMA PieceSize == LINE_MAX_SIZE \in Nat /\ LINE_MAX_SIZE >= 2 /\ Newline \in Symbols
BY LineAssumption

LEMMA BoundaryZero == Boundary(0)
BY PieceSize DEF Boundary

LEMMA BoundaryNext ==
  ASSUME NEW i \in Nat, Boundary(i)
  PROVE  Boundary(i + LINE_MAX_SIZE)
<1> DEFINE M == LINE_MAX_SIZE  q == i \div M
<1>1. M \in Nat /\ M >= 2
  BY PieceSize
<1> HIDE DEF M
<1>2. q \in Nat /\ i = q * M
  BY <1>1 DEF Boundary, M
<1>3. i + M = (q + 1) * M /\ q + 1 \in Nat
  BY <1>1, <1>2
<1>4. ((q + 1) * M) % M = 0
  <2> DEFINE r == q + 1
  <2>1. r \in Nat
    BY <1>3
  <2> HIDE DEF r
  <2>2. (r * M) % M = 0
    BY <1>1, <2>1
  <2> QED
    BY <2>2 DEF r
<1> QED
  BY <1>3, <1>4 DEF Boundary, M

LEMMA BoundaryGap ==
  ASSUME NEW i \in Nat, NEW j \in Nat, Boundary(i), Boundary(j), i < j
  PROVE  i + LINE_MAX_SIZE <= j
<1> DEFINE M == LINE_MAX_SIZE  q == i \div M  r == j \div M
<1>1. M \in Nat /\ M >= 2
  BY PieceSize
<1> HIDE DEF M
<1>2. q \in Nat /\ i = q * M
  BY <1>1 DEF Boundary, M
<1>3. r \in Nat /\ j = r * M
  BY <1>1 DEF Boundary, M
<1> HIDE DEF q, r
<1>4. q < r
  BY <1>1, <1>2, <1>3
<1>5. q * M + M <= r * M
  <2>1. r - q - 1 \in Nat
    BY <1>2, <1>3, <1>4
  <2>2. (r - q - 1) * M >= 0
    BY <1>1, <2>1
  <2>3. (r - q - 1) * M = r * M - q * M - M
    BY <1>1, <1>2, <1>3
  <2> QED
    BY <1>1, <1>2, <1>3, <2>2, <2>3
<1> QED
  BY <1>2, <1>3, <1>5 DEF M

LEMMA AloneIs ==
  ASSUME NEW n \in Nat, n >= 1
  PROVE  n % LINE_MAX_SIZE = 1 <=> Boundary(n - 1)
<1> DEFINE M == LINE_MAX_SIZE
<1>1. M \in Nat /\ M >= 2
  BY PieceSize
<1> HIDE DEF M
<1>2. n % M = 1 => (n - 1) % M = 0
  <2> SUFFICES ASSUME n % M = 1 PROVE (n - 1) % M = 0
    OBVIOUS
  <2> DEFINE q == n \div M
  <2>1. q \in Nat /\ n = q * M + 1
    BY <1>1
  <2>2. n - 1 = q * M
    BY <1>1, <2>1
  <2> HIDE DEF q
  <2>3. (q * M) % M = 0
    BY <1>1, <2>1
  <2> QED
    BY <2>2, <2>3
<1>3. (n - 1) % M = 0 => n % M = 1
  <2> SUFFICES ASSUME (n - 1) % M = 0 PROVE n % M = 1
    OBVIOUS
  <2> DEFINE q == (n - 1) \div M  d == n \div M  e == n % M
  <2>1. q \in Nat /\ n = q * M + 1
    BY <1>1
  <2>2. d \in Nat /\ e \in Nat /\ e < M /\ n = d * M + e
    BY <1>1
  <2> HIDE DEF q, d, e
  <2>3. (q - d) * M = e - 1
    BY <1>1, <2>1, <2>2
  <2>4. q - d \in Int
    BY <2>1, <2>2
  <2>5. ~ (q - d >= 1)
    <3> SUFFICES ASSUME q - d >= 1 PROVE FALSE
      OBVIOUS
    <3>1. (q - d) * M >= M
      BY <1>1, <2>4
    <3> QED
      BY <1>1, <2>2, <2>3, <3>1
  <2>6. ~ (q - d <= -1)
    <3> SUFFICES ASSUME q - d <= -1 PROVE FALSE
      OBVIOUS
    <3>1. (q - d) * M <= -M
      BY <1>1, <2>4
    <3> QED
      BY <1>1, <2>2, <2>3, <3>1
  <2>7. q = d
    BY <2>1, <2>2, <2>5, <2>6
  <2>8. e = 1
    BY <1>1, <2>1, <2>2, <2>7
  <2> QED
    BY <2>8 DEF e
<1> QED
  BY <1>2, <1>3 DEF Boundary, M

(***************************************************************************)
(* Part(f, i, j): what of f is behind i symbols, up to the one at j.       *)
(***************************************************************************)

Part(f, i, j) == SubSeq(f, i + 1, j)

LEMMA PartIs ==
  ASSUME NEW f \in Seq(Symbols), NEW i \in Nat, NEW j \in Nat, i <= j, j <= Len(f)
  PROVE  /\ Part(f, i, j) \in Seq(Symbols)
         /\ Len(Part(f, i, j)) = j - i
         /\ \A k \in 1 .. j - i : Part(f, i, j)[k] = f[i + k]
BY DEF Part

LEMMA SameSequence ==
  ASSUME NEW s \in Seq(Symbols), NEW t \in Seq(Symbols), Len(s) = Len(t),
         \A k \in 1 .. Len(s) : s[k] = t[k]
  PROVE  s = t
OBVIOUS

LEMMA PartOfPart ==
  ASSUME NEW f \in Seq(Symbols), NEW i \in Nat, NEW j \in Nat, i <= j, j <= Len(f),
         NEW k \in Nat, NEW l \in Nat, k <= l, l <= j - i
  PROVE  Part(Part(f, i, j), k, l) = Part(f, i + k, i + l)
<1> DEFINE p == Part(f, i, j)  s == Part(p, k, l)  t == Part(f, i + k, i + l)
<1>1. /\ p \in Seq(Symbols) /\ Len(p) = j - i
      /\ \A m \in 1 .. j - i : p[m] = f[i + m]
  BY PartIs
<1> HIDE DEF p
<1>2. /\ s \in Seq(Symbols) /\ Len(s) = l - k
      /\ \A m \in 1 .. l - k : s[m] = p[k + m]
  <2>1. p \in Seq(Symbols) /\ k \in Nat /\ l \in Nat /\ k <= l /\ l <= Len(p)
    BY <1>1
  <2> QED
    BY ONLY <2>1, PartIs
<1>3. /\ i + k \in Nat /\ i + l \in Nat /\ i + k <= i + l /\ i + l <= Len(f)
  BY <1>1
<1>4. /\ t \in Seq(Symbols) /\ Len(t) = (i + l) - (i + k)
      /\ \A m \in 1 .. (i + l) - (i + k) : t[m] = f[(i + k) + m]
  BY <1>3, PartIs
<1> HIDE DEF s, t
<1>5. \A m \in 1 .. l - k : p[k + m] = f[(i + k) + m]
  <2> TAKE m \in 1 .. l - k
  <2>1. k + m \in 1 .. j - i /\ i + (k + m) = (i + k) + m
    OBVIOUS
  <2> QED
    BY <1>1, <2>1
<1>6. (i + l) - (i + k) = l - k
  OBVIOUS
<1>7. s = t
  BY <1>2, <1>4, <1>5, <1>6, SameSequence
<1> QED
  BY <1>7 DEF s, t, p

LEMMA Joined ==
  ASSUME NEW s \in Seq(Symbols), NEW t \in Seq(Symbols)
  PROVE  /\ s \o t \in Seq(Symbols) /\ Len(s \o t) = Len(s) + Len(t)
         /\ \A m \in 1 .. Len(s) : (s \o t)[m] = s[m]
         /\ \A m \in Len(s) + 1 .. Len(s) + Len(t) : (s \o t)[m] = t[m - Len(s)]
OBVIOUS

LEMMA PartJoin ==
  ASSUME NEW f \in Seq(Symbols), NEW i \in Nat, NEW j \in Nat, NEW k \in Nat,
         i <= j, j <= k, k <= Len(f)
  PROVE  Part(f, i, j) \o Part(f, j, k) = Part(f, i, k)
<1> DEFINE s == Part(f, i, j)  t == Part(f, j, k)  u == Part(f, i, k)
<1>0. Len(f) \in Nat /\ j <= Len(f) /\ i <= k
  OBVIOUS
<1>1. s \in Seq(Symbols) /\ Len(s) = j - i /\ \A m \in 1 .. j - i : s[m] = f[i + m]
  BY <1>0, PartIs
<1>2. t \in Seq(Symbols) /\ Len(t) = k - j /\ \A m \in 1 .. k - j : t[m] = f[j + m]
  BY <1>0, PartIs
<1>3. u \in Seq(Symbols) /\ Len(u) = k - i /\ \A m \in 1 .. k - i : u[m] = f[i + m]
  BY <1>0, PartIs
<1> HIDE DEF s, t, u
<1> DEFINE w == s \o t
<1>4. /\ w \in Seq(Symbols) /\ Len(w) = Len(s) + Len(t)
      /\ \A m \in 1 .. Len(s) : w[m] = s[m]
      /\ \A m \in Len(s) + 1 .. Len(s) + Len(t) : w[m] = t[m - Len(s)]
  BY <1>1, <1>2, Joined
<1> HIDE DEF w
<1>5. Len(w) = k - i
  BY <1>0, <1>1, <1>2, <1>4
<1>6. \A m \in 1 .. k - i : w[m] = f[i + m]
  <2> TAKE m \in 1 .. k - i
  <2>1. CASE m <= j - i
    <3>1. m \in 1 .. Len(s) /\ m \in 1 .. j - i
      BY <1>1, <2>1
    <3> QED
      BY <1>1, <1>4, <3>1
  <2>2. CASE m > j - i
    <3>1. m - (j - i) \in 1 .. k - j /\ j + (m - (j - i)) = i + m
      BY <2>2
    <3>2. m \in Len(s) + 1 .. Len(s) + Len(t) /\ m - Len(s) = m - (j - i)
      BY <1>1, <1>2, <2>2
    <3> QED
      BY <1>2, <1>4, <3>1, <3>2
  <2>3. m \in Int /\ j - i \in Int
    OBVIOUS
  <2> QED
    BY <2>1, <2>2, <2>3
<1>7. w = u
  BY <1>0, <1>3, <1>4, <1>5, <1>6, SameSequence
<1> QED
  BY <1>7 DEF s, t, u, w

\* strspn and strcspn.
LEMMA SpanIs ==
  ASSUME NEW t \in Seq(Symbols), NEW S
  PROVE  /\ Span(t, S) \in 0 .. Len(t)
         /\ \A i \in 1 .. Span(t, S) : t[i] \in S
         /\ Span(t, S) < Len(t) => t[Span(t, S) + 1] \notin S
<1> DEFINE T == {n \in 0 .. Len(t) : n < Len(t) => t[n + 1] \notin S}
           Ok(n) == (\A i \in 1 .. n : t[i] \in S) /\ (n < Len(t) => t[n + 1] \notin S)
<1>0. Len(t) \in Nat /\ T \subseteq Nat /\ Len(t) \in T
  OBVIOUS
<1>1. PICK n \in T : \A m \in T : n <= m
  <2> HIDE DEF T
  <2> QED
    BY <1>0, HasLeast
<1>2. n \in 0 .. Len(t) /\ (n < Len(t) => t[n + 1] \notin S)
  OBVIOUS
<1>3. ASSUME NEW i \in 1 .. n PROVE t[i] \in S
  <2>1. i - 1 \in 0 .. Len(t) /\ i - 1 < Len(t) /\ (i - 1) + 1 = i /\ ~ (n <= i - 1)
    BY <1>0, <1>2
  <2>2. i - 1 \notin T
    <3> HIDE DEF T
    <3> QED
      BY <1>1, <2>1
  <2> QED
    BY <2>1, <2>2
<1>4. \E k \in 0 .. Len(t) : Ok(k)
  BY <1>2, <1>3
<1>5. Span(t, S) = CHOOSE k \in 0 .. Len(t) : Ok(k)
  BY DEF Span
<1> HIDE DEF Ok
<1>6. Span(t, S) \in 0 .. Len(t) /\ Ok(Span(t, S))
  BY <1>4, <1>5
<1> QED
  BY <1>6 DEF Ok

(***************************************************************************)
(* The inductive invariant of the reading.                                 *)
(***************************************************************************)

Free(f, i, j) == \A k \in i + 1 .. j : f[k] # Newline

LineStart(f, b) == b = 0 \/ f[b] = Newline \/ b = Len(f)

\* The last symbol comes alone in the last piece, and is no Newline.
AloneLast(f) == Len(f) > 1 /\ Boundary(Len(f) - 1) /\ f[Len(f)] # Newline

\* How much of the file is got in lines, and how much is read.
At == Len(file) - Len(reader.rest) - Len(reader.buffer)
Got == Len(file) - Len(reader.rest)

ReaderInv ==
  /\ reader \in [buffer : Seq(Symbols), rest : Seq(Symbols)]
  /\ At \in Nat /\ Got \in Nat /\ At <= Got /\ Got <= Len(file)
  /\ reader.buffer = Part(file, At, Got) /\ reader.rest = Part(file, Got, Len(file))
  /\ Len(reader.buffer) <= LINE_MAX_SIZE
  /\ Got = Len(file) \/ Boundary(Got)
  /\ AloneLast(file) /\ Got = Len(file) => At = Len(file)

\* A call that waits got c, which begins behind b and ends a piece at e.
FrameIs(f, b, e, c) ==
  /\ b \in Nat /\ e \in Nat /\ b <= e /\ 1 <= e /\ e <= Len(f)
  /\ c = Part(f, b, e) /\ e - b <= LINE_MAX_SIZE
  /\ e = Len(f) \/ Boundary(e)
  /\ AloneLast(f) /\ e = Len(f) /\ b < Len(f) => b = Len(f) - 1

\* The first of the calls is for a nonempty line.
FirstIs(f, b, e, c) ==
  /\ c = <<>> => b >= 1 /\ f[b] = Newline /\ (b >= 2 => f[b - 1] = Newline)
  /\ AloneLast(f) /\ e = Len(f) /\ b = Len(f) - 1 => ~ LastLost(f)

Ends(k) == IF k < Len(begins) THEN begins[k + 1] ELSE At

CallsInv ==
  /\ calls \in Seq(Seq(Symbols)) /\ begins \in Seq(Nat)
  /\ Len(begins) = IF reading = "return" THEN Len(calls) + 1 ELSE Len(calls)
  /\ begins # <<>> => begins[1] <= Len(file) /\ LineStart(file, begins[1])
  /\ \A k \in 1 .. Len(calls) :
       /\ FrameIs(file, begins[k], Ends(k), calls[k])
       /\ begins[1] <= begins[k] /\ Free(file, begins[1], Ends(k))
       /\ k >= 2 => calls[k] # <<>>
  /\ calls # <<>> => FirstIs(file, begins[1], Ends(1), calls[1])

CallInv ==
  /\ calls # <<>> => reader.buffer = <<>>
  /\ calls = <<>> =>
       /\ LineStart(file, At)
       /\ reader.buffer = <<>> /\ At < Len(file) /\ At >= 2 => file[At - 1] # Newline

\* What is returned of a line that begins at b, by a call whose part of it begins
\* at s, when there is a Newline,
LineIs(f, b, s, a, r) ==
  /\ 1 <= a /\ s <= a - 1 /\ f[a] = Newline /\ Free(f, b, a - 1)
  /\ r.line = Part(f, s, a - 1) /\ r.length = a - 1 - s
  /\ r.line = <<>> => Boundary(s)

\* when there is none,
RestIs(f, b, s, a, r, first) ==
  /\ a = Len(f) /\ Free(f, b, a)
  /\ r.line = Part(f, s, a) /\ r.length = a - s - 1
  /\ AloneLast(f) /\ s < a => s = a - 1
  /\ first /\ s < a => ~ LastLost(f)

\* and when the last symbol is lost.
LostIs(f, b, s, a, r, first) ==
  /\ a = Len(f) /\ Free(f, b, a) /\ s < a
  /\ AloneLast(f) /\ LastLost(f)
  /\ r.line = Part(f, s, a - 1) /\ r.length = a - 1 - s
  /\ s = a - 1 => first

ReturnInv ==
  LET b == begins[1]  s == begins[Len(begins)]
  IN  /\ returned \in [length : Int, line : Seq(Symbols)]
      /\ returned.length <= LINE_MAX_SIZE
      /\ b <= s /\ s <= Len(file)
      /\ \/ LineIs(file, b, s, At, returned)
         \/ RestIs(file, b, s, At, returned, calls = <<>>)
         \/ LostIs(file, b, s, At, returned, calls = <<>>)

\* What is to come out of the file.
Expected(f) == IF LastLost(f) THEN Front(f) ELSE f

Within(f, a) == {p \in Stretches(f) : p[2] <= a}

First == IF begins = <<>> THEN At ELSE begins[1]

LinesGot ==
  /\ lines = Cut(file, Within(Expected(file), First))
  /\ \A p \in Within(file, First) : p[2] - p[1] + 1 <= LINE_MAX_SIZE + 1

ClosedInv == Got = Len(file) /\ reader.buffer = <<>> /\ calls = <<>> /\ begins = <<>>

LinesInv ==
  /\ file \in Seq(Symbols) /\ lines \in Seq(Seq(Symbols) \ {<<>>})
  /\ reading \in {"call", "return", "closed", "fatal"}
  /\ ReaderInv
  /\ reading = "fatal" => \E p \in Stretches(file) : p[2] - p[1] + 1 > LINE_MAX_SIZE
  /\ reading # "fatal" => CallsInv /\ LinesGot
  /\ reading = "call" => CallInv
  /\ reading = "return" => ReturnInv
  /\ reading = "closed" => ClosedInv

(***************************************************************************)
(* What a call finds in the buffer.                                        *)
(***************************************************************************)

LEMMA FileTypes ==
  ASSUME LinesInv
  PROVE  /\ file \in Seq(Symbols) /\ Len(file) \in Nat
         /\ reader.buffer \in Seq(Symbols) /\ reader.rest \in Seq(Symbols)
         /\ At \in Nat /\ Got \in Nat /\ At <= Got /\ Got <= Len(file)
         /\ Len(reader.buffer) = Got - At /\ Len(reader.rest) = Len(file) - Got
<1>1. file \in Seq(Symbols) /\ Len(file) \in Nat
  BY DEF LinesInv
<1>2. reader.buffer \in Seq(Symbols) /\ reader.rest \in Seq(Symbols)
  BY DEF LinesInv, ReaderInv
<1>3. Len(reader.buffer) \in Nat /\ Len(reader.rest) \in Nat
  BY <1>2
<1>4. At \in Nat /\ Got \in Nat /\ At <= Got /\ Got <= Len(file)
  BY DEF LinesInv, ReaderInv
<1>5. Len(reader.rest) = Len(file) - Got
  BY <1>1, <1>3 DEF Got
<1>6. Len(reader.buffer) = Got - At
  BY <1>1, <1>3 DEF Got, At
<1> QED
  BY <1>1, <1>2, <1>4, <1>5, <1>6

\* How much is read when the call looks for its line.
Read == Len(file) - Len(Filled.rest)

LEMMA FillIs ==
  ASSUME NEW r \in Seq(Symbols)
  PROVE  \E n \in Nat :
           /\ n <= Len(r) /\ n <= LINE_MAX_SIZE
           /\ n < Len(r) => n = LINE_MAX_SIZE
           /\ Fill(r).buffer = Part(r, 0, n) /\ Fill(r).rest = Part(r, n, Len(r))
           /\ Fill(r) \in [buffer : Seq(Symbols), rest : Seq(Symbols)]
           /\ Len(Fill(r).rest) = Len(r) - n
<1> DEFINE n == AtMostPiece(Len(r))
<1>1. n \in Nat /\ n <= Len(r) /\ n <= LINE_MAX_SIZE /\ (n < Len(r) => n = LINE_MAX_SIZE)
  BY PieceSize DEF AtMostPiece
<1>2. Fill(r) = Reader(SubSeq(r, 1, n), SubSeq(r, n + 1, Len(r)))
  BY DEF Fill
<1> HIDE DEF n
<1>3. Fill(r).buffer = Part(r, 0, n) /\ Fill(r).rest = Part(r, n, Len(r))
  BY <1>1, <1>2 DEF Reader, Part
<1>4. Len(r) \in Nat /\ Len(r) <= Len(r) /\ 0 <= n /\ 0 \in Nat
  BY <1>1
<1>5. Part(r, 0, n) \in Seq(Symbols)
  BY <1>1, <1>4, PartIs
<1>6. Part(r, n, Len(r)) \in Seq(Symbols) /\ Len(Part(r, n, Len(r))) = Len(r) - n
  BY <1>1, <1>4, PartIs
<1>7. Fill(r) \in [buffer : Seq(Symbols), rest : Seq(Symbols)]
  BY <1>2, <1>3, <1>5, <1>6 DEF Reader
<1> QED
  BY <1>1, <1>3, <1>6, <1>7

LEMMA FilledIs ==
  ASSUME LinesInv
  PROVE  /\ Filled \in [buffer : Seq(Symbols), rest : Seq(Symbols)]
         /\ Read \in Nat /\ At <= Read /\ Got <= Read /\ Read <= Len(file)
         /\ Filled.buffer = Part(file, At, Read) /\ Filled.rest = Part(file, Read, Len(file))
         /\ Len(Filled.buffer) = Read - At /\ Len(Filled.rest) = Len(file) - Read
         /\ Read - At <= LINE_MAX_SIZE
         /\ Read = Len(file) \/ Boundary(Read)
         /\ At = Read => At = Len(file)
         /\ AloneLast(file) /\ Read = Len(file) /\ At < Len(file) =>
              At = Len(file) - 1 /\ reader.buffer = <<>>
<1> DEFINE N == Len(file)
<1>1. /\ file \in Seq(Symbols) /\ N \in Nat
      /\ reader.buffer \in Seq(Symbols) /\ reader.rest \in Seq(Symbols)
      /\ At \in Nat /\ Got \in Nat /\ At <= Got /\ Got <= N
      /\ Len(reader.buffer) = Got - At /\ Len(reader.rest) = N - Got
  BY FileTypes
<1>2. /\ reader.buffer = Part(file, At, Got) /\ reader.rest = Part(file, Got, N)
      /\ Len(reader.buffer) <= LINE_MAX_SIZE
      /\ Got = N \/ Boundary(Got)
      /\ AloneLast(file) /\ Got = N => At = N
      /\ reader \in [buffer : Seq(Symbols), rest : Seq(Symbols)]
  BY DEF LinesInv, ReaderInv
<1> HIDE DEF N
<1>3. CASE reader.buffer # <<>>
  <2>1. Filled = reader
    BY <1>3 DEF Filled
  <2>2. Read = N - (N - Got)
    BY <1>1, <2>1 DEF Read, N
  <2>3. Read = Got
    BY <1>1, <2>2
  <2>4. At # Read
    BY <1>1, <1>3, <2>3
  <2>5. Got - At <= LINE_MAX_SIZE
    BY <1>1, <1>2
  <2> QED
    BY <1>1, <1>2, <2>1, <2>3, <2>4, <2>5 DEF N
<1>4. CASE reader.buffer = <<>>
  <2>1. At = Got
    BY <1>1, <1>4
  <2> DEFINE r == reader.rest
  <2>2. PICK n \in Nat :
          /\ n <= Len(r) /\ n <= LINE_MAX_SIZE
          /\ n < Len(r) => n = LINE_MAX_SIZE
          /\ Fill(r).buffer = Part(r, 0, n) /\ Fill(r).rest = Part(r, n, Len(r))
          /\ Fill(r) \in [buffer : Seq(Symbols), rest : Seq(Symbols)]
          /\ Len(Fill(r).rest) = Len(r) - n
    BY <1>1, FillIs
  <2>3. Filled = Fill(r)
    BY <1>4 DEF Filled
  <2>4. Read = N - ((N - Got) - n)
    BY <1>1, <2>2, <2>3 DEF Read, N
  <2>5. Read = Got + n /\ Read \in Nat /\ n <= N - Got
    BY <1>1, <2>2, <2>4
  <2>6. /\ Part(r, 0, n) = Part(file, Got + 0, Got + n)
        /\ Part(r, n, N - Got) = Part(file, Got + n, Got + (N - Got))
    <3>1. /\ r = Part(file, Got, N) /\ N <= Len(file) /\ N - Got \in Nat
          /\ 0 \in Nat /\ 0 <= n /\ n <= N - Got /\ N - Got <= N - Got
      BY <1>1, <1>2, <2>2, <2>5 DEF N
    <3>2. Part(Part(file, Got, N), 0, n) = Part(file, Got + 0, Got + n)
      BY <1>1, <2>2, <3>1, PartOfPart
    <3>3. Part(Part(file, Got, N), n, N - Got) = Part(file, Got + n, Got + (N - Got))
      BY <1>1, <2>2, <3>1, PartOfPart
    <3> QED
      BY <3>1, <3>2, <3>3
  <2>7. Filled.buffer = Part(file, At, Read) /\ Filled.rest = Part(file, Read, N)
    <3>1. Got + 0 = Got /\ Got + (N - Got) = N
      BY <1>1
    <3> QED
      BY <1>1, <2>1, <2>2, <2>3, <2>5, <2>6, <3>1
  <2>8. Read <= N /\ At <= Read /\ Got <= Read /\ Read - At <= LINE_MAX_SIZE
    BY <1>1, <2>1, <2>2, <2>5, PieceSize
  <2>9. Len(Filled.buffer) = Read - At /\ Len(Filled.rest) = N - Read
    <3>1. N <= Len(file) /\ Len(file) \in Nat
      BY <1>1 DEF N
    <3>2. Len(Part(file, At, Read)) = Read - At
      BY <1>1, <2>5, <2>8, <3>1, PartIs
    <3>3. Len(Part(file, Read, N)) = N - Read
      BY <1>1, <2>5, <2>8, <3>1, PartIs
    <3> QED
      BY <2>7, <3>2, <3>3
  <2>10. Read = N \/ Boundary(Read)
    <3>1. CASE n = Len(r)
      BY <1>1, <2>5, <3>1
    <3>2. CASE n < Len(r)
      <4>1. n = LINE_MAX_SIZE /\ Got # N
        BY <1>1, <2>2, <3>2
      <4>2. Boundary(Got + LINE_MAX_SIZE)
        BY <1>1, <1>2, <4>1, BoundaryNext
      <4> QED
        BY <2>5, <4>1, <4>2
    <3> QED
      BY <1>1, <2>2, <3>1, <3>2
  <2>11. At = Read => At = N
    BY <1>1, <2>1, <2>2, <2>5, PieceSize
  <2>12. AloneLast(file) /\ Read = N /\ At < N => At = N - 1
    <3> SUFFICES ASSUME AloneLast(file), Read = N, At < N, At # N - 1 PROVE FALSE
      OBVIOUS
    <3>1. Boundary(N - 1) /\ Boundary(Got) /\ N - 1 \in Nat /\ Got < N - 1
      BY <1>1, <1>2, <2>1 DEF AloneLast, N
    <3>2. Got + LINE_MAX_SIZE <= N - 1
      BY <1>1, <3>1, BoundaryGap
    <3> QED
      BY <1>1, <2>2, <2>5, <3>2, PieceSize
  <2> QED
    BY <1>4, <2>2, <2>3, <2>5, <2>7, <2>8, <2>9, <2>10, <2>11, <2>12 DEF N
<1> QED
  BY <1>3, <1>4

\* Where the line of the call begins.
Start == Len(file) - Len(Filled.rest) - Len(Text)

LEMMA TextIs ==
  ASSUME LinesInv
  PROVE  /\ Start \in Nat /\ At <= Start /\ Start <= Read
         /\ Text \in Seq(Symbols) /\ Text = Part(file, Start, Read) /\ Len(Text) = Read - Start
         /\ calls # <<>> => Start = At
         /\ calls = <<>> => /\ \A k \in At + 1 .. Start : file[k] = Newline
                            /\ Start < Read => file[Start + 1] # Newline
<1> DEFINE N == Len(file)  B == Filled.buffer
           skip == IF calls = <<>> THEN Span(B, {Newline}) ELSE 0
<1>1. /\ Filled \in [buffer : Seq(Symbols), rest : Seq(Symbols)]
      /\ Read \in Nat /\ At <= Read /\ Read <= N
      /\ B = Part(file, At, Read) /\ Len(B) = Read - At
      /\ Len(Filled.rest) = N - Read
  BY FilledIs
<1>2. file \in Seq(Symbols) /\ N \in Nat /\ At \in Nat
  BY FileTypes
<1>3. /\ skip \in Nat /\ skip <= Len(B)
      /\ calls = <<>> => /\ \A i \in 1 .. skip : B[i] = Newline
                         /\ skip < Len(B) => B[skip + 1] # Newline
  <2>1. B \in Seq(Symbols)
    BY <1>1
  <2> HIDE DEF B
  <2>2. CASE calls = <<>>
    BY <2>1, <2>2, SpanIs
  <2>3. CASE calls # <<>>
    BY <2>1, <2>3
  <2> QED
    BY <2>2, <2>3
<1>4. Text = Part(B, skip, Len(B))
  BY DEF Text, Part
<1>5. calls # <<>> => skip = 0
  OBVIOUS
<1>6. \A k \in 1 .. Read - At : B[k] = file[At + k]
  <2>1. \A k \in 1 .. Read - At : Part(file, At, Read)[k] = file[At + k]
    BY <1>1, <1>2, PartIs
  <2> QED
    BY <1>1, <2>1
<1> HIDE DEF N, B, skip
<1>7. Text = Part(file, At + skip, At + (Read - At))
  BY <1>1, <1>2, <1>3, <1>4, PartOfPart DEF N
<1>8. At + (Read - At) = Read /\ At + skip \in Nat /\ At + skip <= Read /\ At <= At + skip
  BY <1>1, <1>2, <1>3
<1>9. Text = Part(file, At + skip, Read)
  BY <1>7, <1>8
<1>10. Text \in Seq(Symbols) /\ Len(Text) = Read - (At + skip)
  BY <1>1, <1>2, <1>8, <1>9, PartIs DEF N
<1>11. Start = N - (N - Read) - (Read - (At + skip))
  BY <1>1, <1>10 DEF Start, N
<1>12. Start = At + skip
  BY <1>1, <1>2, <1>8, <1>11
<1>13. ASSUME calls = <<>>
       PROVE  /\ \A k \in At + 1 .. Start : file[k] = Newline
              /\ Start < Read => file[Start + 1] # Newline
  <2>1. ASSUME NEW k \in At + 1 .. Start PROVE file[k] = Newline
    <3>1. k - At \in 1 .. skip /\ k - At \in 1 .. Read - At /\ At + (k - At) = k
      BY <1>1, <1>2, <1>3, <1>12
    <3> QED
      BY <1>3, <1>6, <1>13, <3>1
  <2>2. ASSUME Start < Read PROVE file[Start + 1] # Newline
    <3>1. skip < Len(B) /\ skip + 1 \in 1 .. Read - At /\ At + (skip + 1) = Start + 1
      BY <1>1, <1>2, <1>3, <1>12, <2>2
    <3> QED
      BY <1>3, <1>6, <1>13, <3>1
  <2> QED
    BY <2>1, <2>2
<1> QED
  BY <1>5, <1>8, <1>9, <1>10, <1>12, <1>13, <1>2

LEMMA LengthIs ==
  ASSUME LinesInv
  PROVE  /\ LineLength \in Nat /\ LineLength <= Len(Text)
         /\ Free(file, Start, Start + LineLength)
         /\ LineLength < Len(Text) => file[Start + LineLength + 1] = Newline
         /\ SubSeq(Text, 1, LineLength) = Part(file, Start, Start + LineLength)
         /\ LineLength < Len(Text) =>
              SubSeq(Text, LineLength + 2, Len(Text)) = Part(file, Start + LineLength + 1, Read)
<1> DEFINE L == LineLength
<1>1. /\ Start \in Nat /\ Start <= Read
      /\ Text \in Seq(Symbols) /\ Text = Part(file, Start, Read) /\ Len(Text) = Read - Start
  BY TextIs
<1>2. file \in Seq(Symbols) /\ Len(file) \in Nat
  BY FileTypes
<1>3. Read \in Nat /\ Read <= Len(file)
  BY FilledIs
<1>4. /\ L \in 0 .. Len(Text)
      /\ \A i \in 1 .. L : Text[i] \in Symbols \ {Newline}
      /\ L < Len(Text) => Text[L + 1] \notin Symbols \ {Newline}
  BY <1>1, SpanIs DEF LineLength
<1> HIDE DEF L
<1>5. \A k \in 1 .. Read - Start : Text[k] = file[Start + k]
  BY <1>1, <1>2, <1>3, PartIs
<1>6. L \in Nat /\ L <= Len(Text)
  BY <1>1, <1>4
<1>7. ASSUME NEW k \in Start + 1 .. Start + L PROVE file[k] # Newline
  <2>1. k - Start \in 1 .. L /\ k - Start \in 1 .. Read - Start /\ Start + (k - Start) = k
    BY <1>1, <1>3, <1>6
  <2> QED
    BY <1>4, <1>5, <2>1
<1>8. ASSUME L < Len(Text) PROVE file[Start + L + 1] = Newline
  <2>1. L + 1 \in 1 .. Read - Start /\ L + 1 \in 1 .. Len(Text) /\ Start + (L + 1) = Start + L + 1
    BY <1>1, <1>3, <1>6, <1>8
  <2>2. Text[L + 1] \in Symbols
    BY <1>1, <2>1
  <2> QED
    BY <1>4, <1>5, <1>8, <2>1, <2>2
<1>9. SubSeq(Text, 1, L) = Part(file, Start, Start + L)
  <2>1. Part(Part(file, Start, Read), 0, L) = Part(file, Start + 0, Start + L)
    BY <1>1, <1>2, <1>3, <1>6, PartOfPart
  <2>2. Start + 0 = Start /\ 0 + 1 = 1
    BY <1>1
  <2> QED
    BY <1>1, <2>1, <2>2 DEF Part
<1>10. ASSUME L < Len(Text) PROVE SubSeq(Text, L + 2, Len(Text)) = Part(file, Start + L + 1, Read)
  <2>1. L + 1 \in Nat /\ L + 1 <= Len(Text) /\ Len(Text) \in Nat
    BY <1>1, <1>3, <1>6, <1>10
  <2>2. Part(Part(file, Start, Read), L + 1, Read - Start) = Part(file, Start + (L + 1), Start + (Read - Start))
    BY <1>1, <1>2, <1>3, <2>1, PartOfPart
  <2>3. Start + (L + 1) = Start + L + 1 /\ Start + (Read - Start) = Read /\ L + 2 = (L + 1) + 1
    BY <1>1, <1>3, <1>6
  <2> QED
    BY <1>1, <2>2, <2>3 DEF Part
<1> QED
  BY <1>6, <1>7, <1>8, <1>9, <1>10 DEF Free, L

(***************************************************************************)
(* The lines of a file, one after the other.                               *)
(***************************************************************************)

LEMMA StretchHas ==
  ASSUME NEW f \in Seq(Symbols), NEW p \in Stretches(f)
  PROVE  /\ p = <<p[1], p[2]>> /\ p[1] \in Nat /\ p[2] \in Nat
         /\ 1 <= p[1] /\ p[1] <= p[2] /\ p[2] <= Len(f)
         /\ p[1] > 1 => f[p[1] - 1] = Newline
         /\ p[2] < Len(f) => f[p[2] + 1] = Newline
         /\ \A i \in p[1] .. p[2] : f[i] # Newline
<1>1. Len(f) \in Nat
  OBVIOUS
<1>2. /\ p \in (1 .. Len(f)) \X (1 .. Len(f))
      /\ p[1] <= p[2]
      /\ p[1] > 1 => f[p[1] - 1] = Newline
      /\ p[2] < Len(f) => f[p[2] + 1] = Newline
      /\ \A i \in p[1] .. p[2] : f[i] # Newline
  BY DEF Stretches
<1>3. p = <<p[1], p[2]>> /\ p[1] \in 1 .. Len(f) /\ p[2] \in 1 .. Len(f)
  BY <1>2
<1> QED
  BY <1>1, <1>2, <1>3

LEMMA WithinFinite ==
  ASSUME NEW f \in Seq(Symbols), NEW a \in Nat
  PROVE  /\ IsFiniteSet(Within(f, a))
         /\ \A p \in Within(f, a) : p[1] \in Nat /\ p[1] <= p[2] /\ p[2] <= a /\ p[2] \in Nat
<1>1. Len(f) \in Nat
  OBVIOUS
<1>2. IsFiniteSet(1 .. Len(f))
  BY <1>1, FS_Interval
<1>3. IsFiniteSet((1 .. Len(f)) \X (1 .. Len(f)))
  BY <1>2, FS_Product
<1>4. Within(f, a) \subseteq (1 .. Len(f)) \X (1 .. Len(f))
  BY DEF Within, Stretches
<1>5. IsFiniteSet(Within(f, a))
  BY <1>3, <1>4, FS_Subset
<1> QED
  BY <1>5, StretchHas DEF Within

LEMMA NoStretch ==
  ASSUME NEW f \in Seq(Symbols), NEW a \in Nat, NEW s \in Nat, a <= s,
         \A k \in a + 1 .. s : f[k] = Newline
  PROVE  Within(f, s) = Within(f, a)
<1>1. ASSUME NEW p \in Stretches(f), p[2] <= s PROVE p[2] <= a
  <2>1. p[1] \in Nat /\ p[2] \in Nat /\ p[1] <= p[2] /\ \A i \in p[1] .. p[2] : f[i] # Newline
    BY StretchHas
  <2>2. f[p[2]] # Newline
    BY <2>1
  <2> QED
    BY <1>1, <2>1, <2>2
<1>2. ASSUME NEW p \in Stretches(f), p[2] <= a PROVE p[2] <= s
  <2>1. p[2] \in Nat
    BY StretchHas
  <2> QED
    BY <1>2, <2>1
<1> QED
  BY <1>1, <1>2 DEF Within

\* From where the program begins to look for a line to where the line ends.
LineAt(f, b, c) ==
  /\ b < c /\ c <= Len(f)
  /\ b = 0 \/ f[b] = Newline
  /\ Free(f, b, c)
  /\ c = Len(f) \/ f[c + 1] = Newline

LEMMA StretchAt ==
  ASSUME NEW f \in Seq(Symbols), NEW b \in Nat, NEW c \in Nat, LineAt(f, b, c)
  PROVE  /\ <<b + 1, c>> \in Stretches(f)
         /\ \A q : q \in Within(f, c) <=> q \in Within(f, b) \/ q = <<b + 1, c>>
<1> USE DEF LineAt
<1>1. Len(f) \in Nat /\ b + 1 \in 1 .. Len(f) /\ c \in 1 .. Len(f) /\ b + 1 <= c
  OBVIOUS
<1>2. <<b + 1, c>> \in Stretches(f)
  <2> DEFINE p == <<b + 1, c>>
  <2>1. p \in (1 .. Len(f)) \X (1 .. Len(f)) /\ p[1] = b + 1 /\ p[2] = c
    BY <1>1
  <2>2. p[1] > 1 => f[p[1] - 1] = Newline
    <3>1. (b + 1) - 1 = b
      OBVIOUS
    <3> QED
      BY <2>1, <3>1
  <2>3. p[2] < Len(f) => f[p[2] + 1] = Newline
    BY <1>1, <2>1
  <2>4. \A i \in p[1] .. p[2] : f[i] # Newline
    BY <2>1 DEF Free
  <2> HIDE DEF p
  <2>5. p \in Stretches(f)
    BY <1>1, <2>1, <2>2, <2>3, <2>4 DEF Stretches
  <2> QED
    BY <2>5 DEF p
<1>3. ASSUME NEW q \in Stretches(f), q[2] <= c, ~ (q[2] <= b) PROVE q = <<b + 1, c>>
  <2>1. /\ q = <<q[1], q[2]>> /\ q[1] \in Nat /\ q[2] \in Nat
        /\ 1 <= q[1] /\ q[1] <= q[2] /\ q[2] <= Len(f)
        /\ q[1] > 1 => f[q[1] - 1] = Newline
        /\ q[2] < Len(f) => f[q[2] + 1] = Newline
        /\ \A i \in q[1] .. q[2] : f[i] # Newline
    BY StretchHas
  <2>2. \A k \in b + 1 .. c : f[k] # Newline
    BY DEF Free
  <2>3. ~ (q[1] > b + 1)
    <3> SUFFICES ASSUME q[1] > b + 1 PROVE FALSE
      OBVIOUS
    <3>1. q[1] - 1 \in b + 1 .. c /\ q[1] > 1
      BY <1>3, <2>1
    <3> QED
      BY <2>1, <2>2, <3>1
  <2>4. ~ (q[1] < b + 1)
    <3> SUFFICES ASSUME q[1] < b + 1 PROVE FALSE
      OBVIOUS
    <3>1. b \in q[1] .. q[2] /\ b # 0
      BY <1>3, <2>1
    <3> QED
      BY <2>1, <3>1
  <2>5. ~ (q[2] < c)
    <3> SUFFICES ASSUME q[2] < c PROVE FALSE
      OBVIOUS
    <3>1. q[2] + 1 \in b + 1 .. c /\ q[2] < Len(f)
      BY <1>1, <1>3, <2>1
    <3> QED
      BY <2>1, <2>2, <3>1
  <2> QED
    BY <1>3, <2>1, <2>3, <2>4, <2>5
<1>4. ASSUME NEW q \in Stretches(f), q[2] <= b PROVE q[2] <= c
  <2>1. q[2] \in Nat
    BY StretchHas
  <2> QED
    BY <1>4, <2>1
<1>5. <<b + 1, c>>[2] <= c
  OBVIOUS
<1> QED
  BY <1>2, <1>3, <1>4, <1>5 DEF Within

LEMMA RankIs ==
  ASSUME NEW S \in SUBSET (Nat \X Nat), IsFiniteSet(S), NEW p \in Nat \X Nat,
         \A q \in S : q[1] < p[1]
  PROVE  /\ Cardinality(S \cup {p}) = Cardinality(S) + 1 /\ Cardinality(S) \in Nat
         /\ \A k \in 1 .. Cardinality(S) : Nth(S \cup {p}, k) = Nth(S, k)
         /\ Nth(S \cup {p}, Cardinality(S) + 1) = p
<1> DEFINE T == S \cup {p}  n == Cardinality(S)
           Before(A, x) == {q \in A : q[1] <= x[1]}
           Rank(A, k) == {x \in A : Cardinality(Before(A, x)) = k}
<1>1. p \notin S /\ p[1] \in Nat /\ \A q \in S : q[1] \in Nat
  OBVIOUS
<1>2. n \in Nat /\ Cardinality(T) = n + 1
  BY <1>1, FS_CardinalityType, FS_AddElement
<1>3. ASSUME NEW x \in S
      PROVE  /\ Before(T, x) = Before(S, x)
             /\ Cardinality(Before(S, x)) \in Nat /\ Cardinality(Before(S, x)) <= n
  <2>1. ~ (p[1] <= x[1])
    BY <1>1
  <2>2. Before(T, x) = Before(S, x)
    BY <2>1
  <2>3. Before(S, x) \subseteq S
    OBVIOUS
  <2> HIDE DEF Before, T
  <2> QED
    BY <2>2, <2>3, FS_Subset, FS_CardinalityType
<1>4. Cardinality(Before(T, p)) = n + 1
  <2>1. \A q \in S : q[1] <= p[1]
    BY <1>1
  <2>2. Before(T, p) = T
    BY <1>1, <2>1
  <2> QED
    BY <1>2, <2>2
<1> HIDE DEF Before
<1>5. ASSUME NEW k \in 1 .. n PROVE Nth(T, k) = Nth(S, k)
  <2>1. k # n + 1
    BY <1>2
  <2>2. Rank(T, k) = Rank(S, k)
    BY <1>3, <1>4, <2>1
  <2>3. Nth(T, k) = Pick(Rank(T, k)) /\ Nth(S, k) = Pick(Rank(S, k))
    BY DEF Nth, Before
  <2> HIDE DEF Rank
  <2> QED
    BY <2>2, <2>3
<1>6. Nth(T, n + 1) = p
  <2>1. ASSUME NEW x \in S PROVE Cardinality(Before(T, x)) # n + 1
    <3> DEFINE r == Cardinality(Before(T, x))
    <3>1. r \in Nat /\ r <= n
      BY <1>3
    <3> HIDE DEF r, n
    <3>2. r # n + 1
      BY <1>2, <3>1
    <3> QED
      BY <3>2 DEF r
  <2>2. Rank(T, n + 1) = {p}
    BY <1>4, <2>1
  <2>3. Nth(T, n + 1) = Pick(Rank(T, n + 1))
    BY DEF Nth, Before
  <2> HIDE DEF Rank
  <2>4. Pick({p}) = p
    BY DEF Pick
  <2> QED
    BY <2>2, <2>3, <2>4
<1> QED
  BY <1>2, <1>5, <1>6

LEMMA CutAppend ==
  ASSUME NEW f \in Seq(Symbols), NEW S \in SUBSET (Nat \X Nat), IsFiniteSet(S),
         NEW p \in Nat \X Nat, \A q \in S : q[1] < p[1]
  PROVE  Cut(f, S \cup {p}) = Append(Cut(f, S), SubSeq(f, p[1], p[2]))
<1> DEFINE T == S \cup {p}  n == Cardinality(S)  c == Cut(f, S)  d == Cut(f, T)
           e == SubSeq(f, p[1], p[2])
           X == {c[k] : k \in 1 .. n} \cup {e}
<1>1. /\ Cardinality(T) = n + 1 /\ n \in Nat
      /\ \A k \in 1 .. n : Nth(T, k) = Nth(S, k)
      /\ Nth(T, n + 1) = p
  BY RankIs
<1>2. DOMAIN c = 1 .. n /\ c = [k \in 1 .. n |-> c[k]]
  BY DEF Cut
<1>3. \A k \in 1 .. n : c[k] = SubSeq(f, Nth(S, k)[1], Nth(S, k)[2])
  BY DEF Cut
<1>4. d = [k \in 1 .. n + 1 |-> SubSeq(f, Nth(T, k)[1], Nth(T, k)[2])]
  BY <1>1 DEF Cut
<1>5. c \in [1 .. n -> X]
  BY <1>2
<1> HIDE DEF T, n, c, d
<1>6. ASSUME NEW k \in 1 .. n PROVE d[k] = c[k]
  <2>1. k \in 1 .. n + 1
    BY <1>1
  <2>2. d[k] = SubSeq(f, Nth(T, k)[1], Nth(T, k)[2])
    BY <1>4, <2>1
  <2>3. Nth(T, k) = Nth(S, k)
    BY <1>1
  <2> QED
    BY <1>3, <2>2, <2>3
<1>7. d[n + 1] = e
  <2>1. n + 1 \in 1 .. n + 1
    BY <1>1
  <2>2. d[n + 1] = SubSeq(f, Nth(T, n + 1)[1], Nth(T, n + 1)[2])
    BY <1>4, <2>1
  <2> QED
    BY <1>1, <2>2
<1> HIDE DEF X, e
<1>8. e \in X
  BY DEF X
<1>9. c \in Seq(X) /\ Len(c) = n
  BY <1>1, <1>5
<1> DEFINE w == Append(c, e)
<1>10. /\ w \in Seq(X) /\ Len(w) = n + 1
       /\ \A k \in 1 .. n : w[k] = c[k]
       /\ w[n + 1] = e
  BY <1>1, <1>8, <1>9
<1> HIDE DEF w
<1>11. d = [k \in 1 .. n + 1 |-> d[k]]
  BY <1>4
<1>12. w = [k \in 1 .. n + 1 |-> w[k]]
  BY <1>1, <1>10
<1>13. ASSUME NEW k \in 1 .. n + 1 PROVE d[k] = w[k]
  <2>1. k = n + 1 \/ k \in 1 .. n
    BY <1>1
  <2> QED
    BY <1>6, <1>7, <1>10, <2>1
<1>14. d = w
  BY <1>11, <1>12, <1>13
<1> QED
  BY <1>14 DEF c, d, e, T, w

LEMMA WithinAll ==
  ASSUME NEW f \in Seq(Symbols), NEW a \in Nat, Len(f) <= a
  PROVE  Within(f, a) = Stretches(f)
<1>1. ASSUME NEW p \in Stretches(f) PROVE p[2] <= a
  <2>1. p[2] \in Nat /\ p[2] <= Len(f) /\ Len(f) \in Nat
    BY StretchHas
  <2> QED
    BY <2>1
<1> QED
  BY <1>1 DEF Within

LEMMA ExpectedIs ==
  ASSUME NEW f \in Seq(Symbols)
  PROVE  /\ LastLost(f) <=> /\ AloneLast(f)
                            /\ f[Len(f) - 1] # Newline \/ f[Len(f) - 2] = Newline
         /\ AloneLast(f) => Len(f) >= 3
         /\ Expected(f) \in Seq(Symbols)
         /\ LastLost(f) => Len(Expected(f)) = Len(f) - 1
         /\ ~ LastLost(f) => Expected(f) = f
         /\ \A k \in 1 .. Len(Expected(f)) : Expected(f)[k] = f[k]
<1> DEFINE N == Len(f)
<1>1. N \in Nat
  OBVIOUS
<1>2. LastLost(f) <=> /\ AloneLast(f)
                      /\ f[N - 1] # Newline \/ f[N - 2] = Newline
  <2>1. N > 1 => (N % LINE_MAX_SIZE = 1 <=> Boundary(N - 1))
    <3> HIDE DEF N
    <3> QED
      BY <1>1, AloneIs
  <2>2. LastLost(f) <=> /\ N > 1 /\ N % LINE_MAX_SIZE = 1 /\ f[N] # Newline
                        /\ f[N - 1] # Newline \/ f[N - 2] = Newline
    BY DEF LastLost
  <2>3. AloneLast(f) <=> N > 1 /\ Boundary(N - 1) /\ f[N] # Newline
    BY DEF AloneLast
  <2> HIDE DEF N
  <2> QED
    BY <2>1, <2>2, <2>3
<1>3. AloneLast(f) => N >= 3
  <2> SUFFICES ASSUME AloneLast(f) PROVE N >= 3
    OBVIOUS
  <2>1. N > 1 /\ Boundary(N - 1)
    BY DEF AloneLast
  <2> HIDE DEF N
  <2>2. N - 1 \in Nat /\ 0 \in Nat /\ 0 < N - 1
    BY <1>1, <2>1
  <2>3. 0 + LINE_MAX_SIZE <= N - 1
    BY <2>1, <2>2, BoundaryZero, BoundaryGap
  <2> QED
    BY <1>1, <2>3, PieceSize
<1>4. CASE LastLost(f)
  <2>1. N >= 3 /\ Expected(f) = Part(f, 0, N - 1)
    BY <1>2, <1>3, <1>4 DEF Expected, Front, Part
  <2>2. 0 \in Nat /\ N - 1 \in Nat /\ 0 <= N - 1 /\ N - 1 <= Len(f)
    BY <1>1, <2>1
  <2>3. /\ Part(f, 0, N - 1) \in Seq(Symbols) /\ Len(Part(f, 0, N - 1)) = (N - 1) - 0
        /\ \A k \in 1 .. (N - 1) - 0 : Part(f, 0, N - 1)[k] = f[0 + k]
    BY <2>2, PartIs
  <2>4. \A k \in 1 .. N - 1 : Expected(f)[k] = f[k]
    BY <1>1, <2>1, <2>3
  <2> QED
    BY <1>1, <1>2, <1>3, <1>4, <2>1, <2>3, <2>4
<1>5. CASE ~ LastLost(f)
  BY <1>2, <1>3, <1>5 DEF Expected
<1> QED
  BY <1>4, <1>5

\* Newlines between two places: no line of the file ends there.
LEMMA GotNothing ==
  ASSUME NEW f \in Seq(Symbols), NEW a \in Nat, NEW s \in Nat, a <= s, s <= Len(f),
         \A k \in a + 1 .. s : f[k] = Newline
  PROVE  Within(Expected(f), s) = Within(Expected(f), a)
<1> DEFINE G == Expected(f)
<1>1. /\ G \in Seq(Symbols)
      /\ \A k \in 1 .. Len(G) : G[k] = f[k]
      /\ LastLost(f) => Len(G) = Len(f) - 1 /\ f[Len(f)] # Newline
      /\ ~ LastLost(f) => Len(G) = Len(f)
  BY ExpectedIs DEF AloneLast
<1> HIDE DEF G
<1>2. CASE a = s
  BY <1>2
<1>3. CASE a < s
  <2>1. f[s] = Newline
    BY <1>3
  <2>2. s <= Len(G)
    BY <1>1, <2>1
  <2>3. \A k \in a + 1 .. s : G[k] = Newline
    BY <1>1, <2>2
  <2> QED
    BY <1>1, <2>3, NoStretch DEF G
<1> QED
  BY <1>2, <1>3

\* A line of the file.
LEMMA GotLine ==
  ASSUME NEW f \in Seq(Symbols), NEW b \in Nat, NEW c \in Nat, b < c, c <= Len(Expected(f)),
         b = 0 \/ f[b] = Newline, Free(f, b, c),
         c = Len(Expected(f)) \/ f[c + 1] = Newline
  PROVE  Cut(f, Within(Expected(f), c)) = Append(Cut(f, Within(Expected(f), b)), Part(f, b, c))
<1> DEFINE G == Expected(f)  S == Within(G, b)  p == <<b + 1, c>>
<1>1. G \in Seq(Symbols) /\ \A k \in 1 .. Len(G) : G[k] = f[k]
  BY ExpectedIs
<1> HIDE DEF G
<1>2. Len(G) \in Nat /\ c <= Len(G) /\ (c = Len(G) \/ f[c + 1] = Newline)
  BY <1>1 DEF G
<1>3. b = 0 \/ G[b] = Newline
  BY <1>1, <1>2
<1>4. Free(G, b, c)
  <2>1. \A k \in b + 1 .. c : k \in 1 .. Len(G)
    BY <1>2
  <2> QED
    BY <1>1, <2>1 DEF Free
<1>5. c = Len(G) \/ G[c + 1] = Newline
  <2>1. c < Len(G) => c + 1 \in 1 .. Len(G)
    BY <1>2
  <2> QED
    BY <1>1, <1>2, <2>1
<1>6. Within(G, c) = S \cup {p}
  <2>1. LineAt(G, b, c)
    BY <1>2, <1>3, <1>4, <1>5 DEF LineAt
  <2>2. \A q : q \in Within(G, c) <=> q \in Within(G, b) \/ q = <<b + 1, c>>
    BY <1>1, <2>1, StretchAt
  <2> QED
    BY <2>2
<1>7. IsFiniteSet(S) /\ \A q \in S : q[1] \in Nat /\ q[1] <= q[2] /\ q[2] <= b /\ q[2] \in Nat
  BY <1>1, WithinFinite
<1>8. S \in SUBSET (Nat \X Nat)
  <2>1. \A q \in S : q = <<q[1], q[2]>>
    BY <1>1, StretchHas DEF Within
  <2> HIDE DEF S
  <2> QED
    BY <1>7, <2>1
<1>9. p \in Nat \X Nat /\ p[1] = b + 1 /\ p[2] = c
  OBVIOUS
<1> HIDE DEF S, p
<1>10. \A q \in S : q[1] < p[1]
  BY <1>7, <1>9
<1>11. Cut(f, S \cup {p}) = Append(Cut(f, S), SubSeq(f, p[1], p[2]))
  BY <1>7, <1>8, <1>9, <1>10, CutAppend
<1> QED
  BY <1>6, <1>9, <1>11 DEF S, G, Part

LEMMA FrontIs ==
  ASSUME NEW X, NEW s \in Seq(X), s # <<>>
  PROVE  /\ Front(s) \in Seq(X) /\ Len(Front(s)) = Len(s) - 1 /\ Len(s) >= 1
         /\ \A k \in 1 .. Len(s) - 1 : Front(s)[k] = s[k]
         /\ Last(s) = s[Len(s)]
<1>1. Len(s) \in Nat /\ Len(s) >= 1
  OBVIOUS
<1> DEFINE n == Len(s) - 1  t == SubSeq(s, 1, n)
<1>2. n \in Nat /\ n <= Len(s)
  BY <1>1
<1> HIDE DEF n
<1>3. t \in Seq(X) /\ Len(t) = n /\ \A k \in 1 .. n : t[k] = s[k]
  BY <1>1, <1>2
<1>4. Front(s) = t
  BY DEF Front, n
<1>5. Last(s) = s[Len(s)]
  BY DEF Last
<1> HIDE DEF t
<1> QED
  BY <1>1, <1>3, <1>4, <1>5 DEF n

LEMMA AppendIs ==
  ASSUME NEW X, NEW s \in Seq(X), NEW x \in X
  PROVE  /\ Append(s, x) \in Seq(X) /\ Len(Append(s, x)) = Len(s) + 1
         /\ \A k \in 1 .. Len(s) : Append(s, x)[k] = s[k]
         /\ Append(s, x)[Len(s) + 1] = x
OBVIOUS

(***************************************************************************)
(* The steps of get_file_line.                                             *)
(***************************************************************************)

LEMMA PartNothing == ASSUME NEW f \in Seq(Symbols), NEW i \in Nat PROVE Part(f, i, i) = <<>>
BY DEF Part

\* What a call leaves in the buffer is the rest of what was read, from a on.
LEMMA ReaderStep ==
  ASSUME LinesInv, file' = file, NEW a \in Nat, At <= a, a <= Read,
         reader' = Reader(Part(file, a, Read), Filled.rest),
         AloneLast(file) /\ Read = Len(file) => a = Len(file)
  PROVE  ReaderInv' /\ At' = a /\ Got' = Read
<1> DEFINE N == Len(file)
<1>1. /\ Filled \in [buffer : Seq(Symbols), rest : Seq(Symbols)]
      /\ Read \in Nat /\ Read <= N
      /\ Filled.rest = Part(file, Read, N) /\ Len(Filled.rest) = N - Read
      /\ Read - At <= LINE_MAX_SIZE
      /\ Read = N \/ Boundary(Read)
  BY FilledIs
<1>2. file \in Seq(Symbols) /\ N \in Nat /\ At \in Nat
  BY FileTypes
<1> HIDE DEF N
<1>3. Part(file, a, Read) \in Seq(Symbols) /\ Len(Part(file, a, Read)) = Read - a
  BY <1>1, <1>2, PartIs DEF N
<1>4. reader'.buffer = Part(file, a, Read) /\ reader'.rest = Filled.rest
  BY DEF Reader
<1>5. reader' \in [buffer : Seq(Symbols), rest : Seq(Symbols)]
  BY <1>1, <1>3 DEF Reader
<1>6. Got' = N - (N - Read)
  BY <1>1, <1>4 DEF Got, N
<1>7. At' = N - (N - Read) - (Read - a)
  BY <1>1, <1>3, <1>4 DEF At, N
<1>8. Got' = Read /\ At' = a
  BY <1>1, <1>2, <1>6, <1>7
<1>9. Len(reader'.buffer) <= LINE_MAX_SIZE
  <2>1. Len(reader'.buffer) = Read - a
    BY <1>3, <1>4
  <2> QED
    BY <1>1, <1>2, <2>1, PieceSize
<1>10. reader'.buffer = Part(file', At', Got') /\ reader'.rest = Part(file', Got', Len(file'))
  BY <1>1, <1>4, <1>8 DEF N
<1>11. Got' = Len(file') \/ Boundary(Got')
  BY <1>1, <1>8 DEF N
<1>12. AloneLast(file') /\ Got' = Len(file') => At' = Len(file')
  BY <1>8
<1>13. At' \in Nat /\ Got' \in Nat /\ At' <= Got' /\ Got' <= Len(file')
  BY <1>1, <1>8 DEF N
<1> QED
  BY <1>5, <1>8, <1>9, <1>10, <1>11, <1>12, <1>13 DEF ReaderInv

LEMMA Chain ==
  ASSUME NEW f, NEW i \in Nat, NEW j \in Nat, NEW k \in Nat, Free(f, i, j), Free(f, j, k)
  PROVE  Free(f, i, k)
BY DEF Free

\* A call that begins changes nothing for those that wait.
LEMMA FramesKept ==
  ASSUME LinesInv, reading = "call", file' = file, Begin
  PROVE  /\ begins' \in Seq(Nat) /\ Len(begins') = Len(calls) + 1
         /\ begins'[Len(calls) + 1] = Start
         /\ begins'[1] \in Nat /\ begins'[1] <= Start /\ Start <= Len(file)
         /\ LineStart(file, begins'[1]) /\ Free(file, begins'[1], Start)
         /\ calls = <<>> => begins'[1] = Start
         /\ \A k \in 1 .. Len(calls) :
              /\ Ends(k)' = Ends(k) /\ begins'[k] = begins[k]
              /\ FrameIs(file, begins[k], Ends(k), calls[k])
              /\ begins'[1] <= begins[k] /\ Free(file, begins'[1], Ends(k))
              /\ k >= 2 => calls[k] # <<>>
         /\ calls # <<>> => /\ FirstIs(file, begins'[1], Ends(1), calls[1])
                            /\ Start = At /\ (Start = Len(file) \/ Boundary(Start))
         /\ Within(Expected(file), begins'[1]) = Within(Expected(file), First)
         /\ Within(file, begins'[1]) = Within(file, First)
<1> DEFINE n == Len(calls)
<1>1. /\ Start \in Nat /\ At <= Start /\ Start <= Read
      /\ calls # <<>> => Start = At
      /\ calls = <<>> => \A k \in At + 1 .. Start : file[k] = Newline
  BY TextIs
<1>2. Read \in Nat /\ Read <= Len(file)
  BY FilledIs
<1>3. file \in Seq(Symbols) /\ Len(file) \in Nat /\ At \in Nat
  BY FileTypes
<1>4. /\ calls \in Seq(Seq(Symbols)) /\ begins \in Seq(Nat)
      /\ Len(begins) = n
      /\ begins # <<>> => LineStart(file, begins[1])
      /\ \A k \in 1 .. n :
           /\ FrameIs(file, begins[k], Ends(k), calls[k])
           /\ begins[1] <= begins[k] /\ Free(file, begins[1], Ends(k))
           /\ k >= 2 => calls[k] # <<>>
      /\ calls # <<>> => FirstIs(file, begins[1], Ends(1), calls[1])
  BY DEF LinesInv, CallsInv
<1>5. begins' = Append(begins, Start)
  BY DEF Begin, Start
<1>6. n \in Nat /\ (calls = <<>> <=> n = 0) /\ (begins = <<>> <=> n = 0)
  BY <1>4
<1> HIDE DEF n
<1>7. /\ begins' \in Seq(Nat) /\ Len(begins') = n + 1
      /\ \A k \in 1 .. n : begins'[k] = begins[k]
      /\ begins'[n + 1] = Start
  BY <1>1, <1>4, <1>5, AppendIs
<1>8. Start <= Len(file)
  BY <1>1, <1>2, <1>3
<1>9. ASSUME NEW k \in 1 .. n PROVE Ends(k)' = Ends(k)
  <2>1. Ends(k)' = begins'[k + 1]
    BY <1>6, <1>7, <1>9 DEF Ends
  <2>2. CASE k < n
    <3>1. Ends(k) = begins[k + 1] /\ k + 1 \in 1 .. n
      BY <1>4, <1>6, <2>2 DEF Ends
    <3> QED
      BY <1>7, <2>1, <3>1
  <2>3. CASE k = n
    <3>1. Ends(k) = At /\ calls # <<>>
      BY <1>4, <1>6, <2>3 DEF Ends
    <3> QED
      BY <1>1, <1>7, <2>1, <2>3, <3>1
  <2> QED
    BY <1>6, <2>2, <2>3
<1>10. CASE calls = <<>>
  <2>1. n = 0 /\ begins = <<>> /\ begins'[1] = Start /\ First = At
    BY <1>6, <1>7, <1>10 DEF First
  <2>2. LineStart(file, At)
    BY <1>10 DEF LinesInv, CallInv
  <2>3. LineStart(file, Start)
    <3>1. CASE Start = At
      BY <2>2, <3>1
    <3>2. CASE Start # At
      <4>1. Start \in At + 1 .. Start
        BY <1>1, <1>3, <3>2
      <4> QED
        BY <1>1, <1>10, <4>1 DEF LineStart
    <3> QED
      BY <3>1, <3>2
  <2>4. Free(file, Start, Start)
    BY <1>1 DEF Free
  <2>5. Within(Expected(file), Start) = Within(Expected(file), At)
    BY <1>1, <1>3, <1>8, <1>10, GotNothing
  <2>6. Within(file, Start) = Within(file, At)
    BY <1>1, <1>3, <1>8, <1>10, NoStretch
  <2>7. \A k \in 1 .. n : FALSE
    BY <2>1
  <2> QED
    BY <1>1, <1>7, <1>8, <1>10, <2>1, <2>3, <2>4, <2>5, <2>6, <2>7 DEF n
<1>11. CASE calls # <<>>
  <2>1. n >= 1 /\ 1 \in 1 .. n /\ n \in 1 .. n /\ begins # <<>> /\ Start = At
    BY <1>1, <1>6, <1>11
  <2>2. begins'[1] = begins[1] /\ First = begins[1]
    BY <1>7, <2>1 DEF First
  <2>3. Ends(n) = Start
    BY <1>4, <1>6, <2>1 DEF Ends
  <2>4. FrameIs(file, begins[n], Start, calls[n]) /\ begins[1] <= begins[n] /\ Free(file, begins[1], Start)
    BY <1>4, <2>1, <2>3
  <2>5. begins[1] \in Nat /\ begins[n] \in Nat /\ begins[1] <= Start
    BY <1>1, <1>4, <2>1, <2>4 DEF FrameIs
  <2>6. Start = Len(file) \/ Boundary(Start)
    BY <2>4 DEF FrameIs
  <2>7. LineStart(file, begins[1])
    BY <1>4, <2>1
  <2>8. \A k \in 1 .. n : /\ Ends(k)' = Ends(k) /\ begins'[k] = begins[k]
                          /\ FrameIs(file, begins[k], Ends(k), calls[k])
                          /\ begins[1] <= begins[k] /\ Free(file, begins[1], Ends(k))
                          /\ k >= 2 => calls[k] # <<>>
    BY <1>4, <1>7, <1>9
  <2>9. FirstIs(file, begins[1], Ends(1), calls[1])
    BY <1>4, <1>11
  <2> QED
    BY <1>7, <1>8, <1>11, <2>1, <2>2, <2>4, <2>5, <2>6, <2>7, <2>8, <2>9 DEF n
<1> QED
  BY <1>10, <1>11

\* Only a call that ends the file, or waits, reads a last symbol that comes alone.
LEMMA AloneRead ==
  ASSUME LinesInv, AloneLast(file), Read = Len(file), At < Len(file)
  PROVE  /\ At = Len(file) - 1 /\ Start = At /\ LineLength = Len(Text) /\ Len(Text) = 1
         /\ reader.buffer = <<>>
<1> DEFINE N == Len(file)
<1>1. At = N - 1 /\ reader.buffer = <<>>
  BY FilledIs
<1>2. N \in Nat /\ N >= 1 /\ At \in Nat /\ file[N] # Newline
  BY FileTypes DEF AloneLast
<1>3. /\ Start \in Nat /\ At <= Start /\ Start <= Read /\ Len(Text) = Read - Start
      /\ calls # <<>> => Start = At
      /\ calls = <<>> => \A k \in At + 1 .. Start : file[k] = Newline
  BY TextIs
<1>4. /\ LineLength \in Nat /\ LineLength <= Len(Text)
      /\ LineLength < Len(Text) => file[Start + LineLength + 1] = Newline
  BY LengthIs
<1> HIDE DEF N
<1>5. Start = At
  <2> SUFFICES ASSUME Start # At, calls = <<>> PROVE FALSE
    BY <1>3
  <2>1. N \in At + 1 .. Start
    BY <1>1, <1>2, <1>3 DEF N
  <2> QED
    BY <1>2, <1>3, <2>1
<1>6. Len(Text) = 1
  BY <1>1, <1>2, <1>3, <1>5 DEF N
<1>7. ~ (LineLength < Len(Text))
  <2> SUFFICES ASSUME LineLength < Len(Text) PROVE FALSE
    OBVIOUS
  <2>1. LineLength = 0
    BY <1>4, <1>6
  <2>2. Start + LineLength + 1 = N
    BY <1>1, <1>2, <1>5, <2>1
  <2> QED
    BY <1>2, <1>4, <2>2
<1> QED
  BY <1>1, <1>4, <1>5, <1>6, <1>7 DEF N

LEMMA GotSame ==
  ASSUME LinesInv, reading = "call", file' = file, Begin, lines' = lines
  PROVE  LinesGot' /\ First' = begins'[1]
<1>1. /\ begins' \in Seq(Nat) /\ Len(begins') = Len(calls) + 1
      /\ Within(Expected(file), begins'[1]) = Within(Expected(file), First)
      /\ Within(file, begins'[1]) = Within(file, First)
  BY FramesKept
<1>2. Len(calls) \in Nat
  BY DEF LinesInv, CallsInv
<1>3. begins' # <<>>
  BY <1>1, <1>2
<1>4. First' = begins'[1]
  BY <1>3 DEF First
<1>5. /\ lines = Cut(file, Within(Expected(file), First))
      /\ \A p \in Within(file, First) : p[2] - p[1] + 1 <= LINE_MAX_SIZE + 1
  BY DEF LinesInv, LinesGot
<1>6. lines' = Cut(file', Within(Expected(file'), First'))
  BY <1>1, <1>4, <1>5
<1>7. \A p \in Within(file', First') : p[2] - p[1] + 1 <= LINE_MAX_SIZE + 1
  BY <1>1, <1>4, <1>5
<1> QED
  BY <1>4, <1>6, <1>7 DEF LinesGot

LEMMA CallsReturn ==
  ASSUME LinesInv, reading = "call", file' = file, Begin, calls' = calls, reading' = "return"
  PROVE  CallsInv'
<1>1. /\ begins' \in Seq(Nat) /\ Len(begins') = Len(calls) + 1
      /\ begins'[1] \in Nat /\ begins'[1] <= Start /\ Start <= Len(file)
      /\ LineStart(file, begins'[1])
      /\ \A k \in 1 .. Len(calls) :
           /\ Ends(k)' = Ends(k) /\ begins'[k] = begins[k]
           /\ FrameIs(file, begins[k], Ends(k), calls[k])
           /\ begins'[1] <= begins[k] /\ Free(file, begins'[1], Ends(k))
           /\ k >= 2 => calls[k] # <<>>
      /\ calls # <<>> => FirstIs(file, begins'[1], Ends(1), calls[1])
  BY FramesKept
<1>2. calls \in Seq(Seq(Symbols)) /\ Len(calls) \in Nat /\ Len(file) \in Nat
  BY FileTypes DEF LinesInv, CallsInv
<1>3. Start \in Nat
  BY TextIs
<1>4. begins'[1] <= Len(file')
  BY <1>1, <1>2, <1>3
<1>5. \A k \in 1 .. Len(calls') :
        /\ FrameIs(file', begins'[k], Ends(k)', calls'[k])
        /\ begins'[1] <= begins'[k] /\ Free(file', begins'[1], Ends(k)')
        /\ k >= 2 => calls'[k] # <<>>
  BY <1>1
<1>6. calls' # <<>> => FirstIs(file', begins'[1], Ends(1)', calls'[1])
  <2>1. calls # <<>> => 1 \in 1 .. Len(calls)
    BY <1>2
  <2> QED
    BY <1>1, <2>1
<1>7. Len(begins') = IF reading' = "return" THEN Len(calls') + 1 ELSE Len(calls')
  BY <1>1
<1> QED
  BY <1>1, <1>2, <1>4, <1>5, <1>6, <1>7 DEF CallsInv

LEMMA ReturnStep ==
  ASSUME LinesInv, reading = "call", file' = file, Begin, calls' = calls, reading' = "return",
         lines' = lines, ReaderInv', ReturnInv'
  PROVE  LinesInv'
<1>1. CallsInv' /\ LinesGot'
  BY GotSame, CallsReturn
<1>2. file' \in Seq(Symbols) /\ lines' \in Seq(Seq(Symbols) \ {<<>>})
  BY DEF LinesInv
<1> QED
  BY <1>1, <1>2 DEF LinesInv

LEMMA ReadEndStep == LinesInv /\ ReadEnd => LinesInv'
<1> SUFFICES ASSUME LinesInv, ReadEnd PROVE LinesInv'
  OBVIOUS
<1> DEFINE N == Len(file)
<1>1. /\ reading = "call" /\ Filled.buffer = <<>> /\ reading' = "return"
      /\ returned' = Returned(-1, <<>>) /\ reader' = Filled /\ Begin
      /\ file' = file /\ calls' = calls /\ lines' = lines
  BY DEF ReadEnd
<1>2. file \in Seq(Symbols) /\ N \in Nat /\ At \in Nat
  BY FileTypes
<1>3. /\ Filled \in [buffer : Seq(Symbols), rest : Seq(Symbols)]
      /\ Read \in Nat /\ At <= Read /\ Read <= N
      /\ Len(Filled.buffer) = Read - At
      /\ At = Read => At = N
  BY FilledIs
<1>4. Read = N /\ At = N
  BY <1>1, <1>2, <1>3
<1>5. Start = N
  <2>1. Start \in Nat /\ At <= Start /\ Start <= Read
    BY TextIs
  <2> QED
    BY <1>2, <1>4, <2>1
<1> HIDE DEF N
<1>6. reader' = Reader(Part(file, N, Read), Filled.rest)
  <2>1. Part(file, N, N) = <<>>
    BY <1>2, PartNothing
  <2> QED
    BY <1>1, <1>3, <1>4, <2>1 DEF Reader
<1>7. ReaderInv' /\ At' = N
  BY <1>1, <1>2, <1>3, <1>4, <1>6, ReaderStep DEF N
<1>8. /\ begins' \in Seq(Nat) /\ Len(begins') = Len(calls) + 1
      /\ begins'[Len(calls) + 1] = Start
      /\ begins'[1] \in Nat /\ begins'[1] <= Start
      /\ Free(file, begins'[1], Start)
  BY <1>1, FramesKept
<1>9. RestIs(file, begins'[1], N, N, returned', calls = <<>>)
  <2>1. returned'.line = <<>> /\ returned'.length = -1 /\ N - N - 1 = -1
    BY <1>1, <1>2 DEF Returned
  <2>2. Part(file, N, N) = <<>>
    BY <1>2, PartNothing
  <2>3. ~ (N < N)
    BY <1>2
  <2> QED
    BY <1>5, <1>8, <2>1, <2>2, <2>3 DEF RestIs, N
<1>10. ReturnInv'
  <2>1. returned' \in [length : Int, line : Seq(Symbols)] /\ returned'.length <= LINE_MAX_SIZE
    BY <1>1, PieceSize DEF Returned
  <2>2. begins'[Len(begins')] = N /\ begins'[1] <= N /\ N <= Len(file')
    BY <1>1, <1>2, <1>5, <1>8 DEF N
  <2>3. RestIs(file', begins'[1], begins'[Len(begins')], At', returned', calls' = <<>>)
    BY <1>1, <1>7, <1>9, <2>2
  <2> QED
    BY <2>1, <2>2, <2>3 DEF ReturnInv
<1> QED
  BY <1>1, <1>7, <1>10, ReturnStep

LEMMA ReadLineStep == LinesInv /\ ReadLine => LinesInv'
<1> SUFFICES ASSUME LinesInv, ReadLine PROVE LinesInv'
  OBVIOUS
<1> DEFINE N == Len(file)  L == LineLength  a == Start + L + 1
<1>1. /\ reading = "call" /\ L < Len(Text) /\ reading' = "return"
      /\ returned' = Returned(L, SubSeq(Text, 1, L))
      /\ reader' = Reader(SubSeq(Text, L + 2, Len(Text)), Filled.rest) /\ Begin
      /\ file' = file /\ calls' = calls /\ lines' = lines
  BY DEF ReadLine
<1>2. file \in Seq(Symbols) /\ N \in Nat /\ At \in Nat
  BY FileTypes
<1>3. Read \in Nat /\ At <= Read /\ Read <= N /\ Read - At <= LINE_MAX_SIZE
  BY FilledIs
<1>4. /\ Start \in Nat /\ At <= Start /\ Start <= Read /\ Len(Text) = Read - Start
      /\ calls = <<>> => (Start < Read => file[Start + 1] # Newline)
  BY TextIs
<1>5. /\ L \in Nat /\ Free(file, Start, Start + L)
      /\ file[a] = Newline
      /\ SubSeq(Text, 1, L) = Part(file, Start, Start + L)
      /\ SubSeq(Text, L + 2, Len(Text)) = Part(file, a, Read)
  BY <1>1, LengthIs
<1>6. /\ begins' \in Seq(Nat) /\ Len(begins') = Len(calls) + 1
      /\ begins'[Len(calls) + 1] = Start
      /\ begins'[1] \in Nat /\ begins'[1] <= Start /\ Start <= N
      /\ Free(file, begins'[1], Start)
      /\ calls # <<>> => Start = N \/ Boundary(Start)
  BY <1>1, FramesKept
<1> HIDE DEF N, L
<1>7. /\ a \in Nat /\ At <= a /\ a <= Read /\ Start < Read /\ At < N /\ Start < N
      /\ a - 1 = Start + L /\ 1 <= a /\ Start <= a - 1 /\ L <= LINE_MAX_SIZE
  BY <1>1, <1>2, <1>3, <1>4, <1>5, PieceSize
<1>8. ~ (AloneLast(file) /\ Read = N)
  <2> SUFFICES ASSUME AloneLast(file), Read = N PROVE FALSE
    OBVIOUS
  <2>1. L = Len(Text)
    BY <1>7, AloneRead DEF N, L
  <2> QED
    BY <1>1, <1>5, <2>1
<1> HIDE DEF a
<1>9. ReaderInv' /\ At' = a
  BY <1>1, <1>5, <1>7, <1>8, ReaderStep DEF N
<1>10. LineIs(file, begins'[1], Start, a, returned')
  <2>1. returned'.line = Part(file, Start, a - 1) /\ returned'.length = L
    BY <1>1, <1>5, <1>7 DEF Returned
  <2>2. Start + L \in Nat
    BY <1>4, <1>5
  <2>3. Free(file, begins'[1], a - 1)
    BY <1>4, <1>5, <1>6, <1>7, <2>2, Chain
  <2>4. L = a - 1 - Start
    BY <1>4, <1>5, <1>7
  <2>5. returned'.line = <<>> => Boundary(Start)
    <3> SUFFICES ASSUME returned'.line = <<>>, ~ Boundary(Start) PROVE FALSE
      OBVIOUS
    <3>1. Len(Part(file, Start, Start + L)) = (Start + L) - Start
      <4>1. Start <= Start + L /\ Start + L <= Len(file)
        BY <1>2, <1>3, <1>4, <1>5, <1>7 DEF N
      <4> QED
        BY <1>2, <1>4, <2>2, <4>1, PartIs
    <3>2. L = 0
      BY <1>4, <1>5, <1>7, <2>1, <3>1
    <3>3. calls = <<>>
      BY <1>6, <1>7, <1>2, <1>4
    <3>4. a = Start + 1
      BY <1>4, <1>7, <3>2
    <3> QED
      BY <1>4, <1>5, <1>7, <3>3, <3>4
  <2> QED
    BY <1>5, <1>7, <2>1, <2>3, <2>4, <2>5 DEF LineIs
<1>11. ReturnInv'
  <2>1. returned' \in [length : Int, line : Seq(Symbols)] /\ returned'.length <= LINE_MAX_SIZE
    <3>1. Part(file, Start, Start + L) \in Seq(Symbols)
      <4>1. Start <= Start + L /\ Start + L <= Len(file) /\ Start + L \in Nat
        BY <1>2, <1>3, <1>4, <1>5, <1>7 DEF N
      <4> QED
        BY <1>2, <1>4, <4>1, PartIs
    <3> QED
      BY <1>1, <1>5, <1>7, <3>1 DEF Returned
  <2>2. begins'[Len(begins')] = Start /\ begins'[1] <= Start /\ Start <= Len(file')
    BY <1>1, <1>6 DEF N
  <2>3. LineIs(file', begins'[1], begins'[Len(begins')], At', returned')
    BY <1>1, <1>9, <1>10, <2>2
  <2> QED
    BY <2>1, <2>2, <2>3 DEF ReturnInv
<1> QED
  BY <1>1, <1>9, <1>11, ReturnStep

\* What the first call leaves when it waits.
LEMMA FirstWaits ==
  ASSUME LinesInv, reading = "call", calls = <<>>, At < Read
  PROVE  FirstIs(file, Start, Read, Text)
<1> DEFINE N == Len(file)
<1>1. file \in Seq(Symbols) /\ N \in Nat /\ At \in Nat
  BY FileTypes
<1>2. Read \in Nat /\ Read <= N
  BY FilledIs
<1>3. /\ Start \in Nat /\ At <= Start /\ Start <= Read /\ Len(Text) = Read - Start
      /\ \A k \in At + 1 .. Start : file[k] = Newline
  BY TextIs
<1>4. /\ LineStart(file, At)
      /\ reader.buffer = <<>> /\ At < N /\ At >= 2 => file[At - 1] # Newline
  BY DEF LinesInv, CallInv
<1> HIDE DEF N
<1>5. At >= 1 => file[At] = Newline
  BY <1>1, <1>2, <1>4 DEF LineStart, N
<1>6. ASSUME Text = <<>>
      PROVE  Start >= 1 /\ file[Start] = Newline /\ (Start >= 2 => file[Start - 1] = Newline)
  <2>1. Start = Read /\ At < Start
    BY <1>1, <1>2, <1>3, <1>6
  <2>2. Start >= 1 /\ Start \in At + 1 .. Start
    BY <1>1, <1>3, <2>1
  <2>3. CASE Start - 1 = At
    BY <1>3, <1>5, <2>2, <2>3
  <2>4. CASE Start - 1 # At
    <3>1. Start - 1 \in At + 1 .. Start
      BY <1>1, <1>3, <2>1, <2>4
    <3> QED
      BY <1>3, <2>2, <3>1
  <2> QED
    BY <2>3, <2>4
<1>7. ASSUME AloneLast(file), Read = Len(file), Start = Len(file) - 1 PROVE ~ LastLost(file)
  <2>1. At = N - 1 /\ reader.buffer = <<>>
    BY <1>1, <1>2, <1>7, AloneRead DEF N
  <2>2. N >= 3
    BY <1>1, <1>7, ExpectedIs DEF N
  <2>3. At >= 2 /\ At < N /\ At - 1 = N - 2
    BY <1>1, <2>1, <2>2
  <2>4. file[N - 1] = Newline /\ file[N - 2] # Newline
    BY <1>4, <1>5, <2>1, <2>3
  <2> QED
    BY <1>1, <2>4, ExpectedIs DEF N
<1> QED
  BY <1>6, <1>7 DEF FirstIs

LEMMA ReadPieceStep == LinesInv /\ ReadPiece => LinesInv'
<1> SUFFICES ASSUME LinesInv, ReadPiece PROVE LinesInv'
  OBVIOUS
<1> DEFINE N == Len(file)  n == Len(calls)
<1>1. /\ reading = "call" /\ Filled.buffer # <<>> /\ LineLength = Len(Text)
      /\ calls' = Append(calls, Text) /\ reader' = Reader(<<>>, Filled.rest) /\ Begin
      /\ file' = file /\ reading' = reading /\ lines' = lines
  BY DEF ReadPiece
<1>2. file \in Seq(Symbols) /\ N \in Nat /\ At \in Nat
  BY FileTypes
<1>3. /\ Filled \in [buffer : Seq(Symbols), rest : Seq(Symbols)]
      /\ Read \in Nat /\ At <= Read /\ Read <= N /\ Read - At <= LINE_MAX_SIZE
      /\ Len(Filled.buffer) = Read - At
      /\ Read = N \/ Boundary(Read)
  BY FilledIs
<1>4. /\ Start \in Nat /\ At <= Start /\ Start <= Read
      /\ Text \in Seq(Symbols) /\ Text = Part(file, Start, Read) /\ Len(Text) = Read - Start
      /\ calls # <<>> => Start = At
  BY TextIs
<1>5. Free(file, Start, Start + LineLength)
  BY LengthIs
<1>6. /\ begins' \in Seq(Nat) /\ Len(begins') = n + 1
      /\ begins'[n + 1] = Start
      /\ begins'[1] \in Nat /\ begins'[1] <= Start /\ Start <= N
      /\ LineStart(file, begins'[1]) /\ Free(file, begins'[1], Start)
      /\ calls = <<>> => begins'[1] = Start
      /\ \A k \in 1 .. n :
           /\ Ends(k)' = Ends(k) /\ begins'[k] = begins[k]
           /\ FrameIs(file, begins[k], Ends(k), calls[k])
           /\ begins'[1] <= begins[k] /\ Free(file, begins'[1], Ends(k))
           /\ k >= 2 => calls[k] # <<>>
      /\ calls # <<>> => FirstIs(file, begins'[1], Ends(1), calls[1])
  BY <1>1, FramesKept
<1>7. calls \in Seq(Seq(Symbols)) /\ n \in Nat /\ (calls = <<>> <=> n = 0)
  BY <1>1 DEF LinesInv, CallsInv
<1> HIDE DEF N, n
<1>8. /\ calls' \in Seq(Seq(Symbols)) /\ Len(calls') = n + 1
      /\ \A k \in 1 .. n : calls'[k] = calls[k]
      /\ calls'[n + 1] = Text
  BY <1>1, <1>4, <1>7, AppendIs DEF n
<1>9. At < Read
  BY <1>1, <1>2, <1>3
<1>10. ReaderInv' /\ At' = Read
  <2>1. Part(file, Read, Read) = <<>>
    BY <1>2, <1>3, PartNothing
  <2> QED
    BY <1>1, <1>2, <1>3, <2>1, ReaderStep DEF N
<1>11. FrameIs(file, Start, Read, Text)
  <2>1. AloneLast(file) /\ Read = N /\ Start < N => Start = N - 1
    BY <1>9, AloneRead DEF N
  <2>2. Read - Start <= LINE_MAX_SIZE /\ 1 <= Read
    BY <1>2, <1>3, <1>4, <1>9, PieceSize
  <2> QED
    BY <1>3, <1>4, <2>1, <2>2 DEF FrameIs, N
<1>12. Free(file, begins'[1], Read)
  <2>1. Start + LineLength = Read
    BY <1>1, <1>3, <1>4
  <2> QED
    BY <1>3, <1>4, <1>5, <1>6, <2>1, Chain
<1>13. ASSUME NEW k \in Nat, k = n + 1 PROVE Ends(k)' = Read
  <2>1. ~ (k < Len(begins'))
    BY <1>6, <1>7, <1>13
  <2> QED
    BY <1>10, <2>1 DEF Ends
<1>14. ASSUME NEW k \in 1 .. Len(calls')
       PROVE  /\ FrameIs(file', begins'[k], Ends(k)', calls'[k])
              /\ begins'[1] <= begins'[k] /\ Free(file', begins'[1], Ends(k)')
              /\ k >= 2 => calls'[k] # <<>>
  <2>1. CASE k \in 1 .. n
    BY <1>1, <1>6, <1>8, <2>1
  <2>2. CASE k = n + 1
    <3>1. k >= 2 => Text # <<>>
      <4>1. k >= 2 => calls # <<>>
        BY <1>7, <2>2
      <4> QED
        BY <1>2, <1>3, <1>4, <1>9, <4>1
    <3>2. Ends(k)' = Read
      BY <1>7, <1>13, <2>2
    <3> QED
      BY <1>1, <1>6, <1>8, <1>11, <1>12, <2>2, <3>1, <3>2
  <2> QED
    BY <1>7, <1>8, <2>1, <2>2
<1>15. FirstIs(file', begins'[1], Ends(1)', calls'[1])
  <2>1. CASE calls = <<>>
    <3>1. n + 1 = 1
      BY <1>7, <2>1
    <3>2. FirstIs(file, Start, Read, Text)
      BY <1>1, <1>9, <2>1, FirstWaits
    <3>3. Ends(1)' = Read
      BY <1>13, <3>1
    <3> QED
      BY <1>1, <1>6, <1>8, <2>1, <3>1, <3>2, <3>3
  <2>2. CASE calls # <<>>
    <3>1. 1 \in 1 .. n
      BY <1>7, <2>2
    <3> QED
      BY <1>1, <1>6, <1>8, <2>2, <3>1
  <2> QED
    BY <2>1, <2>2
<1>16. CallsInv'
  <2>1. Len(begins') = IF reading' = "return" THEN Len(calls') + 1 ELSE Len(calls')
    BY <1>1, <1>6, <1>8
  <2>2. begins'[1] <= Len(file') /\ LineStart(file', begins'[1])
    BY <1>1, <1>2, <1>4, <1>6 DEF N
  <2> QED
    BY <1>6, <1>8, <1>14, <1>15, <2>1, <2>2 DEF CallsInv
<1>17. CallInv'
  <2>1. calls' # <<>> /\ reader'.buffer = <<>>
    BY <1>1, <1>7, <1>8 DEF Reader
  <2> QED
    BY <2>1 DEF CallInv
<1>18. LinesGot'
  BY <1>1, GotSame
<1>19. file' \in Seq(Symbols) /\ lines' \in Seq(Seq(Symbols) \ {<<>>})
  BY <1>1 DEF LinesInv
<1> QED
  BY <1>1, <1>10, <1>16, <1>17, <1>18, <1>19 DEF LinesInv

\* A call appends what it got to its own part of the line: s ends that part.
Together(c, r) == Returned(Len(c) + r.length, IF r.length = 0 THEN c ELSE c \o r.line)

LEMMA FrameHas ==
  ASSUME NEW f \in Seq(Symbols), NEW j, NEW s, NEW c, FrameIs(f, j, s, c)
  PROVE  /\ j \in Nat /\ s \in Nat /\ j <= s /\ 1 <= s /\ s <= Len(f) /\ Len(f) \in Nat
         /\ c = Part(f, j, s) /\ Len(c) = s - j /\ c \in Seq(Symbols) /\ s - j <= LINE_MAX_SIZE
         /\ s = Len(f) \/ Boundary(s)
<1>1. /\ j \in Nat /\ s \in Nat /\ j <= s /\ 1 <= s /\ s <= Len(f) /\ Len(f) \in Nat
      /\ c = Part(f, j, s) /\ s - j <= LINE_MAX_SIZE
      /\ s = Len(f) \/ Boundary(s)
  BY DEF FrameIs
<1>2. Part(f, j, s) \in Seq(Symbols) /\ Len(Part(f, j, s)) = s - j
  BY <1>1, PartIs
<1> QED
  BY <1>1, <1>2

LEMMA JoinLine ==
  ASSUME NEW f \in Seq(Symbols), NEW b \in Nat, NEW j, NEW s, NEW a \in Nat, a <= Len(f),
         NEW c, NEW r, FrameIs(f, j, s, c), LineIs(f, b, s, a, r)
  PROVE  LineIs(f, b, j, a, Together(c, r))
<1> DEFINE q == Together(c, r)
<1>1. /\ j \in Nat /\ s \in Nat /\ j <= s /\ Len(f) \in Nat
      /\ c = Part(f, j, s) /\ Len(c) = s - j
      /\ s = Len(f) \/ Boundary(s)
  BY FrameHas
<1>2. /\ 1 <= a /\ s <= a - 1 /\ f[a] = Newline /\ Free(f, b, a - 1)
      /\ r.line = Part(f, s, a - 1) /\ r.length = a - 1 - s
  BY DEF LineIs
<1>3. a - 1 \in Nat /\ a - 1 <= Len(f) /\ j <= a - 1
  BY <1>1, <1>2
<1>4. c \o r.line = Part(f, j, a - 1)
  <2>1. Part(f, j, s) \o Part(f, s, a - 1) = Part(f, j, a - 1)
    <3> DEFINE e == a - 1
    <3>1. j \in Nat /\ s \in Nat /\ e \in Nat /\ j <= s /\ s <= e /\ e <= Len(f)
      BY <1>1, <1>2, <1>3
    <3> HIDE DEF e
    <3>2. Part(f, j, s) \o Part(f, s, e) = Part(f, j, e)
      BY ONLY f \in Seq(Symbols), <3>1, PartJoin
    <3> QED
      BY <3>2 DEF e
  <2> QED
    BY <1>1, <1>2, <2>1
<1>5. q.length = a - 1 - j
  BY <1>1, <1>2 DEF Together, Returned
<1>6. q.line = Part(f, j, a - 1)
  <2>1. CASE r.length = 0
    <3>1. s = a - 1
      BY <1>1, <1>2, <2>1
    <3> QED
      BY <1>1, <2>1, <3>1 DEF Together, Returned
  <2>2. CASE r.length # 0
    BY <1>4, <2>2 DEF Together, Returned
  <2> QED
    BY <2>1, <2>2
<1>7. q.line = <<>> => Boundary(j)
  <2> SUFFICES ASSUME q.line = <<>> PROVE Boundary(j)
    OBVIOUS
  <2>1. Len(Part(f, j, a - 1)) = (a - 1) - j
    BY <1>1, <1>3, PartIs
  <2>2. j = a - 1
    BY <1>1, <1>3, <1>6, <2>1
  <2>3. j = s /\ s # Len(f)
    BY <1>1, <1>2, <2>2
  <2> QED
    BY <1>1, <2>3
<1> HIDE DEF q
<1> QED
  BY <1>2, <1>3, <1>5, <1>6, <1>7 DEF LineIs, q

LEMMA JoinRest ==
  ASSUME NEW f \in Seq(Symbols), NEW b \in Nat, NEW j, NEW s, NEW a,
         NEW c, NEW r, FrameIs(f, j, s, c), NEW first \in BOOLEAN, b <= j,
         first => j = b /\ FirstIs(f, b, s, c), ~ first => c # <<>>,
         RestIs(f, b, s, a, r, FALSE)
  PROVE  \/ RestIs(f, b, j, a, Together(c, r), first)
         \/ LostIs(f, b, j, a, Together(c, r), first)
<1> DEFINE q == Together(c, r)  N == Len(f)
<1>1. /\ j \in Nat /\ s \in Nat /\ j <= s /\ 1 <= s /\ s <= N /\ N \in Nat
      /\ c = Part(f, j, s) /\ Len(c) = s - j /\ c \in Seq(Symbols)
      /\ s = N \/ Boundary(s)
  BY FrameHas
<1>2. /\ a = N /\ Free(f, b, N)
      /\ r.line = Part(f, s, N) /\ r.length = N - s - 1
      /\ AloneLast(f) /\ s < N => s = N - 1
  BY DEF RestIs
<1>3. \A k \in b + 1 .. N : f[k] # Newline
  BY <1>2 DEF Free
<1>4. AloneLast(f) /\ s = N /\ j < N => j = N - 1
  BY DEF FrameIs
<1>5. /\ LastLost(f) <=> AloneLast(f) /\ (f[N - 1] # Newline \/ f[N - 2] = Newline)
      /\ AloneLast(f) => N >= 3
  BY ExpectedIs
<1>6. c = <<>> <=> j = s
  BY <1>1
<1>7. q.length = Len(c) + r.length /\ q.line = IF r.length = 0 THEN c ELSE c \o r.line
  BY DEF Together, Returned
<1>8. Part(f, j, s) \o Part(f, s, N) = Part(f, j, N)
  <2>1. N <= Len(f) /\ j <= s /\ s <= N /\ j \in Nat /\ s \in Nat /\ N \in Nat
    BY <1>1
  <2> HIDE DEF N
  <2> QED
    BY <2>1, PartJoin
<1>9. AloneLast(f) <=> N > 1 /\ Boundary(N - 1) /\ f[N] # Newline
  BY DEF AloneLast
<1>10. first => /\ c = <<>> => b >= 1 /\ (b >= 2 => f[b - 1] = Newline)
                /\ AloneLast(f) /\ s = N /\ b = N - 1 => ~ LastLost(f)
  BY DEF FirstIs
<1> HIDE DEF q, N
<1>11. CASE r.length = 0
  <2>1. s = N - 1 /\ j < N /\ N > 1
    BY <1>1, <1>2, <1>11
  <2>2. AloneLast(f)
    <3>1. N \in b + 1 .. N
      BY <1>1, <2>1
    <3> QED
      BY <1>1, <1>3, <1>9, <2>1, <3>1
  <2>3. LastLost(f)
    <3>1. CASE c # <<>>
      <4>1. N - 1 \in b + 1 .. N
        BY <1>1, <1>6, <2>1, <3>1
      <4> QED
        BY <1>3, <1>5, <2>2, <4>1
    <3>2. CASE c = <<>>
      <4>1. first /\ b = N - 1 /\ b >= 2 /\ b - 1 = N - 2
        BY <1>1, <1>5, <1>6, <2>1, <2>2, <3>2
      <4> QED
        BY <1>5, <1>10, <2>2, <3>2, <4>1
    <3> QED
      BY <3>1, <3>2
  <2>4. q.line = Part(f, j, a - 1) /\ q.length = a - 1 - j
    BY <1>1, <1>2, <1>7, <1>11, <2>1
  <2>5. j = a - 1 => first
    BY <1>2, <1>6, <2>1
  <2> QED
    BY <1>2, <2>1, <2>2, <2>3, <2>4, <2>5 DEF LostIs, q, N
<1>12. CASE r.length # 0
  <2>1. q.line = Part(f, j, a) /\ q.length = a - j - 1
    BY <1>1, <1>2, <1>7, <1>8, <1>12
  <2>2. AloneLast(f) => s = N
    BY <1>1, <1>2, <1>12
  <2>3. AloneLast(f) /\ j < N => j = N - 1
    BY <1>4, <2>2
  <2>4. first /\ j < N => ~ LastLost(f)
    BY <1>5, <1>10, <2>2, <2>3
  <2> QED
    BY <1>2, <2>1, <2>3, <2>4 DEF RestIs, q, N
<1> QED
  BY <1>11, <1>12

LEMMA JoinLost ==
  ASSUME NEW f \in Seq(Symbols), NEW b \in Nat, NEW j, NEW s, NEW a,
         NEW c, NEW r, FrameIs(f, j, s, c), NEW first \in BOOLEAN,
         LostIs(f, b, s, a, r, FALSE)
  PROVE  LostIs(f, b, j, a, Together(c, r), first)
<1> DEFINE q == Together(c, r)  N == Len(f)
<1>1. /\ j \in Nat /\ s \in Nat /\ j <= s /\ 1 <= s /\ s <= N /\ N \in Nat
      /\ c = Part(f, j, s) /\ Len(c) = s - j
  BY FrameHas
<1>2. /\ a = N /\ Free(f, b, a) /\ s < a /\ AloneLast(f) /\ LastLost(f)
      /\ r.line = Part(f, s, a - 1) /\ r.length = a - 1 - s
      /\ s # a - 1
  BY DEF LostIs
<1> HIDE DEF N
<1>3. N - 1 \in Nat /\ N - 1 <= Len(f) /\ s <= N - 1 /\ s # N - 1 /\ j < N - 1
  BY <1>1, <1>2 DEF N
<1>4. Part(f, j, s) \o Part(f, s, N - 1) = Part(f, j, N - 1)
  <2> DEFINE e == N - 1
  <2>1. j \in Nat /\ s \in Nat /\ e \in Nat /\ j <= s /\ s <= e /\ e <= Len(f)
    BY <1>1, <1>3
  <2> HIDE DEF e
  <2>2. Part(f, j, s) \o Part(f, s, e) = Part(f, j, e)
    BY ONLY f \in Seq(Symbols), <2>1, PartJoin
  <2> QED
    BY <2>2 DEF e
<1>5. q.length = Len(c) + r.length /\ q.line = IF r.length = 0 THEN c ELSE c \o r.line
  BY DEF Together, Returned
<1>6. r.length # 0
  BY <1>1, <1>2, <1>3
<1> HIDE DEF q
<1>7. q.length = a - 1 - j /\ q.line = Part(f, j, a - 1)
  BY <1>1, <1>2, <1>4, <1>5, <1>6
<1>8. j < a /\ j # a - 1
  BY <1>1, <1>2, <1>3
<1> QED
  BY <1>2, <1>7, <1>8 DEF LostIs, q, N

\* What holds when a call gets what the one it made returns.
LEMMA JoinFacts ==
  ASSUME LinesInv, reading = "return", calls # <<>>
  PROVE  /\ Len(calls) \in Nat /\ Len(calls) >= 1 /\ Len(begins) = Len(calls) + 1
         /\ calls \in Seq(Seq(Symbols)) /\ begins \in Seq(Nat)
         /\ begins[1] \in Nat /\ begins[1] <= Len(file) /\ LineStart(file, begins[1])
         /\ begins[1] <= begins[Len(calls)] /\ Free(file, begins[1], begins[Len(calls) + 1])
         /\ FrameIs(file, begins[Len(calls)], begins[Len(calls) + 1], calls[Len(calls)])
         /\ Len(calls) >= 2 => calls[Len(calls)] # <<>>
         /\ Len(calls) = 1 => FirstIs(file, begins[1], begins[Len(calls) + 1], calls[Len(calls)])
         /\ returned \in [length : Int, line : Seq(Symbols)]
         /\ returned.length <= LINE_MAX_SIZE
         /\ \/ LineIs(file, begins[1], begins[Len(calls) + 1], At, returned)
            \/ RestIs(file, begins[1], begins[Len(calls) + 1], At, returned, FALSE)
            \/ LostIs(file, begins[1], begins[Len(calls) + 1], At, returned, FALSE)
<1> DEFINE n == Len(calls)
<1>1. /\ calls \in Seq(Seq(Symbols)) /\ begins \in Seq(Nat)
      /\ Len(begins) = n + 1
      /\ begins # <<>> => begins[1] <= Len(file) /\ LineStart(file, begins[1])
      /\ \A k \in 1 .. n :
           /\ FrameIs(file, begins[k], Ends(k), calls[k])
           /\ begins[1] <= begins[k] /\ Free(file, begins[1], Ends(k))
           /\ k >= 2 => calls[k] # <<>>
      /\ FirstIs(file, begins[1], Ends(1), calls[1])
  BY DEF LinesInv, CallsInv
<1>2. n \in Nat /\ n >= 1
  BY <1>1
<1>3. /\ returned \in [length : Int, line : Seq(Symbols)]
      /\ returned.length <= LINE_MAX_SIZE
      /\ \/ LineIs(file, begins[1], begins[Len(begins)], At, returned)
         \/ RestIs(file, begins[1], begins[Len(begins)], At, returned, calls = <<>>)
         \/ LostIs(file, begins[1], begins[Len(begins)], At, returned, calls = <<>>)
  BY DEF LinesInv, ReturnInv
<1>4. (calls = <<>>) = FALSE
  OBVIOUS
<1> HIDE DEF n
<1>5. /\ LineIs(file, begins[1], begins[n + 1], At, returned)
      \/ RestIs(file, begins[1], begins[n + 1], At, returned, FALSE)
      \/ LostIs(file, begins[1], begins[n + 1], At, returned, FALSE)
  BY <1>1, <1>3, <1>4
<1>6. Ends(n) = begins[n + 1]
  BY <1>1, <1>2 DEF Ends
<1>7. begins # <<>> /\ begins[1] \in Nat /\ n \in 1 .. n
  BY <1>1, <1>2
<1>8. n = 1 => FirstIs(file, begins[1], begins[n + 1], calls[n])
  BY <1>1, <1>6
<1> QED
  BY <1>1, <1>2, <1>3, <1>5, <1>6, <1>7, <1>8 DEF n

LEMMA JoinTooLong ==
  ASSUME LinesInv, reading = "return", calls # <<>>,
         Len(calls[Len(calls)]) + returned.length > LINE_MAX_SIZE
  PROVE  \E p \in Stretches(file) : p[2] - p[1] + 1 > LINE_MAX_SIZE
<1> DEFINE n == Len(calls)  b == begins[1]  j == begins[n]  s == begins[n + 1]  N == Len(file)
<1>1. /\ n \in Nat /\ n >= 1
      /\ b \in Nat /\ b <= N /\ LineStart(file, b)
      /\ b <= j /\ Free(file, b, s)
      /\ FrameIs(file, j, s, calls[n])
      /\ \/ LineIs(file, b, s, At, returned)
         \/ RestIs(file, b, s, At, returned, FALSE)
         \/ LostIs(file, b, s, At, returned, FALSE)
  BY JoinFacts
<1>2. file \in Seq(Symbols) /\ N \in Nat /\ At \in Nat /\ At <= N
  BY FileTypes
<1>3. Len(calls[n]) + returned.length > LINE_MAX_SIZE
  OBVIOUS
<1> HIDE DEF n, b, j, s
<1>4. j \in Nat /\ s \in Nat /\ j <= s /\ Len(calls[n]) = s - j
  BY <1>1, <1>2, FrameHas
<1> HIDE DEF N
<1>5. ASSUME NEW e \in Nat, e - j > LINE_MAX_SIZE, e <= N, Free(file, b, e),
             e = N \/ file[e + 1] = Newline
      PROVE  \E p \in Stretches(file) : p[2] - p[1] + 1 > LINE_MAX_SIZE
  <2>1. b < e /\ e - b > LINE_MAX_SIZE
    BY <1>1, <1>4, <1>5, PieceSize
  <2>2. b = 0 \/ file[b] = Newline
    BY <1>1, <1>2, <1>5, <2>1 DEF LineStart, N
  <2>3. LineAt(file, b, e)
    BY <1>5, <2>1, <2>2 DEF LineAt, N
  <2>4. <<b + 1, e>> \in Stretches(file)
    BY <1>1, <1>2, <1>5, <2>3, StretchAt
  <2>5. <<b + 1, e>>[2] - <<b + 1, e>>[1] + 1 > LINE_MAX_SIZE
    BY <1>1, <1>5, <2>1, PieceSize
  <2> QED
    BY <2>4, <2>5
<1>6. CASE LineIs(file, b, s, At, returned)
  <2>1. /\ 1 <= At /\ file[At] = Newline /\ Free(file, b, At - 1)
        /\ returned.length = At - 1 - s
    BY <1>6 DEF LineIs
  <2>2. At - 1 \in Nat /\ (At - 1) - j > LINE_MAX_SIZE /\ At - 1 <= N /\ (At - 1) + 1 = At
    BY <1>2, <1>3, <1>4, <2>1, PieceSize
  <2> QED
    BY <1>5, <2>1, <2>2
<1>7. CASE RestIs(file, b, s, At, returned, FALSE)
  <2>1. At = N /\ Free(file, b, N) /\ returned.length = N - s - 1
    BY <1>7 DEF RestIs, N
  <2>2. N - j > LINE_MAX_SIZE /\ N <= N
    BY <1>2, <1>3, <1>4, <2>1, PieceSize
  <2> QED
    BY <1>2, <1>5, <2>1, <2>2
<1>8. CASE LostIs(file, b, s, At, returned, FALSE)
  <2>1. At = N /\ Free(file, b, N) /\ returned.length = N - 1 - s
    BY <1>8 DEF LostIs, N
  <2>2. N - j > LINE_MAX_SIZE /\ N <= N
    BY <1>2, <1>3, <1>4, <2>1, PieceSize
  <2> QED
    BY <1>2, <1>5, <2>1, <2>2
<1> QED
  BY <1>1, <1>6, <1>7, <1>8

LEMMA JoinStep == LinesInv /\ Join => LinesInv'
<1> SUFFICES ASSUME LinesInv, Join PROVE LinesInv'
  OBVIOUS
<1> DEFINE n == Len(calls)  b == begins[1]  j == begins[n]  s == begins[n + 1]
           c == calls[n]  q == Together(c, returned)
<1>1. /\ reading = "return" /\ calls # <<>>
      /\ file' = file /\ reader' = reader /\ lines' = lines
  BY DEF Join
<1>2. /\ n \in Nat /\ n >= 1 /\ Len(begins) = n + 1
      /\ calls \in Seq(Seq(Symbols)) /\ begins \in Seq(Nat)
      /\ b \in Nat /\ b <= Len(file) /\ LineStart(file, b)
      /\ b <= j /\ Free(file, b, s)
      /\ FrameIs(file, j, s, c)
      /\ n >= 2 => c # <<>>
      /\ n = 1 => FirstIs(file, b, s, c)
      /\ returned \in [length : Int, line : Seq(Symbols)]
      /\ returned.length <= LINE_MAX_SIZE
      /\ \/ LineIs(file, b, s, At, returned)
         \/ RestIs(file, b, s, At, returned, FALSE)
         \/ LostIs(file, b, s, At, returned, FALSE)
  BY <1>1, JoinFacts
<1>3. /\ Front(calls) \in Seq(Seq(Symbols)) /\ Len(Front(calls)) = n - 1
      /\ \A k \in 1 .. n - 1 : Front(calls)[k] = calls[k]
      /\ Last(calls) = c
  BY <1>1, <1>2, FrontIs
<1>4. begins # <<>>
  BY <1>2
<1>5. /\ Front(begins) \in Seq(Nat) /\ Len(Front(begins)) = n
      /\ \A k \in 1 .. n : Front(begins)[k] = begins[k]
  <2>1. /\ Front(begins) \in Seq(Nat) /\ Len(Front(begins)) = Len(begins) - 1
        /\ \A k \in 1 .. Len(begins) - 1 : Front(begins)[k] = begins[k]
    BY <1>2, <1>4, FrontIs
  <2>2. Len(begins) - 1 = n
    BY <1>2
  <2> QED
    BY <2>1, <2>2
<1>6. ReaderInv' /\ file' \in Seq(Symbols) /\ lines' \in Seq(Seq(Symbols) \ {<<>>}) /\ At' = At
  BY <1>1 DEF LinesInv, ReaderInv, At, Got
<1>7. CASE returned.length # 0 /\ Len(c) + returned.length > LINE_MAX_SIZE
  <2>1. reading' = "fatal"
    BY <1>3, <1>7 DEF Join
  <2>2. \E p \in Stretches(file) : p[2] - p[1] + 1 > LINE_MAX_SIZE
    BY <1>1, <1>7, JoinTooLong
  <2> QED
    BY <1>1, <1>6, <2>1, <2>2 DEF LinesInv
<1>8. CASE ~ (returned.length # 0 /\ Len(c) + returned.length > LINE_MAX_SIZE)
  <2>1. /\ returned' = Returned(Len(c) + returned.length, IF returned.length = 0 THEN c
                                                          ELSE c \o returned.line)
        /\ calls' = Front(calls) /\ begins' = Front(begins) /\ reading' = reading
    BY <1>3, <1>8 DEF Join
  <2>2. returned' = q
    BY <2>1 DEF Together
  <2>3. /\ j \in Nat /\ s \in Nat /\ j <= s /\ s <= Len(file) /\ Len(file) \in Nat
        /\ Len(c) = s - j /\ c \in Seq(Symbols) /\ s - j <= LINE_MAX_SIZE
    <3>1. file \in Seq(Symbols)
      BY FileTypes
    <3> HIDE DEF j, s, c
    <3> QED
      BY <1>2, <3>1, FrameHas
  <2>4. q.length \in Int /\ q.length <= LINE_MAX_SIZE /\ q.line \in Seq(Symbols)
        /\ q \in [length : Int, line : Seq(Symbols)]
    <3>1. q.length = Len(c) + returned.length
      BY DEF Together, Returned
    <3>2. Len(c) \in Nat /\ Len(c) <= LINE_MAX_SIZE
      BY <2>3, PieceSize
    <3>3. q.length \in Int /\ q.length <= LINE_MAX_SIZE
      <4>1. returned.length \in Int
        BY <1>2
      <4> HIDE DEF c, q
      <4> QED
        BY <1>8, <3>1, <3>2, <4>1, PieceSize
    <3>4. (IF returned.length = 0 THEN c ELSE c \o returned.line) \in Seq(Symbols)
      <4>1. returned.line \in Seq(Symbols)
        BY <1>2
      <4> HIDE DEF c, q
      <4>2. c \o returned.line \in Seq(Symbols)
        BY <2>3, <4>1
      <4> QED
        BY <2>3, <4>2
    <3>5. q.line = IF returned.length = 0 THEN c ELSE c \o returned.line
      BY DEF Together, Returned
    <3>6. q \in [length : Int, line : Seq(Symbols)]
      BY <3>1, <3>3, <3>4, <3>5 DEF Together, Returned
    <3> QED
      BY <3>3, <3>4, <3>5, <3>6
  <2>5. /\ calls' \in Seq(Seq(Symbols)) /\ Len(calls') = n - 1
        /\ \A k \in 1 .. n - 1 : calls'[k] = calls[k]
        /\ begins' \in Seq(Nat) /\ Len(begins') = n
        /\ \A k \in 1 .. n : begins'[k] = begins[k]
    BY <1>3, <1>5, <2>1
  <2>6. calls' = <<>> <=> n = 1
    <3>1. n \in Nat
      BY <1>2
    <3> HIDE DEF n
    <3>2. calls' = <<>> <=> Len(calls') = 0
      BY <2>5
    <3> QED
      BY <2>5, <3>1, <3>2
  <2>7. begins' # <<>> /\ begins'[1] = b /\ begins'[Len(begins')] = j
    <3>1. 1 \in 1 .. n /\ n \in 1 .. n
      BY <1>2
    <3> HIDE DEF n
    <3> QED
      BY <1>2, <2>5, <3>1
  <2>8. \/ LineIs(file, b, j, At, q)
        \/ RestIs(file, b, j, At, q, n = 1)
        \/ LostIs(file, b, j, At, q, n = 1)
    <3>1. file \in Seq(Symbols) /\ At \in Nat /\ At <= Len(file)
      BY FileTypes
    <3>2. (n = 1) \in BOOLEAN
      OBVIOUS
    <3>3. n = 1 => j = b /\ FirstIs(file, b, s, c)
      BY <1>2
    <3>4. n # 1 => c # <<>>
      <4>1. n \in Nat /\ n >= 1 /\ (n >= 2 => c # <<>>)
        BY <1>2
      <4> HIDE DEF n, c
      <4> QED
        BY <4>1
    <3> DEFINE first == n = 1
    <3> HIDE DEF b, j, s, c, q, n, first
    <3>5. first \in BOOLEAN /\ (first => j = b /\ FirstIs(file, b, s, c)) /\ (~ first => c # <<>>)
      BY <3>2, <3>3, <3>4 DEF first
    <3>6. CASE LineIs(file, b, s, At, returned)
      BY <1>2, <3>1, <3>6, JoinLine DEF q
    <3>7. CASE RestIs(file, b, s, At, returned, FALSE)
      <4>1. \/ RestIs(file, b, j, At, q, first)
            \/ LostIs(file, b, j, At, q, first)
        BY <1>2, <3>1, <3>5, <3>7, JoinRest DEF q
      <4> QED
        BY <4>1 DEF first
    <3>8. CASE LostIs(file, b, s, At, returned, FALSE)
      <4>1. LostIs(file, b, j, At, q, first)
        BY <1>2, <3>1, <3>5, <3>8, JoinLost DEF q
      <4> QED
        BY <4>1 DEF first
    <3> QED
      BY <1>2, <3>6, <3>7, <3>8
  <2>9. ReturnInv'
    <3>1. (calls' = <<>>) = (n = 1)
      BY <2>6
    <3>2. \/ LineIs(file', begins'[1], begins'[Len(begins')], At', returned')
          \/ RestIs(file', begins'[1], begins'[Len(begins')], At', returned', calls' = <<>>)
          \/ LostIs(file', begins'[1], begins'[Len(begins')], At', returned', calls' = <<>>)
      <4> HIDE DEF b, j, q, n
      <4> QED
        BY <1>1, <1>6, <2>2, <2>7, <2>8, <3>1
    <3>3. begins'[1] <= begins'[Len(begins')] /\ begins'[Len(begins')] <= Len(file')
      BY <1>1, <1>2, <2>3, <2>7
    <3>4. returned' \in [length : Int, line : Seq(Symbols)] /\ returned'.length <= LINE_MAX_SIZE
      BY <2>2, <2>4
    <3> QED
      BY <3>2, <3>3, <3>4 DEF ReturnInv
  <2>10. CallsInv'
    <3>1. \A k \in 1 .. n :
             /\ FrameIs(file, begins[k], Ends(k), calls[k])
             /\ begins[1] <= begins[k] /\ Free(file, begins[1], Ends(k))
             /\ k >= 2 => calls[k] # <<>>
      BY <1>1 DEF LinesInv, CallsInv
    <3>2. FirstIs(file, begins[1], Ends(1), calls[1])
      BY <1>1 DEF LinesInv, CallsInv
    <3> HIDE DEF n
    <3>3. ASSUME NEW k \in 1 .. n - 1
          PROVE  Ends(k)' = Ends(k) /\ calls'[k] = calls[k] /\ begins'[k] = begins[k] /\ k \in 1 .. n
      <4>1. k < n /\ k + 1 \in 1 .. n /\ k \in 1 .. n
        BY <1>2
      <4>2. Ends(k)' = begins'[k + 1] /\ Ends(k) = begins[k + 1]
        BY <1>2, <2>5, <4>1 DEF Ends
      <4> QED
        BY <2>5, <4>1, <4>2
    <3>4. ASSUME NEW k \in 1 .. Len(calls')
          PROVE  /\ FrameIs(file', begins'[k], Ends(k)', calls'[k])
                 /\ begins'[1] <= begins'[k] /\ Free(file', begins'[1], Ends(k)')
                 /\ k >= 2 => calls'[k] # <<>>
      <4>1. k \in 1 .. n - 1
        BY <2>5
      <4> QED
        BY <1>1, <2>7, <3>1, <3>3, <4>1
    <3>5. calls' # <<>> => FirstIs(file', begins'[1], Ends(1)', calls'[1])
      <4>1. calls' # <<>> => 1 \in 1 .. n - 1
        BY <1>2, <2>6
      <4> QED
        BY <1>1, <2>7, <3>2, <3>3, <4>1
    <3>6. Len(begins') = IF reading' = "return" THEN Len(calls') + 1 ELSE Len(calls')
      BY <1>1, <1>2, <2>1, <2>5
    <3>7. begins'[1] <= Len(file') /\ LineStart(file', begins'[1])
      BY <1>1, <1>2, <2>7
    <3> QED
      BY <2>5, <3>4, <3>5, <3>6, <3>7 DEF CallsInv
  <2>11. LinesGot'
    <3>1. First' = First
      BY <1>4, <2>7 DEF First
    <3> QED
      BY <1>1, <3>1 DEF LinesInv, LinesGot
  <2> QED
    BY <1>1, <1>6, <2>1, <2>9, <2>10, <2>11 DEF LinesInv
<1> QED
  BY <1>7, <1>8

(***************************************************************************)
(* The steps of the program that reads.                                    *)
(***************************************************************************)

\* The line that the program takes is the next one of the file.
LEMMA Taken ==
  ASSUME NEW f \in Seq(Symbols), NEW b \in Nat, NEW a \in Nat, a <= Len(f), b <= Len(f),
         LineStart(f, b), NEW r, r.length <= LINE_MAX_SIZE, r.length # -1,
         \/ LineIs(f, b, b, a, r)
         \/ RestIs(f, b, b, a, r, TRUE)
         \/ LostIs(f, b, b, a, r, TRUE)
  PROVE  /\ Cut(f, Within(Expected(f), a)) =
              IF r.line = <<>> THEN Cut(f, Within(Expected(f), b))
              ELSE Append(Cut(f, Within(Expected(f), b)), r.line)
         /\ \A p \in Within(f, a) : p \in Within(f, b) \/ p[2] - p[1] + 1 <= LINE_MAX_SIZE + 1
         /\ LineStart(f, a)
<1> DEFINE N == Len(f)  G == Expected(f)
<1>1. N \in Nat /\ a <= N /\ b <= N
  OBVIOUS
<1>2. /\ G \in Seq(Symbols)
      /\ LastLost(f) => Len(G) = N - 1 /\ f[N] # Newline
      /\ ~ LastLost(f) => G = f
  BY ExpectedIs DEF AloneLast
<1>3. b < N => b = 0 \/ f[b] = Newline
  BY DEF LineStart
<1> HIDE DEF N, G
<1>4. Len(G) \in Nat /\ (LastLost(f) => Len(G) = N - 1) /\ (~ LastLost(f) => Len(G) = N)
  BY <1>2 DEF N
<1>5. ASSUME NEW c \in Nat, b < c, c <= Len(G), Free(f, b, c), c = Len(G) \/ f[c + 1] = Newline
      PROVE  /\ Cut(f, Within(G, c)) = Append(Cut(f, Within(G, b)), Part(f, b, c))
             /\ Part(f, b, c) # <<>>
  <2>1. c <= N /\ b < N
    BY <1>1, <1>4, <1>5
  <2>2. Cut(f, Within(G, c)) = Append(Cut(f, Within(G, b)), Part(f, b, c))
    BY <1>3, <1>5, <2>1, GotLine DEF G
  <2>3. Len(Part(f, b, c)) = c - b
    <3>1. b <= c /\ c <= Len(f)
      BY <1>5, <2>1 DEF N
    <3> QED
      BY <1>5, <3>1, PartIs
  <2> QED
    BY <1>5, <2>2, <2>3
<1>6. ASSUME NEW c \in Nat, b < c, c <= N, Free(f, b, c), c = N \/ f[c + 1] = Newline,
             c - b <= LINE_MAX_SIZE + 1
      PROVE  \A p \in Within(f, c) : p \in Within(f, b) \/ p[2] - p[1] + 1 <= LINE_MAX_SIZE + 1
  <2>1. LineAt(f, b, c)
    BY <1>1, <1>3, <1>6 DEF LineAt, N
  <2>2. \A p : p \in Within(f, c) <=> p \in Within(f, b) \/ p = <<b + 1, c>>
    BY <2>1, StretchAt
  <2>3. <<b + 1, c>>[2] - <<b + 1, c>>[1] + 1 <= LINE_MAX_SIZE + 1
    BY <1>6, PieceSize
  <2> QED
    BY <2>2, <2>3
<1>7. CASE LineIs(f, b, b, a, r)
  <2>1. /\ 1 <= a /\ b <= a - 1 /\ f[a] = Newline /\ Free(f, b, a - 1)
        /\ r.line = Part(f, b, a - 1) /\ r.length = a - 1 - b
    BY <1>7 DEF LineIs
  <2>2. /\ a - 1 \in Nat /\ a - 1 <= a /\ (a - 1) + 1 = a
        /\ \A k \in (a - 1) + 1 .. a : f[k] = Newline
    BY <2>1
  <2>3. Within(G, a) = Within(G, a - 1)
    BY <2>2, GotNothing DEF G
  <2>4. Within(f, a) = Within(f, a - 1)
    BY <2>2, NoStretch
  <2>5. a <= Len(G)
    BY <1>1, <1>2, <1>4, <2>1
  <2>6. LineStart(f, a)
    BY <2>1 DEF LineStart
  <2>7. CASE b < a - 1
    <3>1. /\ Cut(f, Within(G, a - 1)) = Append(Cut(f, Within(G, b)), r.line)
          /\ r.line # <<>>
      BY <1>4, <1>5, <2>1, <2>2, <2>5, <2>7
    <3>2. a - 1 <= N /\ (a - 1) - b <= LINE_MAX_SIZE + 1
      BY <1>1, <2>1, PieceSize
    <3>3. \A p \in Within(f, a - 1) : p \in Within(f, b) \/ p[2] - p[1] + 1 <= LINE_MAX_SIZE + 1
      BY <1>6, <2>1, <2>2, <2>7, <3>2
    <3> QED
      BY <2>3, <2>4, <2>6, <3>1, <3>3 DEF G
  <2>8. CASE b = a - 1
    <3>1. r.line = <<>>
      BY <2>1, <2>8, PartNothing
    <3> QED
      BY <2>3, <2>4, <2>6, <2>8, <3>1 DEF G
  <2> QED
    BY <2>1, <2>7, <2>8
<1>8. CASE RestIs(f, b, b, a, r, TRUE)
  <2>1. /\ a = N /\ Free(f, b, a) /\ r.line = Part(f, b, a) /\ r.length = a - b - 1
        /\ b < a => ~ LastLost(f)
    BY <1>8 DEF RestIs, N
  <2>2. b < a
    BY <1>1, <2>1
  <2>3. Len(G) = a
    BY <1>4, <2>1, <2>2
  <2>4. /\ Cut(f, Within(G, a)) = Append(Cut(f, Within(G, b)), r.line)
        /\ r.line # <<>>
    BY <1>5, <2>1, <2>2, <2>3
  <2>5. a - b <= LINE_MAX_SIZE + 1
    BY <2>1, PieceSize
  <2>6. \A p \in Within(f, a) : p \in Within(f, b) \/ p[2] - p[1] + 1 <= LINE_MAX_SIZE + 1
    BY <1>6, <2>1, <2>2, <2>5
  <2>7. LineStart(f, a)
    BY <2>1 DEF LineStart, N
  <2> QED
    BY <2>4, <2>6, <2>7 DEF G
<1>9. CASE LostIs(f, b, b, a, r, TRUE)
  <2>1. /\ a = N /\ Free(f, b, a) /\ b < a /\ LastLost(f)
        /\ r.line = Part(f, b, a - 1) /\ r.length = a - 1 - b
    BY <1>9 DEF LostIs, N
  <2>2. a - 1 \in Nat /\ Len(G) = a - 1 /\ b <= a - 1 /\ a - 1 <= a
    BY <1>4, <2>1
  <2>3. Within(G, a) = Within(G, a - 1)
    <3>1. Within(G, a) = Stretches(G)
      BY <1>2, <2>2, WithinAll
    <3>2. Within(G, a - 1) = Stretches(G)
      BY <1>2, <2>2, WithinAll
    <3> QED
      BY <3>1, <3>2
  <2>4. Free(f, b, a - 1)
    BY <2>1, <2>2 DEF Free
  <2>5. a - b <= LINE_MAX_SIZE + 1
    BY <2>1, PieceSize
  <2>6. \A p \in Within(f, a) : p \in Within(f, b) \/ p[2] - p[1] + 1 <= LINE_MAX_SIZE + 1
    BY <1>6, <2>1, <2>5
  <2>7. LineStart(f, a)
    BY <2>1 DEF LineStart, N
  <2>8. CASE b < a - 1
    <3>1. /\ Cut(f, Within(G, a - 1)) = Append(Cut(f, Within(G, b)), r.line)
          /\ r.line # <<>>
      BY <1>5, <2>1, <2>2, <2>4, <2>8
    <3> QED
      BY <2>3, <2>6, <2>7, <3>1 DEF G
  <2>9. CASE b = a - 1
    <3>1. r.line = <<>>
      BY <2>1, <2>9, PartNothing
    <3> QED
      BY <2>3, <2>6, <2>7, <2>9, <3>1 DEF G
  <2> QED
    BY <2>2, <2>8, <2>9
<1> QED
  BY <1>7, <1>8, <1>9

\* What holds when the first call has returned.
LEMMA LastReturn ==
  ASSUME LinesInv, reading = "return", calls = <<>>
  PROVE  /\ begins[1] \in Nat /\ begins[1] <= Len(file) /\ LineStart(file, begins[1])
         /\ First = begins[1]
         /\ returned \in [length : Int, line : Seq(Symbols)]
         /\ returned.length <= LINE_MAX_SIZE
         /\ \/ LineIs(file, begins[1], begins[1], At, returned)
            \/ RestIs(file, begins[1], begins[1], At, returned, TRUE)
            \/ LostIs(file, begins[1], begins[1], At, returned, TRUE)
<1>1. /\ begins \in Seq(Nat) /\ Len(begins) = 1
      /\ begins # <<>> => begins[1] <= Len(file) /\ LineStart(file, begins[1])
  BY DEF LinesInv, CallsInv
<1>2. begins # <<>> /\ begins[1] \in Nat
  BY <1>1
<1>3. /\ returned \in [length : Int, line : Seq(Symbols)]
      /\ returned.length <= LINE_MAX_SIZE
      /\ \/ LineIs(file, begins[1], begins[Len(begins)], At, returned)
         \/ RestIs(file, begins[1], begins[Len(begins)], At, returned, calls = <<>>)
         \/ LostIs(file, begins[1], begins[Len(begins)], At, returned, calls = <<>>)
  BY DEF LinesInv, ReturnInv
<1>4. (calls = <<>>) = TRUE
  OBVIOUS
<1>5. \/ LineIs(file, begins[1], begins[1], At, returned)
      \/ RestIs(file, begins[1], begins[1], At, returned, TRUE)
      \/ LostIs(file, begins[1], begins[1], At, returned, TRUE)
  BY <1>1, <1>3, <1>4
<1> QED
  BY <1>1, <1>2, <1>3, <1>5 DEF First

LEMMA TakeLineStep == LinesInv /\ TakeLine => LinesInv'
<1> SUFFICES ASSUME LinesInv, TakeLine PROVE LinesInv'
  OBVIOUS
<1> DEFINE b == begins[1]
<1>1. /\ reading = "return" /\ calls = <<>> /\ returned.length # -1 /\ reading' = "call"
      /\ lines' = IF returned.line = <<>> THEN lines ELSE Append(lines, returned.line)
      /\ begins' = <<>> /\ file' = file /\ reader' = reader /\ calls' = calls
  BY DEF TakeLine
<1>2. /\ b \in Nat /\ b <= Len(file) /\ LineStart(file, b) /\ First = b
      /\ returned \in [length : Int, line : Seq(Symbols)]
      /\ returned.length <= LINE_MAX_SIZE
      /\ \/ LineIs(file, b, b, At, returned)
         \/ RestIs(file, b, b, At, returned, TRUE)
         \/ LostIs(file, b, b, At, returned, TRUE)
  BY <1>1, LastReturn
<1>3. /\ file \in Seq(Symbols) /\ Len(file) \in Nat /\ At \in Nat /\ Got \in Nat
      /\ At <= Got /\ Got <= Len(file) /\ At <= Len(file) /\ Len(reader.buffer) = Got - At
  BY FileTypes
<1> HIDE DEF b
<1>4. /\ Cut(file, Within(Expected(file), At)) =
            IF returned.line = <<>> THEN Cut(file, Within(Expected(file), b))
            ELSE Append(Cut(file, Within(Expected(file), b)), returned.line)
      /\ \A p \in Within(file, At) : p \in Within(file, b) \/ p[2] - p[1] + 1 <= LINE_MAX_SIZE + 1
      /\ LineStart(file, At)
  BY <1>1, <1>2, <1>3, Taken
<1>5. ReaderInv' /\ file' \in Seq(Symbols) /\ At' = At
  BY <1>1 DEF LinesInv, ReaderInv, At, Got
<1>6. lines' \in Seq(Seq(Symbols) \ {<<>>})
  <2>1. lines \in Seq(Seq(Symbols) \ {<<>>})
    BY DEF LinesInv
  <2> QED
    BY <1>1, <1>2, <2>1
<1>7. LinesGot'
  <2>1. /\ lines = Cut(file, Within(Expected(file), b))
        /\ \A p \in Within(file, b) : p[2] - p[1] + 1 <= LINE_MAX_SIZE + 1
    BY <1>1, <1>2 DEF LinesInv, LinesGot
  <2>2. First' = At
    BY <1>1, <1>5 DEF First
  <2>3. lines' = Cut(file', Within(Expected(file'), First'))
    BY <1>1, <1>4, <2>1, <2>2
  <2>4. \A p \in Within(file', First') : p[2] - p[1] + 1 <= LINE_MAX_SIZE + 1
    BY <1>1, <1>4, <2>1, <2>2
  <2> QED
    BY <2>3, <2>4 DEF LinesGot
<1>8. CallsInv'
  BY <1>1 DEF CallsInv
<1>9. reader.buffer = <<>> /\ At < Len(file) /\ At >= 2 => file[At - 1] # Newline
  <2> SUFFICES ASSUME reader.buffer = <<>>, At < Len(file), At >= 2 PROVE file[At - 1] # Newline
    OBVIOUS
  <2>1. At = Got /\ Boundary(At)
    <3>1. At = Got
      BY <1>3
    <3>2. Got = Len(file) \/ Boundary(Got)
      BY DEF LinesInv, ReaderInv
    <3> QED
      BY <1>3, <3>1, <3>2
  <2>2. LineIs(file, b, b, At, returned)
    BY <1>2, <1>3 DEF RestIs, LostIs
  <2>3. /\ b <= At - 1 /\ Free(file, b, At - 1)
        /\ returned.line = Part(file, b, At - 1)
        /\ returned.line = <<>> => Boundary(b)
    BY <2>2 DEF LineIs
  <2>4. b # At - 1
    <3> SUFFICES ASSUME b = At - 1 PROVE FALSE
      OBVIOUS
    <3>1. Boundary(b)
      BY <1>2, <1>3, <2>3, PartNothing
    <3>2. b + LINE_MAX_SIZE <= At
      BY <1>2, <1>3, <2>1, <3>1, BoundaryGap
    <3> QED
      BY <1>3, <3>2, PieceSize
  <2>5. At - 1 \in b + 1 .. At - 1
    BY <1>2, <1>3, <2>3, <2>4
  <2> QED
    BY <2>3, <2>5 DEF Free
<1>10. CallInv'
  BY <1>1, <1>4, <1>5, <1>9 DEF CallInv
<1> QED
  BY <1>1, <1>5, <1>6, <1>7, <1>8, <1>10 DEF LinesInv

LEMMA EndFileStep == LinesInv /\ EndFile => LinesInv'
<1> SUFFICES ASSUME LinesInv, EndFile PROVE LinesInv'
  OBVIOUS
<1> DEFINE b == begins[1]  N == Len(file)
<1>1. /\ reading = "return" /\ calls = <<>> /\ returned.length = -1 /\ reading' = "closed"
      /\ begins' = <<>> /\ file' = file /\ reader' = reader /\ calls' = calls /\ lines' = lines
  BY DEF EndFile
<1>2. /\ b \in Nat /\ b <= N /\ First = b
      /\ \/ LineIs(file, b, b, At, returned)
         \/ RestIs(file, b, b, At, returned, TRUE)
         \/ LostIs(file, b, b, At, returned, TRUE)
  BY <1>1, LastReturn
<1>3. /\ file \in Seq(Symbols) /\ N \in Nat /\ At \in Nat /\ Got \in Nat
      /\ At <= Got /\ Got <= N /\ Len(reader.buffer) = Got - At /\ reader.buffer \in Seq(Symbols)
  BY FileTypes
<1> HIDE DEF b, N
<1>4. At = N /\ b = N
  <2>1. ~ LineIs(file, b, b, At, returned)
    BY <1>1, <1>2, <1>3 DEF LineIs
  <2>2. ~ LostIs(file, b, b, At, returned, TRUE)
    BY <1>1, <1>2, <1>3 DEF LostIs
  <2>3. RestIs(file, b, b, At, returned, TRUE)
    BY <1>2, <2>1, <2>2
  <2>4. At = N /\ returned.length = At - b - 1
    BY <2>3 DEF RestIs, N
  <2> QED
    BY <1>1, <1>2, <1>3, <2>4
<1>5. Got = N /\ reader.buffer = <<>>
  BY <1>3, <1>4
<1>6. ReaderInv' /\ file' \in Seq(Symbols) /\ At' = At /\ Got' = Got
  BY <1>1 DEF LinesInv, ReaderInv, At, Got
<1>7. LinesGot'
  <2>1. First' = First
    BY <1>1, <1>2, <1>4, <1>6 DEF First
  <2> QED
    BY <1>1, <2>1 DEF LinesInv, LinesGot
<1>8. CallsInv'
  BY <1>1 DEF CallsInv
<1>9. ClosedInv'
  BY <1>1, <1>5, <1>6 DEF ClosedInv, N
<1>10. lines' \in Seq(Seq(Symbols) \ {<<>>})
  BY <1>1 DEF LinesInv
<1> QED
  BY <1>1, <1>6, <1>7, <1>8, <1>9, <1>10 DEF LinesInv

LEMMA NothingGot ==
  ASSUME NEW f \in Seq(Symbols)
  PROVE  Within(f, 0) = {} /\ Cut(f, Within(Expected(f), 0)) = <<>>
<1>1. ASSUME NEW g \in Seq(Symbols) PROVE Within(g, 0) = {}
  <2>1. ASSUME NEW p \in Stretches(g) PROVE ~ (p[2] <= 0)
    <3>1. p[1] \in Nat /\ p[2] \in Nat /\ 1 <= p[1] /\ p[1] <= p[2]
      BY StretchHas
    <3> QED
      BY <3>1
  <2> QED
    BY <2>1 DEF Within
<1>2. Within(f, 0) = {} /\ Within(Expected(f), 0) = {}
  BY <1>1, ExpectedIs
<1>3. Cardinality({}) = 0
  BY FS_EmptySet
<1>4. Cut(f, {}) = <<>>
  BY <1>3 DEF Cut
<1> QED
  BY <1>2, <1>4

LEMMA OpenFileStep ==
  ASSUME LinesInv, NEW symbols \in Seq(Symbols), OpenFile(symbols)
  PROVE  LinesInv'
<1> DEFINE N == Len(symbols)
<1>1. /\ reading = "closed" /\ file' = symbols /\ reader' = Reader(reader.buffer, symbols)
      /\ reading' = "call" /\ lines' = <<>> /\ calls' = calls /\ begins' = begins
  BY DEF OpenFile
<1>2. reader.buffer = <<>> /\ calls = <<>> /\ begins = <<>>
  BY <1>1 DEF LinesInv, ClosedInv
<1>3. reader'.buffer = <<>> /\ reader'.rest = symbols
  BY <1>1, <1>2 DEF Reader
<1>4. N \in Nat
  OBVIOUS
<1>5. At' = N - N - 0 /\ Got' = N - N
  BY <1>1, <1>3 DEF At, Got
<1> HIDE DEF N
<1>6. At' = 0 /\ Got' = 0
  BY <1>4, <1>5
<1>7. ReaderInv'
  <2>1. reader' \in [buffer : Seq(Symbols), rest : Seq(Symbols)]
    BY <1>1, <1>2 DEF Reader
  <2>2. Part(symbols, 0, 0) = <<>>
    BY PartNothing
  <2>3. Part(symbols, 0, N) = symbols
    <3>1. 0 \in Nat /\ 0 <= N /\ N <= Len(symbols) /\ N = Len(symbols)
      BY <1>4 DEF N
    <3>2. /\ Part(symbols, 0, N) \in Seq(Symbols) /\ Len(Part(symbols, 0, N)) = N - 0
          /\ \A k \in 1 .. N - 0 : Part(symbols, 0, N)[k] = symbols[0 + k]
      BY <1>4, <3>1, PartIs
    <3> DEFINE s == Part(symbols, 0, N)
    <3>3. s \in Seq(Symbols) /\ Len(s) = Len(symbols) /\ \A k \in 1 .. Len(s) : s[k] = symbols[k]
      BY <1>4, <3>1, <3>2
    <3> HIDE DEF s
    <3>4. s = symbols
      BY <3>3, SameSequence
    <3> QED
      BY <3>4 DEF s
  <2>4. ~ (AloneLast(symbols) /\ 0 = Len(symbols))
    BY <1>4 DEF AloneLast, N
  <2>5. Len(reader'.buffer) <= LINE_MAX_SIZE
    BY <1>3, PieceSize
  <2>6. 0 \in Nat /\ 0 <= Len(symbols)
    BY <1>4 DEF N
  <2>7. reader'.buffer = Part(file', At', Got') /\ reader'.rest = Part(file', Got', Len(file'))
    BY <1>1, <1>3, <1>6, <2>2, <2>3 DEF N
  <2> QED
    BY <1>1, <1>6, <2>1, <2>4, <2>5, <2>6, <2>7, BoundaryZero DEF ReaderInv
<1>8. LinesGot'
  <2>1. First' = 0
    BY <1>1, <1>2, <1>6 DEF First
  <2>2. Within(symbols, 0) = {} /\ Cut(symbols, Within(Expected(symbols), 0)) = <<>>
    BY NothingGot
  <2> QED
    BY <1>1, <2>1, <2>2 DEF LinesGot
<1>9. CallsInv'
  BY <1>1, <1>2 DEF CallsInv
<1>10. CallInv'
  <2>1. LineStart(file', At')
    BY <1>6 DEF LineStart
  <2>2. ~ (At' >= 2) /\ calls' = <<>>
    BY <1>1, <1>2, <1>6
  <2> QED
    BY <2>1, <2>2 DEF CallInv
<1> QED
  BY <1>1, <1>7, <1>8, <1>9, <1>10 DEF LinesInv

LEMMA LinesStutter == LinesInv /\ UNCHANGED line_vars => LinesInv'
<1> SUFFICES ASSUME LinesInv, UNCHANGED line_vars PROVE LinesInv'
  OBVIOUS
<1>1. /\ file' = file /\ reader' = reader /\ reading' = reading /\ calls' = calls
      /\ returned' = returned /\ begins' = begins /\ lines' = lines
  BY DEF line_vars
<1>2. At' = At /\ Got' = Got /\ First' = First
  BY <1>1 DEF At, Got, First
<1>3. ReaderInv'
  BY <1>1, <1>2 DEF LinesInv, ReaderInv
<1>4. ASSUME NEW k PROVE Ends(k)' = Ends(k)
  BY <1>1, <1>2 DEF Ends
<1>5. reading' # "fatal" => CallsInv'
  BY <1>1, <1>4 DEF LinesInv, CallsInv
<1>6. reading' # "fatal" => LinesGot'
  BY <1>1, <1>2 DEF LinesInv, LinesGot
<1>7. reading' = "call" => CallInv'
  BY <1>1, <1>2 DEF LinesInv, CallInv
<1>8. reading' = "return" => ReturnInv'
  BY <1>1, <1>2 DEF LinesInv, ReturnInv
<1>9. reading' = "closed" => ClosedInv'
  BY <1>1, <1>2 DEF LinesInv, ClosedInv
<1>10. reading' = "fatal" => \E p \in Stretches(file') : p[2] - p[1] + 1 > LINE_MAX_SIZE
  BY <1>1 DEF LinesInv
<1> QED
  BY <1>1, <1>3, <1>5, <1>6, <1>7, <1>8, <1>9, <1>10 DEF LinesInv

LEMMA GetFileLineStep == LinesInv /\ GetFileLine => LinesInv'
BY ReadEndStep, ReadLineStep, ReadPieceStep, JoinStep DEF GetFileLine

LEMMA LinesStart == LinesInit => LinesInv
<1> SUFFICES ASSUME LinesInit PROVE LinesInv
  OBVIOUS
<1>1. /\ file = <<>> /\ reader = Reader(<<>>, <<>>) /\ reading = "closed"
      /\ calls = <<>> /\ begins = <<>> /\ lines = <<>>
  BY DEF LinesInit
<1>2. reader.buffer = <<>> /\ reader.rest = <<>> /\ file \in Seq(Symbols)
  BY <1>1 DEF Reader
<1>3. At = 0 /\ Got = 0 /\ Len(file) = 0
  <2>1. Len(file) = 0 /\ Len(reader.rest) = 0 /\ Len(reader.buffer) = 0
    BY <1>1, <1>2
  <2> QED
    BY <2>1 DEF At, Got
<1>4. ReaderInv
  <2>1. reader \in [buffer : Seq(Symbols), rest : Seq(Symbols)]
    BY <1>1 DEF Reader
  <2>2. Part(file, 0, 0) = <<>>
    BY <1>2, PartNothing
  <2>3. ~ AloneLast(file)
    BY <1>3 DEF AloneLast
  <2> QED
    BY <1>2, <1>3, <2>1, <2>2, <2>3, PieceSize DEF ReaderInv
<1>5. LinesGot
  <2>1. First = 0
    BY <1>1, <1>3 DEF First
  <2>2. Within(file, 0) = {} /\ Cut(file, Within(Expected(file), 0)) = <<>>
    BY <1>2, NothingGot
  <2> QED
    BY <1>1, <2>1, <2>2 DEF LinesGot
<1>6. CallsInv
  BY <1>1 DEF CallsInv
<1>7. ClosedInv
  BY <1>1, <1>2, <1>3 DEF ClosedInv
<1> QED
  BY <1>1, <1>2, <1>4, <1>5, <1>6, <1>7 DEF LinesInv

LEMMA WholeLines == LinesInv => LinesWhole /\ TooLongIsFatal
<1> SUFFICES ASSUME LinesInv PROVE LinesWhole /\ TooLongIsFatal
  OBVIOUS
<1> DEFINE N == Len(file)  G == Expected(file)
<1>1. file \in Seq(Symbols) /\ N \in Nat /\ Len(reader.buffer) = Got - At /\ At \in Nat /\ Got \in Nat
  BY FileTypes
<1>2. /\ G \in Seq(Symbols)
      /\ LastLost(file) => Len(G) = N - 1
      /\ ~ LastLost(file) => Len(G) = N
  BY <1>1, ExpectedIs
<1> HIDE DEF N, G
<1>3. Len(G) <= N
  BY <1>1, <1>2
<1>4. ASSUME reading = "closed"
      PROVE  /\ lines = Cut(file, Stretches(G))
             /\ \A p \in Stretches(file) : p[2] - p[1] + 1 <= LINE_MAX_SIZE + 1
  <2>1. Got = N /\ reader.buffer = <<>> /\ begins = <<>>
    BY <1>4 DEF LinesInv, ClosedInv, N
  <2>2. First = N
    BY <1>1, <2>1 DEF First
  <2>3. Within(G, N) = Stretches(G)
    BY <1>1, <1>2, <1>3, WithinAll
  <2>4. Within(file, N) = Stretches(file)
    <3>1. Len(file) <= N
      BY <1>1 DEF N
    <3> QED
      BY <1>1, <3>1, WithinAll
  <2>5. LinesGot
    BY <1>4 DEF LinesInv
  <2> QED
    BY <2>2, <2>3, <2>4, <2>5 DEF LinesGot, G
<1>5. LinesWhole
  BY <1>4 DEF LinesWhole, G, Expected
<1>6. reading = "fatal" => \E p \in Stretches(file) : p[2] - p[1] + 1 > LINE_MAX_SIZE
  BY DEF LinesInv
<1>7. reading = "closed" => ~ \E p \in Stretches(file) : p[2] - p[1] + 1 > LINE_MAX_SIZE + 1
  <2> SUFFICES ASSUME reading = "closed", NEW p \in Stretches(file),
                      p[2] - p[1] + 1 > LINE_MAX_SIZE + 1
               PROVE  FALSE
    OBVIOUS
  <2>1. p[1] \in Nat /\ p[2] \in Nat
    BY <1>1, StretchHas
  <2> QED
    BY <1>4, <2>1, PieceSize
<1>8. TooLongIsFatal
  BY <1>6, <1>7 DEF TooLongIsFatal
<1> QED
  BY <1>5, <1>8

\* get_file_line, whichever file is opened next: a file that is read to its end
\* came out line by line, and reading ends only over a line too long.
THEOREM LinesCorrect == LinesSpec => [](LinesWhole /\ TooLongIsFatal)
<1>1. LinesInv /\ [LinesNext]_line_vars => LinesInv'
  BY GetFileLineStep, TakeLineStep, EndFileStep, OpenFileStep, LinesStutter DEF LinesNext
<1> QED
  BY <1>1, LinesStart, WholeLines, PTL DEF LinesSpec

(***************************************************************************)
(* The server list.                                                        *)
(***************************************************************************)

AddressOf(x) == <<x.ip, (IF x.port = 0 THEN SERVER_DEFAULT_PORT ELSE x.port) % 65536>>

Addresses == {AddressOf(x) : x \in Symbols}

\* ServersOnce, of a list L and a map S.
ListIs(L, S) ==
  /\ \A k, l \in 1 .. Len(S) : S[k] = S[l] => k = l
  /\ \A i \in 1 .. Len(L) :
       L[i][1].ip # BadIP => \E k \in 1 .. Len(S) : S[k] = AddressOf(L[i][1])
  /\ \A k \in 1 .. Len(S) : \E i \in 1 .. Len(L) :
       /\ L[i][1].ip # BadIP /\ S[k] = AddressOf(L[i][1])
       /\ \A j \in 1 .. i - 1, l \in k .. Len(S) :
            ~ (L[j][1].ip # BadIP /\ S[l] = AddressOf(L[j][1]))

LEMMA ServersAre ==
  ServersOnce <=> (main \in {"list", "listed"} => ListIs(lines, servers))
<1>1. \A i, s : Names(i, s) <=> lines[i][1].ip # BadIP /\ s = AddressOf(lines[i][1])
  BY DEF Names, AddressOf
<1> QED
  BY <1>1 DEF ServersOnce, ListIs

LEMMA ListStep ==
  ASSUME NEW L \in Seq(Seq(Symbols) \ {<<>>}), NEW S \in Seq(Addresses), ListIs(L, S),
         NEW line \in Seq(Symbols)
  PROVE  /\ ParseServer(S, line) \in Seq(Addresses)
         /\ ListIs(IF line = <<>> THEN L ELSE Append(L, line), ParseServer(S, line))
<1> DEFINE n == Len(L)  m == Len(S)  M == Append(L, line)  a == AddressOf(line[1])
           T == Append(S, a)
<1>1. n \in Nat /\ m \in Nat
  OBVIOUS
<1>2. CASE line = <<>>
  BY <1>2 DEF ParseServer
<1>3. ASSUME line # <<>>
      PROVE  /\ Len(M) = n + 1 /\ M[n + 1] = line /\ \A i \in 1 .. n : M[i] = L[i]
             /\ line[1] \in Symbols
  BY <1>3
<1> HIDE DEF n, m, M
<1>4. \A k, l \in 1 .. m : S[k] = S[l] => k = l
  BY DEF ListIs, m
<1>9. ASSUME NEW i \in 1 .. n, L[i][1].ip # BadIP
      PROVE  \E k \in 1 .. m : S[k] = AddressOf(L[i][1])
  BY <1>9 DEF ListIs, n, m
<1>10. \A k \in 1 .. m : \E i \in 1 .. n :
         /\ L[i][1].ip # BadIP /\ S[k] = AddressOf(L[i][1])
         /\ \A j \in 1 .. i - 1, l \in k .. m :
              ~ (L[j][1].ip # BadIP /\ S[l] = AddressOf(L[j][1]))
  BY DEF ListIs, n, m
<1> HIDE DEF a
\* The map stays: the line names no server, or one it has.
<1>5. ASSUME line # <<>>, line[1].ip # BadIP => \E k \in 1 .. m : S[k] = a
      PROVE  ListIs(M, S)
  <2>1. \A i \in 1 .. n + 1 :
          M[i][1].ip # BadIP => \E k \in 1 .. m : S[k] = AddressOf(M[i][1])
    <3> TAKE i \in 1 .. n + 1
    <3>0. i \in 1 .. n \/ i = n + 1
      BY <1>1
    <3>1. CASE i \in 1 .. n
      <4>1. M[i] = L[i]
        BY <1>3, <1>5, <3>1
      <4> QED
        BY <1>9, <3>1, <4>1
    <3>2. CASE i = n + 1
      <4>1. M[i] = line
        BY <1>3, <1>5, <3>2
      <4> QED
        BY <1>5, <4>1 DEF a
    <3> QED
      BY <3>0, <3>1, <3>2
  <2>2. ASSUME NEW k \in 1 .. m
        PROVE  \E i \in 1 .. n + 1 :
                 /\ M[i][1].ip # BadIP /\ S[k] = AddressOf(M[i][1])
                 /\ \A j \in 1 .. i - 1, l \in k .. m :
                      ~ (M[j][1].ip # BadIP /\ S[l] = AddressOf(M[j][1]))
    <3>1. PICK i \in 1 .. n :
            /\ L[i][1].ip # BadIP /\ S[k] = AddressOf(L[i][1])
            /\ \A j \in 1 .. i - 1, l \in k .. m :
                 ~ (L[j][1].ip # BadIP /\ S[l] = AddressOf(L[j][1]))
      BY <1>10
    <3>2. i \in 1 .. n + 1 /\ M[i] = L[i] /\ \A j \in 1 .. i - 1 : M[j] = L[j]
      BY <1>1, <1>3, <1>5
    <3>3. /\ M[i][1].ip # BadIP /\ S[k] = AddressOf(M[i][1])
          /\ \A j \in 1 .. i - 1, l \in k .. m :
               ~ (M[j][1].ip # BadIP /\ S[l] = AddressOf(M[j][1]))
      BY <3>1, <3>2
    <3> QED
      BY <3>2, <3>3
  <2>3. Len(M) = n + 1
    BY <1>3, <1>5
  <2> QED
    BY <1>4, <2>1, <2>2, <2>3 DEF ListIs, m
\* A new one.
<1>6. ASSUME line # <<>>, line[1].ip # BadIP, \A k \in 1 .. m : S[k] # a
      PROVE  T \in Seq(Addresses) /\ ListIs(M, T)
  <2>1. a \in Addresses
    BY <1>3, <1>6 DEF Addresses, a
  <2>2. /\ T \in Seq(Addresses) /\ Len(T) = m + 1 /\ T[m + 1] = a
        /\ \A k \in 1 .. m : T[k] = S[k]
    BY <2>1 DEF m
  <2> HIDE DEF T
  <2>3. ASSUME NEW k \in 1 .. m + 1, NEW l \in 1 .. m + 1, T[k] = T[l] PROVE k = l
    <3>1. CASE k \in 1 .. m /\ l \in 1 .. m
      BY <1>4, <2>2, <2>3, <3>1
    <3>2. CASE k = m + 1 \/ l = m + 1
      <4>1. (k = m + 1 \/ k \in 1 .. m) /\ (l = m + 1 \/ l \in 1 .. m)
        BY <1>1
      <4> QED
        BY <1>6, <2>2, <2>3, <3>2, <4>1
    <3>3. (k \in 1 .. m /\ l \in 1 .. m) \/ k = m + 1 \/ l = m + 1
      BY <1>1
    <3> QED
      BY <3>1, <3>2, <3>3
  <2>4. m + 1 \in 1 .. m + 1 /\ \A k \in 1 .. m : k \in 1 .. m + 1
    BY <1>1
  <2>5. \A i \in 1 .. n + 1 :
          M[i][1].ip # BadIP => \E k \in 1 .. m + 1 : T[k] = AddressOf(M[i][1])
    <3> TAKE i \in 1 .. n + 1
    <3>0. i \in 1 .. n \/ i = n + 1
      BY <1>1
    <3>1. CASE i \in 1 .. n
      <4>1. M[i] = L[i]
        BY <1>3, <1>6, <3>1
      <4>2. M[i][1].ip # BadIP => \E k \in 1 .. m : S[k] = AddressOf(M[i][1])
        BY <1>9, <3>1, <4>1
      <4> QED
        BY <2>2, <2>4, <4>2
    <3>2. CASE i = n + 1
      <4>1. M[i] = line
        BY <1>3, <1>6, <3>2
      <4> QED
        BY <2>2, <2>4, <4>1 DEF a
    <3> QED
      BY <3>0, <3>1, <3>2
  <2>6. ASSUME NEW j \in 1 .. n PROVE ~ (M[j][1].ip # BadIP /\ a = AddressOf(M[j][1]))
    <3>1. M[j] = L[j]
      BY <1>3, <1>6
    <3>2. L[j][1].ip # BadIP => \E k \in 1 .. m : S[k] = AddressOf(L[j][1])
      BY <1>9
    <3> QED
      BY <1>6, <3>1, <3>2
  <2>7. ASSUME NEW k \in 1 .. m + 1
        PROVE  \E i \in 1 .. n + 1 :
                 /\ M[i][1].ip # BadIP /\ T[k] = AddressOf(M[i][1])
                 /\ \A j \in 1 .. i - 1, l \in k .. m + 1 :
                      ~ (M[j][1].ip # BadIP /\ T[l] = AddressOf(M[j][1]))
    <3>0. k \in 1 .. m \/ k = m + 1
      BY <1>1
    <3>1. CASE k \in 1 .. m
      <4>1. PICK i \in 1 .. n :
              /\ L[i][1].ip # BadIP /\ S[k] = AddressOf(L[i][1])
              /\ \A j \in 1 .. i - 1, l \in k .. m :
                   ~ (L[j][1].ip # BadIP /\ S[l] = AddressOf(L[j][1]))
        BY <1>10, <3>1
      <4>2. i \in 1 .. n + 1 /\ M[i] = L[i] /\ \A j \in 1 .. i - 1 : M[j] = L[j] /\ j \in 1 .. n
        <5>1. i \in 1 .. n + 1 /\ \A j \in 1 .. i - 1 : j \in 1 .. n
          BY <1>1
        <5> QED
          BY <1>3, <1>6, <5>1
      <4>3. ASSUME NEW j \in 1 .. i - 1, NEW l \in k .. m + 1
            PROVE  ~ (M[j][1].ip # BadIP /\ T[l] = AddressOf(M[j][1]))
        <5>1. CASE l = m + 1
          BY <2>2, <2>6, <4>2, <5>1
        <5>2. CASE l # m + 1
          <6>1. l \in Int /\ k \in Int /\ k <= l /\ l <= m + 1 /\ 1 <= k
            BY <1>1, <3>1
          <6>3. l <= m /\ 1 <= l
            BY <1>1, <5>2, <6>1
          <6>2. l \in k .. m /\ l \in 1 .. m
            BY <1>1, <6>1, <6>3
          <6> QED
            BY <2>2, <4>1, <4>2, <6>2
        <5> QED
          BY <5>1, <5>2
      <4>4. M[i][1].ip # BadIP /\ T[k] = AddressOf(M[i][1])
        BY <2>2, <3>1, <4>1, <4>2
      <4> QED
        BY <4>2, <4>3, <4>4
    <3>2. CASE k = m + 1
      <4>1. n + 1 \in 1 .. n + 1 /\ M[n + 1][1].ip # BadIP /\ T[k] = AddressOf(M[n + 1][1])
        BY <1>1, <1>3, <1>6, <2>2, <3>2 DEF a
      <4>2. ASSUME NEW j \in 1 .. (n + 1) - 1, NEW l \in k .. m + 1
            PROVE  ~ (M[j][1].ip # BadIP /\ T[l] = AddressOf(M[j][1]))
        <5>1. l = m + 1 /\ j \in 1 .. n
          BY <1>1, <3>2
        <5> QED
          BY <2>2, <2>6, <5>1
      <4> QED
        BY <4>1, <4>2
    <3> QED
      BY <3>0, <3>1, <3>2
  <2>8. Len(M) = n + 1
    BY <1>3, <1>6
  <2> QED
    BY <2>2, <2>3, <2>5, <2>7, <2>8 DEF ListIs
<1>7. CASE line # <<>> /\ line[1].ip = BadIP
  <2>1. ParseServer(S, line) = S
    BY <1>7 DEF ParseServer
  <2> QED
    BY <1>5, <1>7, <2>1 DEF M
<1>8. CASE line # <<>> /\ line[1].ip # BadIP
  <2>1. ParseServer(S, line) = IF a \in Range(S) THEN S ELSE T
    BY <1>8 DEF ParseServer, AddressOf, a
  <2>2. a \in Range(S) <=> \E k \in 1 .. m : S[k] = a
    BY DEF Range, m
  <2>3. CASE a \in Range(S)
    BY <1>5, <1>8, <2>1, <2>2, <2>3 DEF M
  <2>4. CASE a \notin Range(S)
    BY <1>6, <1>8, <2>1, <2>2, <2>4 DEF M
  <2> QED
    BY <2>3, <2>4
<1> QED
  BY <1>2, <1>7, <1>8

(***************************************************************************)
(* The config file: what its words say.                                    *)
(***************************************************************************)

WordRecords == [token : Symbols, first : BOOLEAN]

\* A setting ends before the next line begins that is read as one.
LEMMA EndsBefore ==
  ASSUME NEW w \in Seq(WordRecords), NEW S, AreLines(w, S), NEW g \in S, NEW h \in S, g < h,
         NEW e \in Nat, EndsAt(w, g, e)
  PROVE  e < h
<1>1. /\ S \subseteq 1 .. Len(w) /\ Len(w) \in Nat
      /\ w[h].first /\ ~ Covers(w, g, h)
  BY DEF AreLines
<1>2. g \in Nat /\ h \in Nat /\ g >= 1
  BY <1>1
<1>3. HasValue(w, g)
  BY DEF EndsAt
<1>4. ~ w[g + 1].first
  BY <1>3 DEF HasValue
<1>5. h # g + 1
  BY <1>1, <1>4
<1>6. CASE w[g + 1].token.open
  <2>1. Covers(w, g, e) /\ w[e].token.close
    BY <1>6 DEF EndsAt
  <2>2. ~ (\A i \in g + 1 .. h - 1 : ~ w[i].token.close)
    BY <1>1, <1>3, <1>6 DEF Covers
  <2>3. PICK i \in g + 1 .. h - 1 : w[i].token.close
    BY <2>2
  <2>4. \A j \in g + 1 .. e - 1 : ~ w[j].token.close
    BY <2>1 DEF Covers
  <2>5. ~ (i <= e - 1)
    BY <1>2, <2>3, <2>4
  <2> QED
    BY <1>2, <2>5
<1>7. CASE ~ w[g + 1].token.open
  <2>1. e = g + 1
    BY <1>7 DEF EndsAt
  <2> QED
    BY <1>2, <1>5, <2>1
<1> QED
  BY <1>6, <1>7

\* A line's setting has one end.
LEMMA OneEnd ==
  ASSUME NEW w, NEW h \in Nat, NEW d \in Nat, NEW e \in Nat, EndsAt(w, h, d), EndsAt(w, h, e)
  PROVE  d = e
<1>1. CASE w[h + 1].token.open
  <2>1. /\ h < d /\ h < e /\ w[d].token.close /\ w[e].token.close
        /\ \A i \in h + 1 .. d - 1 : ~ w[i].token.close
        /\ \A i \in h + 1 .. e - 1 : ~ w[i].token.close
    BY <1>1 DEF EndsAt, Covers
  <2>2. ~ (d \in h + 1 .. e - 1) /\ ~ (e \in h + 1 .. d - 1)
    BY <2>1
  <2> QED
    BY <2>1, <2>2
<1>2. CASE ~ w[h + 1].token.open
  BY <1>2 DEF EndsAt
<1> QED
  BY <1>1, <1>2

(***************************************************************************)
(* What is settled by the first c words.                                   *)
(***************************************************************************)

Sets(w, h, e, name) == EndsAt(w, h, e) /\ IsName(w[h].token, name)

Settled(w, S, c, default, name, value) ==
  \/ value = default /\ \A h \in S, e \in 1 .. c : ~ Sets(w, h, e, name)
  \/ \E h \in S, e \in 1 .. c :
       /\ Sets(w, h, e, name) /\ value = Value(w, h, e)
       /\ \A g \in S, d \in 1 .. c : Sets(w, g, d, name) => g <= h

AllSettled(w, S, c, defaults, values) ==
  /\ DOMAIN values = DOMAIN defaults
  /\ \A name \in DOMAIN defaults : Settled(w, S, c, defaults[name], name, values[name])

LEMMA SettledSays ==
  ASSUME NEW w \in Seq(WordRecords), NEW S, AreLines(w, S), NEW defaults, NEW values,
         AllSettled(w, S, Len(w), defaults, values)
  PROVE  AsWritten(w, S, defaults, values)
<1> SUFFICES ASSUME NEW name \in DOMAIN defaults
             PROVE  Says(w, S, defaults[name], name, values[name])
  BY DEF AsWritten, AllSettled
<1>1. \A h, e : <<h, e>> \in SettingsOf(w, S, name)
                <=> h \in S /\ e \in 1 .. Len(w) /\ Sets(w, h, e, name)
  BY DEF SettingsOf, Sets
<1>2. \A r \in SettingsOf(w, S, name) : r = <<r[1], r[2]>>
  BY DEF SettingsOf
<1>3. Settled(w, S, Len(w), defaults[name], name, values[name])
  BY DEF AllSettled
<1>4. CASE /\ values[name] = defaults[name]
           /\ \A h \in S, e \in 1 .. Len(w) : ~ Sets(w, h, e, name)
  <2>1. SettingsOf(w, S, name) = {}
    BY <1>1, <1>2, <1>4
  <2> QED
    BY <1>4, <2>1 DEF Says
<1>5. CASE \E h \in S, e \in 1 .. Len(w) :
             /\ Sets(w, h, e, name) /\ values[name] = Value(w, h, e)
             /\ \A g \in S, d \in 1 .. Len(w) : Sets(w, g, d, name) => g <= h
  <2>1. PICK h \in S, e \in 1 .. Len(w) :
          /\ Sets(w, h, e, name) /\ values[name] = Value(w, h, e)
          /\ \A g \in S, d \in 1 .. Len(w) : Sets(w, g, d, name) => g <= h
    BY <1>5
  <2> DEFINE s == <<h, e>>
  <2>2. s \in SettingsOf(w, S, name)
    BY <1>1, <2>1
  <2>3. \A r \in SettingsOf(w, S, name) : r[1] <= s[1]
    BY <1>1, <1>2, <2>1
  <2>4. values[name] = Value(w, s[1], s[2])
    BY <2>1
  <2> HIDE DEF s
  <2> QED
    BY <2>2, <2>3, <2>4 DEF Says
<1> QED
  BY <1>3, <1>4, <1>5 DEF Settled

\* No setting ends at the next word.
LEMMA SettledSame ==
  ASSUME NEW w, NEW S, NEW c \in Nat, NEW defaults, NEW values,
         AllSettled(w, S, c, defaults, values), \A h \in S : ~ EndsAt(w, h, c + 1)
  PROVE  AllSettled(w, S, c + 1, defaults, values)
<1> SUFFICES ASSUME NEW name \in DOMAIN defaults
             PROVE  Settled(w, S, c + 1, defaults[name], name, values[name])
  BY DEF AllSettled
<1>1. \A h \in S, e \in 1 .. c + 1 : Sets(w, h, e, name) => e \in 1 .. c
  BY DEF Sets
<1>2. \A e \in 1 .. c : e \in 1 .. c + 1
  OBVIOUS
<1>3. Settled(w, S, c, defaults[name], name, values[name])
  BY DEF AllSettled
<1> QED
  BY <1>1, <1>2, <1>3, Zenon DEF Settled

\* The setting of the line at h ends at the next word, and it is the last line.
LEMMA SettledNew ==
  ASSUME NEW w \in Seq(WordRecords), NEW S, AreLines(w, S), NEW c \in Nat,
         NEW defaults, NEW values, AllSettled(w, S, c, defaults, values),
         NEW h \in S, EndsAt(w, h, c + 1), \A g \in S : g <= c => g <= h,
         NEW property, property = w[h].token
  PROVE  AllSettled(w, S, c + 1, defaults, SetConfigValue(values, property, Value(w, h, c + 1)))
<1> DEFINE v == Value(w, h, c + 1)  new == SetConfigValue(values, property, v)
<1>0. S \subseteq Nat /\ h \in Nat
  BY DEF AreLines
<1>1. \A g \in S : EndsAt(w, g, c + 1) => g = h
  <2> SUFFICES ASSUME NEW g \in S, EndsAt(w, g, c + 1) PROVE g = h
    OBVIOUS
  <2>1. g < c + 1 /\ h < c + 1
    BY <1>0 DEF EndsAt, Covers
  <2>2. ~ (g < h) /\ ~ (h < g)
    BY <1>0, <2>1, EndsBefore
  <2> QED
    BY <1>0, <2>2
<1>2. c + 1 \in 1 .. c + 1 /\ \A e \in 1 .. c : e \in 1 .. c + 1
  OBVIOUS
<1>3. \A e \in 1 .. c + 1 : e \in 1 .. c \/ e = c + 1
  OBVIOUS
<1>4. \A g \in S, e \in 1 .. c + 1 : EndsAt(w, g, e) => g <= h
  <2> SUFFICES ASSUME NEW g \in S, NEW e \in 1 .. c + 1, EndsAt(w, g, e) PROVE g <= h
    OBVIOUS
  <2>1. g < e
    BY <1>0 DEF EndsAt, Covers
  <2> QED
    BY <1>0, <2>1
<1>5. DOMAIN new = DOMAIN defaults
  BY DEF SetConfigValue, AllSettled
<1>6. ASSUME NEW name \in DOMAIN defaults
      PROVE  Settled(w, S, c + 1, defaults[name], name, new[name])
  <2>1. CASE IsName(property, name)
    <3>1. new[name] = v
      BY <2>1 DEF SetConfigValue, IsName, AllSettled
    <3>2. Sets(w, h, c + 1, name)
      BY <2>1 DEF Sets
    <3>3. \A g \in S, d \in 1 .. c + 1 : Sets(w, g, d, name) => g <= h
      BY <1>4 DEF Sets
    <3> HIDE DEF new
    <3> QED
      BY <1>2, <3>1, <3>2, <3>3 DEF Settled
  <2>2. CASE ~ IsName(property, name)
    <3>1. new[name] = values[name]
      <4>1. CASE \E x \in DOMAIN values : IsName(property, x)
        <5>1. property.text # name
          BY <2>2, <4>1 DEF IsName
        <5>2. new = [values EXCEPT ![property.text] = v] /\ name \in DOMAIN values
          BY <4>1 DEF SetConfigValue, AllSettled
        <5> HIDE DEF new, v
        <5> QED
          BY <5>1, <5>2
      <4>2. CASE ~ \E x \in DOMAIN values : IsName(property, x)
        BY <4>2 DEF SetConfigValue
      <4> QED
        BY <4>1, <4>2
    <3>2. \A g \in S, e \in 1 .. c + 1 : Sets(w, g, e, name) => e \in 1 .. c
      BY <1>1, <1>3, <2>2 DEF Sets
    <3>3. Settled(w, S, c, defaults[name], name, values[name])
      BY DEF AllSettled
    <3> HIDE DEF new
    <3> QED
      BY <1>2, <3>1, <3>2, <3>3, Zenon DEF Settled
  <2> QED
    BY <2>1, <2>2
<1> QED
  BY <1>5, <1>6 DEF AllSettled

\* To set the last setting again changes nothing.
LEMMA SetAgain ==
  ASSUME NEW w \in Seq(WordRecords), NEW S, AreLines(w, S), NEW c \in Nat,
         NEW defaults, NEW values, AllSettled(w, S, c, defaults, values),
         values = [name \in DOMAIN values |-> values[name]],
         NEW h \in S, NEW e \in 1 .. c, EndsAt(w, h, e), \A g \in S : g <= c => g <= h
  PROVE  SetConfigValue(values, w[h].token, Value(w, h, e)) = values
<1> DEFINE property == w[h].token  v == Value(w, h, e)
<1>0. S \subseteq Nat /\ h \in Nat
  BY DEF AreLines
<1>1. ASSUME NEW name \in DOMAIN values, IsName(property, name)
      PROVE  [values EXCEPT ![property.text] = v] = values
  <2>1. Sets(w, h, e, name)
    BY <1>1 DEF Sets
  <2>2. Settled(w, S, c, defaults[name], name, values[name])
    BY <1>1 DEF AllSettled
  <2>3. PICK g \in S, d \in 1 .. c :
          /\ Sets(w, g, d, name) /\ values[name] = Value(w, g, d)
          /\ \A x \in S, y \in 1 .. c : Sets(w, x, y, name) => x <= g
    BY <2>1, <2>2 DEF Settled
  <2>4. h <= g /\ g < d /\ EndsAt(w, g, d)
    BY <1>0, <2>1, <2>3 DEF Sets, EndsAt, Covers
  <2>5. g = h
    BY <1>0, <2>4
  <2>6. d = e
    BY <1>0, <2>4, <2>5, OneEnd
  <2>7. values[property.text] = v
    BY <1>1, <2>3, <2>5, <2>6 DEF IsName
  <2> HIDE DEF v, property
  <2> QED
    BY <2>7
<1> QED
  BY <1>1 DEF SetConfigValue

(***************************************************************************)
(* The parser behind c of the words: every setting that has ended is in    *)
(* the config, the last one of each name, and the stage says which line    *)
(* the next word belongs to, and as what.                                  *)
(***************************************************************************)

Quoted(w, h) == HasValue(w, h) /\ w[h + 1].token.open

HasClosed(w, h, c) == \E i \in h + 1 .. c : w[i].token.close

LineIsRead(w, c, line) ==
  /\ Len(w) = c + Len(line) /\ \A k \in 1 .. Len(line) : line[k] = w[c + k].token
  /\ \A i \in c + 2 .. Len(w) : ~ w[i].first

InLineOf(w, c) == c < Len(w) => ~ w[c + 1].first

StageIs(w, S, c, p) ==
  CASE p.stage = "property" ->
         p.value = <<>> /\ (c < Len(w) => w[c + 1].first /\ c + 1 \in S)
    [] p.stage = "value" ->
         /\ c \in S /\ w[c].token # Word("#") /\ InLineOf(w, c)
         /\ p.property = w[c].token /\ p.value = <<>>
    [] p.stage = "string" ->
         \E h \in S :
           /\ h < c /\ Quoted(w, h) /\ ~ HasClosed(w, h, c)
           /\ p.property = w[h].token
           /\ p.value = [k \in 1 .. c - h |-> Word(w[h + k].token.text)]
    [] p.stage = "set" ->
         /\ InLineOf(w, c)
         /\ \E h \in S, e \in 1 .. c :
              /\ EndsAt(w, h, e) /\ \A g \in S : g <= c => g <= h
              /\ p.property = w[h].token /\ p.value = Value(w, h, e)
    [] p.stage = "comment" ->
         c \in S /\ w[c].token = Word("#") /\ InLineOf(w, c)

ParserRecord(p) ==
  /\ p = [stage |-> p.stage, property |-> p.property, value |-> p.value,
          config |-> p.config, line |-> p.line]
  /\ p.stage \in {"property", "value", "string", "set", "comment"}
  /\ p.line \in Seq(Symbols)
  /\ p.config = [name \in DOMAIN p.config |-> p.config[name]]

ParseInv(w, S, c, defaults, p) ==
  /\ w \in Seq(WordRecords) /\ c \in Nat /\ AreLines(w, S)
  /\ ParserRecord(p)
  /\ LineIsRead(w, c, p.line)
  /\ AllSettled(w, S, c, defaults, p.config)
  /\ p.stage # "string" => \A h \in S : h < c /\ Quoted(w, h) => HasClosed(w, h, c)
  /\ StageIs(w, S, c, p)

\* The parser takes the word it is before.
LEMMA NextToken ==
  ASSUME NEW w, NEW S, NEW c, NEW defaults, NEW p,
         ParseInv(w, S, c, defaults, p), p.line # <<>>
  PROVE  /\ c + 1 \in 1 .. Len(w)
         /\ Head(p.line) = w[c + 1].token /\ Tail(p.line) \in Seq(Symbols)
         /\ LineIsRead(w, c + 1, Tail(p.line)) /\ InLineOf(w, c + 1)
<1>0. /\ w \in Seq(WordRecords) /\ c \in Nat /\ p.line \in Seq(Symbols)
      /\ Len(w) = c + Len(p.line) /\ \A k \in 1 .. Len(p.line) : p.line[k] = w[c + k].token
      /\ \A i \in c + 2 .. Len(w) : ~ w[i].first
  BY DEF ParseInv, ParserRecord, LineIsRead
<1> DEFINE rest == Tail(p.line)
<1>1. /\ Len(p.line) >= 1 /\ Len(p.line) \in Nat /\ rest \in Seq(Symbols)
      /\ Len(rest) = Len(p.line) - 1
      /\ Head(p.line) = p.line[1]
      /\ \A k \in 1 .. Len(p.line) - 1 : rest[k] = p.line[k + 1]
  BY <1>0
<1>2. Len(w) \in Nat
  BY <1>0
<1> HIDE DEF rest
<1>3. Len(w) = c + 1 + Len(rest) /\ c + 1 \in 1 .. Len(w)
  <2>1. c \in Nat /\ Len(w) = c + Len(p.line)
    BY <1>0
  <2>2. Len(p.line) \in Nat /\ Len(p.line) >= 1 /\ Len(rest) = Len(p.line) - 1
    BY <1>1
  <2> DEFINE a == Len(p.line)  b == Len(rest)  n == Len(w)
  <2>3. a \in Nat /\ a >= 1 /\ b = a - 1 /\ n = c + a
    BY <2>1, <2>2
  <2> HIDE DEF a, b, n
  <2>4. n = c + 1 + b /\ c + 1 \in 1 .. n
    BY ONLY <2>1, <2>3
  <2> QED
    BY <2>4 DEF a, b, n
<1>4. \A k \in 1 .. Len(rest) : rest[k] = w[c + 1 + k].token
  <2> SUFFICES ASSUME NEW k \in 1 .. Len(rest) PROVE rest[k] = w[c + 1 + k].token
    OBVIOUS
  <2>1. k + 1 \in 1 .. Len(p.line) /\ k \in 1 .. Len(p.line) - 1 /\ c + (k + 1) = c + 1 + k
    BY <1>0, <1>1
  <2> QED
    BY <1>0, <1>1, <2>1
<1>5. \A i \in (c + 1) + 2 .. Len(w) : i \in c + 2 .. Len(w)
  BY <1>0
<1>6. c + 1 < Len(w) => c + 1 + 1 \in c + 2 .. Len(w)
  BY <1>0, <1>2
<1>7. Head(p.line) = w[c + 1].token
  BY <1>0, <1>1
<1>8. LineIsRead(w, c + 1, rest)
  BY <1>0, <1>3, <1>4, <1>5 DEF LineIsRead
<1>9. InLineOf(w, c + 1)
  BY <1>0, <1>6 DEF InLineOf
<1> QED
  BY <1>1, <1>3, <1>7, <1>8, <1>9 DEF rest

\* A string that has closed stays so, and is open until it closes.
LEMMA Closing ==
  ASSUME NEW w, NEW h \in Nat, NEW c \in Nat
  PROVE  /\ HasClosed(w, h, c) => HasClosed(w, h, c + 1)
         /\ h <= c /\ w[c + 1].token.close => HasClosed(w, h, c + 1)
         /\ h < c /\ HasClosed(w, h, c) => ~ Covers(w, h, c + 1)
         /\ h < c + 1 /\ Quoted(w, h) /\ ~ HasClosed(w, h, c) => Covers(w, h, c + 1)
  BY DEF HasClosed, Covers, Quoted

\* Nothing is set before a word but the value that ends there.
LEMMA NothingEnds ==
  ASSUME NEW w, NEW S, S \subseteq Nat, NEW c \in Nat,
         \A h \in S : h < c /\ Quoted(w, h) => HasClosed(w, h, c),
         c \in S => ~ HasValue(w, c)
  PROVE  \A h \in S : ~ EndsAt(w, h, c + 1)
<1> SUFFICES ASSUME NEW h \in S, EndsAt(w, h, c + 1) PROVE FALSE
  OBVIOUS
<1>1. h \in Nat /\ HasValue(w, h)
  BY DEF EndsAt
<1>2. CASE w[h + 1].token.open
  <2>1. Covers(w, h, c + 1) /\ Quoted(w, h)
    BY <1>1, <1>2 DEF EndsAt, Quoted
  <2>2. h < c + 1 /\ h # c
    BY <1>1, <2>1 DEF Covers
  <2>3. h < c
    BY <1>1, <2>2
  <2> QED
    BY <1>1, <2>1, <2>3, Closing
<1>3. CASE ~ w[h + 1].token.open
  <2>1. c + 1 = h + 1
    BY <1>3 DEF EndsAt
  <2> QED
    BY <1>1, <2>1
<1> QED
  BY <1>2, <1>3

\* The token is the first of a line.
LEMMA PropertyStep ==
  ASSUME NEW w, NEW S, NEW c, NEW defaults, NEW p,
         ParseInv(w, S, c, defaults, p), InLine(p), p.stage = "property"
  PROVE  ParseInv(w, S, c + 1, defaults, TakeToken(p))
<1> DEFINE t == Head(p.line)  q == TakeToken(p)
<1>0. /\ w \in Seq(WordRecords) /\ c \in Nat /\ AreLines(w, S) /\ ParserRecord(p)
      /\ AllSettled(w, S, c, defaults, p.config)
      /\ \A h \in S : h < c /\ Quoted(w, h) => HasClosed(w, h, c)
      /\ p.line # <<>>
  BY DEF ParseInv, InLine
<1>1. /\ c + 1 \in 1 .. Len(w) /\ t = w[c + 1].token /\ Tail(p.line) \in Seq(Symbols)
      /\ LineIsRead(w, c + 1, Tail(p.line)) /\ InLineOf(w, c + 1)
  BY <1>0, NextToken
<1>2. p.value = <<>> /\ w[c + 1].first /\ c + 1 \in S
  <2>1. StageIs(w, S, c, p)
    BY DEF ParseInv
  <2>2. p.value = <<>> /\ (c < Len(w) => w[c + 1].first /\ c + 1 \in S)
    BY <2>1 DEF StageIs
  <2>3. c < Len(w)
    BY <1>0, <1>1
  <2> QED
    BY <2>2, <2>3
<1>3. /\ q.stage = IF t = Word("#") THEN "comment" ELSE "value"
      /\ q.config = p.config /\ q.value = <<>> /\ q.line = Tail(p.line)
      /\ t # Word("#") => q.property = t
      /\ q = [stage |-> q.stage, property |-> q.property, value |-> q.value,
              config |-> q.config, line |-> q.line]
  <2>1. p = [stage |-> p.stage, property |-> p.property, value |-> p.value,
             config |-> p.config, line |-> p.line]
    BY <1>0 DEF ParserRecord
  <2>2. CASE t = Word("#")
    <3>1. q = [[p EXCEPT !.line = Tail(@)] EXCEPT !.stage = "comment"]
      BY <2>2 DEF TakeToken
    <3> HIDE DEF q, t
    <3> QED
      BY <1>2, <2>1, <2>2, <3>1
  <2>3. CASE t # Word("#")
    <3>1. q = [[p EXCEPT !.line = Tail(@)] EXCEPT !.stage = "value", !.property = t]
      BY <2>3 DEF TakeToken
    <3> HIDE DEF q, t
    <3> QED
      BY <1>2, <2>1, <2>3, <3>1
  <2> QED
    BY <2>2, <2>3
<1> HIDE DEF q, t
<1>4. S \subseteq Nat
  BY <1>0 DEF AreLines
<1>5. ~ HasValue(w, c)
  BY <1>2 DEF HasValue
<1>6. AllSettled(w, S, c + 1, defaults, q.config)
  BY <1>0, <1>3, <1>4, <1>5, NothingEnds, SettledSame
<1>7. \A h \in S : h < c + 1 /\ Quoted(w, h) => HasClosed(w, h, c + 1)
  <2> SUFFICES ASSUME NEW h \in S, h < c + 1, Quoted(w, h) PROVE HasClosed(w, h, c + 1)
    OBVIOUS
  <2>1. h # c
    BY <1>5 DEF Quoted
  <2>2. h < c /\ h \in Nat
    BY <1>0, <1>4, <2>1
  <2> QED
    BY <1>0, <2>2, Closing
<1>8. ParserRecord(q)
  BY <1>0, <1>1, <1>3 DEF ParserRecord
<1>9. StageIs(w, S, c + 1, q)
  BY <1>1, <1>2, <1>3 DEF StageIs
<1>20. c + 1 \in Nat
  BY <1>0
<1>21. w \in Seq(WordRecords) /\ AreLines(w, S)
  BY <1>0
<1>22. LineIsRead(w, c + 1, q.line)
  BY <1>1, <1>3
<1> QED
  BY ONLY <1>20, <1>21, <1>22, <1>6, <1>7, <1>8, <1>9 DEF ParseInv, q

\* Behind a value, the rest of the line sets it again.
LEMMA SetStep ==
  ASSUME NEW w, NEW S, NEW c, NEW defaults, NEW p,
         ParseInv(w, S, c, defaults, p), InLine(p), p.stage = "set"
  PROVE  ParseInv(w, S, c + 1, defaults, TakeToken(p))
<1> DEFINE q == TakeToken(p)
<1>0. /\ w \in Seq(WordRecords) /\ c \in Nat /\ AreLines(w, S) /\ ParserRecord(p)
      /\ AllSettled(w, S, c, defaults, p.config)
      /\ \A h \in S : h < c /\ Quoted(w, h) => HasClosed(w, h, c)
      /\ p.line # <<>>
  BY DEF ParseInv, InLine
<1>1. /\ c + 1 \in 1 .. Len(w) /\ Tail(p.line) \in Seq(Symbols)
      /\ LineIsRead(w, c + 1, Tail(p.line)) /\ InLineOf(w, c + 1)
  BY <1>0, NextToken
<1>2. /\ ~ w[c + 1].first
      /\ \E h \in S, e \in 1 .. c :
           /\ EndsAt(w, h, e) /\ \A g \in S : g <= c => g <= h
           /\ p.property = w[h].token /\ p.value = Value(w, h, e)
  <2>1. StageIs(w, S, c, p)
    BY DEF ParseInv
  <2>2. c < Len(w)
    BY <1>0, <1>1
  <2> QED
    BY <2>1, <2>2 DEF StageIs, InLineOf
<1>3. PICK h \in S, e \in 1 .. c :
        /\ EndsAt(w, h, e) /\ \A g \in S : g <= c => g <= h
        /\ p.property = w[h].token /\ p.value = Value(w, h, e)
  BY <1>2
<1>4. S \subseteq Nat /\ h \in Nat /\ h < e
  BY <1>0, <1>3 DEF AreLines, EndsAt, Covers
<1>5. c \notin S /\ c + 1 \notin S
  BY <1>0, <1>2, <1>3, <1>4 DEF AreLines
<1>6. SetConfigValue(p.config, p.property, p.value) = p.config
  BY <1>0, <1>3, SetAgain DEF ParserRecord
<1>7. q = [p EXCEPT !.line = Tail(@)]
  <2>1. q = [[p EXCEPT !.line = Tail(@)] EXCEPT !.stage = "set",
                 !.config = SetConfigValue(@, [p EXCEPT !.line = Tail(@)].property,
                                           [p EXCEPT !.line = Tail(@)].value)]
    BY DEF TakeToken, Assign
  <2>2. p = [stage |-> p.stage, property |-> p.property, value |-> p.value,
             config |-> p.config, line |-> p.line]
    BY <1>0 DEF ParserRecord
  <2>3. /\ [p EXCEPT !.line = Tail(@)].property = p.property
        /\ [p EXCEPT !.line = Tail(@)].value = p.value
        /\ [p EXCEPT !.line = Tail(@)].config = p.config
        /\ [p EXCEPT !.line = Tail(@)].stage = "set"
    BY <2>2
  <2> HIDE DEF q
  <2>4. q = [[p EXCEPT !.line = Tail(@)] EXCEPT !.stage = "set", !.config = p.config]
    BY <1>6, <2>1, <2>3
  <2> QED
    BY <2>2, <2>4
<1>8. /\ q.stage = "set" /\ q.property = p.property /\ q.value = p.value
      /\ q.config = p.config /\ q.line = Tail(p.line)
      /\ ParserRecord(q)
  BY <1>0, <1>1, <1>7 DEF ParserRecord
<1> HIDE DEF q
<1>9. AllSettled(w, S, c + 1, defaults, q.config)
  BY <1>0, <1>4, <1>5, <1>8, NothingEnds, SettledSame
<1>10. \A g \in S : g < c + 1 /\ Quoted(w, g) => HasClosed(w, g, c + 1)
  <2> SUFFICES ASSUME NEW g \in S, g < c + 1, Quoted(w, g) PROVE HasClosed(w, g, c + 1)
    OBVIOUS
  <2>1. g < c /\ g \in Nat
    BY <1>0, <1>4, <1>5
  <2> QED
    BY <1>0, <2>1, Closing
<1>11. StageIs(w, S, c + 1, q)
  <2>1. \A g \in S : g <= c + 1 => g <= h
    <3> SUFFICES ASSUME NEW g \in S, g <= c + 1 PROVE g <= h
      OBVIOUS
    <3>1. g \in Nat /\ g # c + 1 /\ c \in Nat
      BY <1>0, <1>4, <1>5
    <3>2. g <= c
      BY <3>1
    <3> QED
      BY <1>3, <3>2
  <2>2. e \in 1 .. c + 1
    BY <1>0
  <2> QED
    BY <1>1, <1>3, <1>8, <2>1, <2>2 DEF StageIs
<1>20. c + 1 \in Nat
  BY <1>0
<1>21. w \in Seq(WordRecords) /\ AreLines(w, S)
  BY <1>0
<1>22. LineIsRead(w, c + 1, q.line)
  BY <1>1, <1>8
<1> QED
  BY ONLY <1>20, <1>21, <1>22, <1>8, <1>9, <1>10, <1>11 DEF ParseInv, q

\* A value ends with the word, and is set.
LEMMA ValueEnds ==
  ASSUME NEW w, NEW S, NEW c, NEW defaults, NEW p, NEW q, NEW h \in S,
         ParseInv(w, S, c, defaults, p), p.line # <<>>, ParserRecord(q),
         p.stage \in {"value", "string"}, h <= c, EndsAt(w, h, c + 1),
         p.property = w[h].token,
         \A g \in S : g < c /\ Quoted(w, g) => g = h \/ HasClosed(w, g, c),
         c \in S => c = h,
         q.stage = "set", q.property = p.property, q.value = Value(w, h, c + 1),
         q.line = Tail(p.line), q.config = SetConfigValue(p.config, p.property, q.value),
         w[h + 1].token.open \/ h = c
  PROVE  ParseInv(w, S, c + 1, defaults, q)
<1>0. /\ w \in Seq(WordRecords) /\ c \in Nat /\ AreLines(w, S)
      /\ AllSettled(w, S, c, defaults, p.config)
  BY DEF ParseInv
<1>1. /\ LineIsRead(w, c + 1, q.line) /\ InLineOf(w, c + 1)
  BY NextToken
<1>2. S \subseteq Nat /\ h \in Nat
  BY <1>0 DEF AreLines
<1>3. \A g \in S : ~ Covers(w, h, g)
  BY <1>0 DEF AreLines
<1>4. \A g \in S : g <= c + 1 => g <= h
  <2> SUFFICES ASSUME NEW g \in S, g <= c + 1, g > h PROVE FALSE
    BY <1>2
  <2>1. HasValue(w, h) /\ ~ w[h + 1].first
    BY DEF EndsAt, HasValue
  <2>2. w[g].first /\ g \in Nat
    BY <1>0 DEF AreLines
  <2>3. g # h + 1
    BY <2>1, <2>2
  <2>4. h # c
    BY <1>0, <1>2, <2>2, <2>3
  <2>5. Covers(w, h, c + 1)
    BY <2>4 DEF EndsAt
  <2>6. Covers(w, h, g)
    BY <1>0, <1>2, <2>2, <2>5 DEF Covers
  <2> QED
    BY <1>3, <2>6
<1>5. AllSettled(w, S, c + 1, defaults, q.config)
  <2>1. \A g \in S : g <= c => g <= h
    <3> SUFFICES ASSUME NEW g \in S, g <= c PROVE g <= h
      OBVIOUS
    <3>1. g \in Nat /\ c \in Nat
      BY <1>0, <1>2
    <3>2. g <= c + 1
      BY ONLY <3>1, g <= c
    <3> QED
      BY <1>4, <3>2
  <2> QED
    BY <1>0, <2>1, SettledNew
<1>6. \A g \in S : g < c + 1 /\ Quoted(w, g) => HasClosed(w, g, c + 1)
  <2> SUFFICES ASSUME NEW g \in S, g < c + 1, Quoted(w, g) PROVE HasClosed(w, g, c + 1)
    OBVIOUS
  <2>1. CASE g = h
    <3>1. Covers(w, h, c + 1) /\ w[c + 1].token.close
      BY <2>1 DEF EndsAt, Quoted
    <3> QED
      BY <1>0, <1>2, <2>1, <3>1, Closing
  <2>2. CASE g # h
    <3>1. g # c
      BY <2>2
    <3>2. g < c /\ g \in Nat
      BY <1>0, <1>2, <3>1
    <3> QED
      BY <1>0, <2>2, <3>2, Closing
  <2> QED
    BY <2>1, <2>2
<1>7. StageIs(w, S, c + 1, q)
  <2>1. c + 1 \in 1 .. c + 1
    BY <1>0
  <2> QED
    BY <1>1, <1>4, <2>1 DEF StageIs
<1>8. c + 1 \in Nat /\ w \in Seq(WordRecords) /\ AreLines(w, S)
  BY <1>0
<1>9. LineIsRead(w, c + 1, q.line)
  BY <1>1
<1> QED
  BY ONLY <1>5, <1>6, <1>7, <1>8, <1>9, ParserRecord(q) DEF ParseInv

\* A string goes on behind the word.
LEMMA StringGoesOn ==
  ASSUME NEW w, NEW S, NEW c, NEW defaults, NEW p, NEW q, NEW h \in S,
         ParseInv(w, S, c, defaults, p), p.line # <<>>, ParserRecord(q),
         h <= c, Quoted(w, h), ~ HasClosed(w, h, c), ~ w[c + 1].token.close,
         p.property = w[h].token,
         \A g \in S : g < c /\ Quoted(w, g) => g = h \/ HasClosed(w, g, c),
         c \in S => c = h,
         q.stage = "string", q.property = p.property,
         q.value = [k \in 1 .. (c + 1) - h |-> Word(w[h + k].token.text)],
         q.line = Tail(p.line), q.config = p.config
  PROVE  ParseInv(w, S, c + 1, defaults, q)
<1>0. /\ w \in Seq(WordRecords) /\ c \in Nat /\ AreLines(w, S)
      /\ AllSettled(w, S, c, defaults, p.config)
  BY DEF ParseInv
<1>1. LineIsRead(w, c + 1, q.line)
  BY NextToken
<1>2. S \subseteq Nat /\ h \in Nat
  BY <1>0 DEF AreLines
<1>3. \A g \in S : ~ EndsAt(w, g, c + 1)
  <2> SUFFICES ASSUME NEW g \in S, EndsAt(w, g, c + 1) PROVE FALSE
    OBVIOUS
  <2>1. HasValue(w, g) /\ g \in Nat
    BY <1>2 DEF EndsAt
  <2>2. CASE w[g + 1].token.open
    <3>1. Covers(w, g, c + 1) /\ w[c + 1].token.close
      BY <2>2 DEF EndsAt
    <3> QED
      BY <3>1
  <2>3. CASE ~ w[g + 1].token.open
    <3>1. c + 1 = g + 1
      BY <2>3 DEF EndsAt
    <3>2. g = h
      BY <1>0, <2>1, <3>1
    <3> QED
      BY <2>3, <3>2 DEF Quoted
  <2> QED
    BY <2>2, <2>3
<1>4. AllSettled(w, S, c + 1, defaults, q.config)
  BY <1>0, <1>3, SettledSame
<1>5. ~ HasClosed(w, h, c + 1)
  <2>1. \A i \in h + 1 .. c + 1 : i \in h + 1 .. c \/ i = c + 1
    BY <1>0, <1>2
  <2> QED
    BY <2>1 DEF HasClosed
<1>6. h < c + 1
  BY <1>0, <1>2
<1>7. StageIs(w, S, c + 1, q)
  BY <1>5, <1>6 DEF StageIs
<1>8. c + 1 \in Nat /\ w \in Seq(WordRecords) /\ AreLines(w, S) /\ q.stage = "string"
  BY <1>0
<1> QED
  BY ONLY <1>1, <1>4, <1>7, <1>8, ParserRecord(q) DEF ParseInv

\* What the parser makes of a piece of a value.
LEMMA TakesPiece ==
  ASSUME NEW p, ParserRecord(p), p.line # <<>>, p.stage \in {"value", "string"}
  PROVE  LET t == Head(p.line)
             q == TakeToken(p)
             string == p.stage = "string" \/ t.open
         IN  /\ q.value = Append(p.value, IF string THEN Word(t.text) ELSE t)
             /\ q.property = p.property /\ q.line = Tail(p.line)
             /\ string /\ ~ t.close => q.stage = "string" /\ q.config = p.config
             /\ ~ (string /\ ~ t.close) =>
                  /\ q.stage = "set"
                  /\ q.config = SetConfigValue(p.config, p.property, q.value)
             /\ ParserRecord(q)
<1> DEFINE t == Head(p.line)  string == p.stage = "string" \/ t.open
           new == Append(p.value, IF string THEN Word(t.text) ELSE t)
           a == [p EXCEPT !.line = Tail(@)]
           b == [stage |-> p.stage, property |-> p.property, value |-> new,
                 config |-> p.config, line |-> Tail(p.line)]
           q == TakeToken(p)
<1>1. /\ p = [stage |-> p.stage, property |-> p.property, value |-> p.value,
              config |-> p.config, line |-> p.line]
      /\ p.line \in Seq(Symbols)
      /\ p.config = [name \in DOMAIN p.config |-> p.config[name]]
  BY DEF ParserRecord
<1>2. Tail(p.line) \in Seq(Symbols)
  BY <1>1
<1> DEFINE rest == Tail(p.line)
<1>20. a = [p EXCEPT !.line = rest]
  OBVIOUS
<1> HIDE DEF rest
<1>21. p = [stage |-> p.stage, property |-> p.property, value |-> p.value,
            config |-> p.config, line |-> p.line]
  BY <1>1
<1>22. [p EXCEPT !.line = rest] = [stage |-> p.stage, property |-> p.property,
          value |-> p.value, config |-> p.config, line |-> rest]
  BY ONLY <1>21
<1>3. a = [stage |-> p.stage, property |-> p.property, value |-> p.value,
           config |-> p.config, line |-> rest]
  BY ONLY <1>20, <1>22
<1>4. q = Piece(a, t)
  BY DEF TakeToken
<1>5. a.stage = p.stage
  BY <1>3
<1> HIDE DEF q, a, t
<1> HIDE DEF string, new
<1>60. Append(a.value, IF string THEN Word(t.text) ELSE t) = new
  BY <1>3 DEF new
<1>61. [a EXCEPT !.value = new] = [stage |-> p.stage, property |-> p.property,
          value |-> new, config |-> p.config, line |-> rest]
  BY ONLY <1>3
<1>6. [a EXCEPT !.value = Append(@, IF string THEN Word(t.text) ELSE t)] = b
  BY ONLY <1>60, <1>61 DEF b, rest
<1>7. q = IF string /\ ~ t.close THEN [b EXCEPT !.stage = "string"] ELSE Assign(b)
  BY <1>4, <1>5, <1>6 DEF Piece, string
<1>9. CASE string /\ ~ t.close
  <2>1. q = [stage |-> "string", property |-> p.property, value |-> new,
             config |-> p.config, line |-> Tail(p.line)]
    BY <1>7, <1>9
  <2>2. ParserRecord(q)
    BY <1>1, <1>2, <2>1 DEF ParserRecord
  <2> QED
    BY <1>9, <2>1, <2>2 DEF string, new, t, q
<1>10. CASE ~ (string /\ ~ t.close)
  <2> DEFINE set == SetConfigValue(p.config, p.property, new)
  <2>1. q = [b EXCEPT !.stage = "set", !.config = SetConfigValue(@, b.property, b.value)]
    BY <1>7, <1>10 DEF Assign
  <2>2. q = [stage |-> "set", property |-> p.property, value |-> new,
             config |-> set, line |-> Tail(p.line)]
    <3>1. b.property = p.property /\ b.value = new /\ b.config = p.config
      OBVIOUS
    <3> QED
      BY <2>1, <3>1
  <2>3. set = [name \in DOMAIN set |-> set[name]]
    <3> DEFINE v == new
    <3>1. CASE \E name \in DOMAIN p.config : IsName(p.property, name)
      <4>1. set = [p.config EXCEPT ![p.property.text] = new]
        BY <3>1 DEF SetConfigValue
      <4> QED
        BY <4>1
    <3>2. CASE ~ \E name \in DOMAIN p.config : IsName(p.property, name)
      <4>1. set = p.config
        BY <3>2 DEF SetConfigValue
      <4> HIDE DEF set
      <4> QED
        BY <1>1, <4>1
    <3> QED
      BY <3>1, <3>2
  <2> HIDE DEF set
  <2>4. ParserRecord(q)
    BY <1>1, <1>2, <2>2, <2>3 DEF ParserRecord
  <2>5. q.config = set /\ q.value = new /\ q.stage = "set" /\ q.property = p.property
        /\ q.line = Tail(p.line)
    BY <2>2
  <2> QED
    BY <1>10, <2>4, <2>5 DEF string, new, t, q, set
<1> QED
  BY <1>9, <1>10

LEMMA TextGrows ==
  ASSUME NEW w, NEW h \in Nat, NEW c \in Nat, h <= c
  PROVE  Append([k \in 1 .. c - h |-> Word(w[h + k].token.text)], Word(w[c + 1].token.text))
           = [k \in 1 .. (c + 1) - h |-> Word(w[h + k].token.text)]
<1> DEFINE f[k \in Nat] == Word(w[h + k].token.text)  n == c - h
<1>1. n \in Nat /\ (c + 1) - h = n + 1 /\ h + (n + 1) = c + 1
  OBVIOUS
<1>2. \A k \in Nat : f[k] = Word(w[h + k].token.text)
  OBVIOUS
<1> HIDE DEF f, n
<1>3. Append([k \in 1 .. n |-> f[k]], f[n + 1]) = [k \in 1 .. n + 1 |-> f[k]]
  <2> DEFINE s == [k \in 1 .. n |-> f[k]]  V == {f[k] : k \in Nat}
  <2>1. s \in Seq(V) /\ Len(s) = n /\ f[n + 1] \in V
    BY <1>1
  <2>2. /\ Append(s, f[n + 1]) \in Seq(V) /\ Len(Append(s, f[n + 1])) = n + 1
        /\ \A k \in 1 .. n : Append(s, f[n + 1])[k] = s[k]
        /\ Append(s, f[n + 1])[n + 1] = f[n + 1]
    BY <1>1, <2>1
  <2>3. \A k \in 1 .. n : s[k] = f[k]
    OBVIOUS
  <2> HIDE DEF s
  <2>4. \A k \in 1 .. n + 1 : Append(s, f[n + 1])[k] = f[k]
    <3>1. \A k \in 1 .. n + 1 : k \in 1 .. n \/ k = n + 1
      BY <1>1
    <3> QED
      BY <2>2, <2>3, <3>1
  <2>5. Append(s, f[n + 1]) = [k \in 1 .. n + 1 |-> Append(s, f[n + 1])[k]]
    BY <2>2
  <2>6. Append(s, f[n + 1]) = [k \in 1 .. n + 1 |-> f[k]]
    BY <2>4, <2>5
  <2> QED
    BY <2>6 DEF s
<1>4. [k \in 1 .. n |-> Word(w[h + k].token.text)] = [k \in 1 .. n |-> f[k]]
  BY <1>1, <1>2
<1>5. [k \in 1 .. n + 1 |-> Word(w[h + k].token.text)] = [k \in 1 .. n + 1 |-> f[k]]
  BY <1>1, <1>2
<1>6. Word(w[c + 1].token.text) = f[n + 1]
  BY <1>1, <1>2
<1>7. (c + 1) - h = n + 1 /\ c - h = n
  BY <1>1 DEF n
<1> QED
  BY <1>3, <1>4, <1>5, <1>6, <1>7

\* The token is a piece of a value.
LEMMA PieceStep ==
  ASSUME NEW w, NEW S, NEW c, NEW defaults, NEW p,
         ParseInv(w, S, c, defaults, p), InLine(p), p.stage \in {"value", "string"}
  PROVE  ParseInv(w, S, c + 1, defaults, TakeToken(p))
<1> DEFINE t == Head(p.line)  q == TakeToken(p)
<1>0. /\ w \in Seq(WordRecords) /\ c \in Nat /\ AreLines(w, S) /\ ParserRecord(p)
      /\ p.stage # "string" => \A h \in S : h < c /\ Quoted(w, h) => HasClosed(w, h, c)
      /\ p.line # <<>> /\ StageIs(w, S, c, p)
  BY DEF ParseInv, InLine
<1>1. t = w[c + 1].token /\ c < Len(w)
  BY <1>0, NextToken
<1>2. S \subseteq Nat
  BY <1>0 DEF AreLines
<1> DEFINE string == p.stage = "string" \/ t.open
<1>3. /\ q.value = Append(p.value, IF string THEN Word(t.text) ELSE t)
      /\ q.property = p.property /\ q.line = Tail(p.line)
      /\ string /\ ~ t.close => q.stage = "string" /\ q.config = p.config
      /\ ~ (string /\ ~ t.close) =>
           /\ q.stage = "set"
           /\ q.config = SetConfigValue(p.config, p.property, q.value)
      /\ ParserRecord(q)
  BY <1>0, TakesPiece
<1> HIDE DEF q, t
<1>4. CASE p.stage = "value"
  <2>1. /\ c \in S /\ w[c].token # Word("#") /\ ~ w[c + 1].first
        /\ p.property = w[c].token /\ p.value = <<>>
    BY <1>0, <1>1, <1>4 DEF StageIs, InLineOf
  <2>2. HasValue(w, c)
    BY <1>1, <2>1 DEF HasValue
  <2>3. c <= c /\ p.value = [k \in 1 .. c - c |-> Word(w[c + k].token.text)]
    BY <1>0, <2>1
  <2>4. \A g \in S : g < c /\ Quoted(w, g) => HasClosed(w, g, c)
    BY <1>0, <1>4
  <2>5. CASE t.open /\ ~ t.close
    <3>1. Quoted(w, c) /\ ~ HasClosed(w, c, c) /\ ~ w[c + 1].token.close
      BY <1>0, <1>1, <2>2, <2>5 DEF Quoted, HasClosed
    <3>2. q.value = [k \in 1 .. (c + 1) - c |-> Word(w[c + k].token.text)]
      BY <1>0, <1>1, <1>3, <2>3, <2>5, TextGrows
    <3>3. ParseInv(w, S, c + 1, defaults, q)
      BY <1>0, <1>3, <2>1, <2>3, <2>4, <2>5, <3>1, <3>2, StringGoesOn
    <3> QED
      BY <3>3 DEF q
  <2>6. CASE ~ (t.open /\ ~ t.close)
    <3>1. EndsAt(w, c, c + 1)
      <4>1. CASE t.open
        <5>1. Covers(w, c, c + 1) /\ w[c + 1].token.close
          BY <1>0, <1>1, <2>2, <2>6, <4>1 DEF Covers
        <5> QED
          BY <1>1, <2>2, <4>1, <5>1 DEF EndsAt
      <4>2. CASE ~ t.open
        BY <1>1, <2>2, <4>2 DEF EndsAt
      <4> QED
        BY <4>1, <4>2
    <3>2. q.value = Value(w, c, c + 1)
      <4>1. CASE t.open
        <5>1. q.value = [k \in 1 .. (c + 1) - c |-> Word(w[c + k].token.text)]
          BY <1>0, <1>1, <1>3, <2>3, <4>1, TextGrows
        <5> QED
          BY <1>1, <4>1, <5>1 DEF Value
      <4>2. CASE ~ t.open
        <5>1. q.value = Append(<<>>, w[c + 1].token)
          BY <1>1, <1>3, <1>4, <2>1, <4>2
        <5>2. (c + 1) - c = 1
          BY <1>0
        <5>3. Value(w, c, c + 1) = [k \in 1 .. 1 |-> w[c + k].token]
          BY <1>1, <4>2, <5>2 DEF Value
        <5>4. [k \in 1 .. 1 |-> w[c + k].token] = <<w[c + 1].token>>
          BY <1>0
        <5> QED
          BY <5>1, <5>3, <5>4
      <4> QED
        BY <4>1, <4>2
    <3>3. ParseInv(w, S, c + 1, defaults, q)
      <4>1. q.stage = "set" /\ q.config = SetConfigValue(p.config, p.property, q.value)
        BY <1>3, <1>4, <2>6
      <4>2. q.property = p.property /\ q.line = Tail(p.line) /\ ParserRecord(q)
        BY <1>3
      <4> QED
        BY <1>0, <2>1, <2>3, <2>4, <3>1, <3>2, <4>1, <4>2, ValueEnds
    <3> QED
      BY <3>3 DEF q
  <2> QED
    BY <2>5, <2>6
<1>5. CASE p.stage = "string"
  <2>1. PICK h \in S :
          /\ h < c /\ Quoted(w, h) /\ ~ HasClosed(w, h, c)
          /\ p.property = w[h].token
          /\ p.value = [k \in 1 .. c - h |-> Word(w[h + k].token.text)]
    BY <1>0, <1>5 DEF StageIs
  <2>2. h \in Nat /\ h <= c
    BY <1>0, <1>2, <2>1
  <2>3. \A g \in S : g <= c => g <= h
    <3> SUFFICES ASSUME NEW g \in S, g <= c, h < g PROVE FALSE
      BY <1>2
    <3>1. Covers(w, h, g)
      BY <1>0, <1>2, <2>1, <2>2 DEF Covers, Quoted, HasClosed
    <3> QED
      BY <1>0, <3>1 DEF AreLines
  <2>4. \A g \in S : g < c /\ Quoted(w, g) => g = h \/ HasClosed(w, g, c)
    <3> SUFFICES ASSUME NEW g \in S, g < c, Quoted(w, g), g # h PROVE HasClosed(w, g, c)
      OBVIOUS
    <3>0. g \in Nat /\ c \in Nat /\ h \in Nat /\ g <= h
      <4>1. g \in Nat /\ c \in Nat /\ h \in Nat
        BY <1>0, <1>2, <2>2
      <4>2. g <= c
        BY ONLY <4>1, g < c
      <4> QED
        BY <2>3, <4>1, <4>2
    <3>1. g \in Nat /\ g < h
      BY ONLY <3>0, g # h
    <3>2. ~ Covers(w, g, h)
      BY <1>0 DEF AreLines
    <3>3. \E i \in g + 1 .. h - 1 : w[i].token.close
      BY <3>1, <3>2 DEF Covers, Quoted
    <3>4. \A i \in g + 1 .. h - 1 : i \in g + 1 .. c
      BY <1>0, <2>2, <3>1
    <3> QED
      BY <3>3, <3>4 DEF HasClosed
  <2>5. c \in S => c = h
    BY <1>0, <2>1, <2>2, <2>3
  <2>6. q.value = [k \in 1 .. (c + 1) - h |-> Word(w[h + k].token.text)]
    BY <1>0, <1>1, <1>3, <1>5, <2>1, <2>2, TextGrows
  <2>7. CASE ~ t.close
    <3>1. /\ q.stage = "string" /\ q.config = p.config /\ ~ w[c + 1].token.close
          /\ q.property = p.property /\ q.line = Tail(p.line) /\ ParserRecord(q)
      BY <1>1, <1>3, <1>5, <2>7
    <3>2. ParseInv(w, S, c + 1, defaults, q)
      BY <1>0, <2>1, <2>2, <2>4, <2>5, <2>6, <3>1, StringGoesOn
    <3> QED
      BY <3>2 DEF q
  <2>8. CASE t.close
    <3>1. EndsAt(w, h, c + 1) /\ w[h + 1].token.open
      <4>1. h < c + 1
        BY <1>0, <2>2
      <4>2. Covers(w, h, c + 1)
        BY <1>0, <2>1, <2>2, <4>1, Closing
      <4> QED
        BY <1>1, <2>1, <2>8, <4>2 DEF EndsAt, Quoted
    <3>2. q.value = Value(w, h, c + 1)
      BY <2>6, <3>1 DEF Value
    <3>3. /\ q.stage = "set" /\ q.config = SetConfigValue(p.config, p.property, q.value)
          /\ q.property = p.property /\ q.line = Tail(p.line) /\ ParserRecord(q)
      BY <1>3, <2>8
    <3>4. ParseInv(w, S, c + 1, defaults, q)
      BY <1>0, <2>1, <2>2, <2>4, <2>5, <3>1, <3>2, <3>3, ValueEnds
    <3> QED
      BY <3>4 DEF q
  <2> QED
    BY <2>7, <2>8
<1> QED
  BY <1>4, <1>5

LEMMA TokenStep ==
  ASSUME NEW w, NEW S, NEW c, NEW defaults, NEW p,
         ParseInv(w, S, c, defaults, p), InLine(p)
  PROVE  ParseInv(w, S, c + 1, defaults, TakeToken(p))
<1>1. p.stage \in {"property", "value", "string", "set"}
  BY DEF ParseInv, ParserRecord, InLine
<1> QED
  BY <1>1, PropertyStep, SetStep, PieceStep

\* No setting ends in the rest.
LEMMA SettledOn ==
  ASSUME NEW w, NEW S, NEW c \in Nat, NEW d \in Nat, c <= d, NEW defaults, NEW values,
         AllSettled(w, S, c, defaults, values), \A h \in S, e \in c + 1 .. d : ~ EndsAt(w, h, e)
  PROVE  AllSettled(w, S, d, defaults, values)
<1> SUFFICES ASSUME NEW name \in DOMAIN defaults
             PROVE  Settled(w, S, d, defaults[name], name, values[name])
  BY DEF AllSettled
<1>1. \A e \in 1 .. d : e \in 1 .. c \/ e \in c + 1 .. d
  OBVIOUS
<1>2. \A h \in S, e \in 1 .. d : Sets(w, h, e, name) => e \in 1 .. c
  BY <1>1 DEF Sets
<1>3. \A e \in 1 .. c : e \in 1 .. d
  OBVIOUS
<1>4. Settled(w, S, c, defaults[name], name, values[name])
  BY DEF AllSettled
<1> QED
  BY <1>2, <1>3, <1>4, Zenon DEF Settled

\* The end of a line.
LEMMA EndLineStep ==
  ASSUME NEW w, NEW S, NEW c, NEW defaults, NEW p,
         ParseInv(w, S, c, defaults, p), ~ InLine(p)
  PROVE  /\ ParseInv(w, S, Len(w), defaults, EndLine(p))
         /\ EndLine(p).line = <<>> /\ EndLine(p).stage \in {"property", "value", "string"}
<1> DEFINE q == EndLine(p)
<1>0. /\ w \in Seq(WordRecords) /\ c \in Nat /\ AreLines(w, S) /\ ParserRecord(p)
      /\ AllSettled(w, S, c, defaults, p.config) /\ LineIsRead(w, c, p.line)
      /\ p.stage # "string" => \A h \in S : h < c /\ Quoted(w, h) => HasClosed(w, h, c)
      /\ StageIs(w, S, c, p)
  BY DEF ParseInv
<1>1. /\ S \subseteq Nat /\ Len(w) \in Nat
      /\ \A h \in S : h \in Nat /\ h <= Len(w) /\ w[h].first
  BY <1>0 DEF AreLines
<1>2. p.line \in Seq(Symbols) /\ Len(p.line) \in Nat /\ Len(w) = c + Len(p.line)
  BY <1>0 DEF ParserRecord, LineIsRead
<1>3. CASE p.stage = "comment"
  <2>1. q = Parser(p.config)
    BY <1>3 DEF EndLine
  <2>2. /\ q.stage = "property" /\ q.value = <<>> /\ q.line = <<>> /\ q.config = p.config
        /\ ParserRecord(q)
    <3>1. p.config = [name \in DOMAIN p.config |-> p.config[name]]
      BY <1>0 DEF ParserRecord
    <3>2. <<>> \in Seq(Symbols)
      OBVIOUS
    <3> QED
      BY <2>1, <3>1, <3>2 DEF Parser, ParserRecord
  <2> HIDE DEF q
  <2>3. c \in S /\ w[c].token = Word("#") /\ InLineOf(w, c)
    BY <1>0, <1>3 DEF StageIs
  <2>4. c <= Len(w)
    BY <1>0, <1>2
  <2>5. \A h \in S : h <= c
    <3> SUFFICES ASSUME NEW h \in S, c < h PROVE FALSE
      BY <1>0, <1>1
    <3>1. h = c + 1 \/ h \in c + 2 .. Len(w)
      BY <1>0, <1>1
    <3>2. \A i \in c + 2 .. Len(w) : ~ w[i].first
      BY <1>0 DEF LineIsRead
    <3>3. c < Len(w) /\ h # c + 1
      BY <1>0, <1>1, <2>3 DEF InLineOf
    <3> QED
      BY <1>1, <3>1, <3>2, <3>3
  <2>6. ~ HasValue(w, c)
    BY <2>3 DEF HasValue
  <2>7. \A h \in S : Quoted(w, h) => h < c /\ HasClosed(w, h, c)
    <3> SUFFICES ASSUME NEW h \in S, Quoted(w, h) PROVE h < c /\ HasClosed(w, h, c)
      OBVIOUS
    <3>1. h # c
      BY <2>6 DEF Quoted
    <3>2. h < c
      BY <1>0, <1>1, <2>5, <3>1
    <3> QED
      BY <1>0, <1>3, <3>2
  <2>8. \A h \in S, e \in c + 1 .. Len(w) : ~ EndsAt(w, h, e)
    <3> SUFFICES ASSUME NEW h \in S, NEW e \in c + 1 .. Len(w), EndsAt(w, h, e) PROVE FALSE
      OBVIOUS
    <3>1. HasValue(w, h)
      BY DEF EndsAt
    <3>2. h # c /\ h <= c
      BY <2>5, <2>6, <3>1
    <3>3. CASE w[h + 1].token.open
      <4>1. Covers(w, h, e)
        BY <3>3 DEF EndsAt
      <4>2. PICK i \in h + 1 .. c : w[i].token.close
        BY <2>7, <3>1, <3>3 DEF Quoted, HasClosed
      <4>3. i \in h + 1 .. e - 1
        BY <1>0, <1>1
      <4> QED
        BY <4>1, <4>2, <4>3 DEF Covers
    <3>4. CASE ~ w[h + 1].token.open
      <4>1. e = h + 1
        BY <3>4 DEF EndsAt
      <4> QED
        BY <1>0, <1>1, <3>2, <4>1
    <3> QED
      BY <3>3, <3>4
  <2>9. AllSettled(w, S, Len(w), defaults, q.config)
    BY <1>0, <1>1, <2>2, <2>4, <2>8, SettledOn
  <2>10. LineIsRead(w, Len(w), q.line)
    BY <1>1, <2>2 DEF LineIsRead
  <2>11. \A h \in S : h < Len(w) /\ Quoted(w, h) => HasClosed(w, h, Len(w))
    <3> SUFFICES ASSUME NEW h \in S, Quoted(w, h) PROVE HasClosed(w, h, Len(w))
      OBVIOUS
    <3>1. PICK i \in h + 1 .. c : w[i].token.close
      BY <2>7 DEF HasClosed
    <3>2. i \in h + 1 .. Len(w)
      BY <1>0, <1>1, <2>4
    <3> QED
      BY <3>1, <3>2 DEF HasClosed
  <2>12. StageIs(w, S, Len(w), q)
    BY <1>1, <2>2 DEF StageIs
  <2>13. ParseInv(w, S, Len(w), defaults, q)
    BY <1>0, <1>1, <2>2, <2>9, <2>10, <2>11, <2>12 DEF ParseInv
  <2> QED
    BY <2>2, <2>13 DEF q
<1>4. CASE p.stage # "comment"
  <2>1. p.line = <<>> /\ c = Len(w)
    BY <1>0, <1>2, <1>4 DEF InLine
  <2>2. CASE p.stage # "set"
    <3>1. q = p
      BY <1>4, <2>2 DEF EndLine
    <3>2. p.stage \in {"property", "value", "string"}
      BY <1>0, <1>4, <2>2 DEF ParserRecord
    <3> QED
      BY <2>1, <3>1, <3>2
  <2>3. CASE p.stage = "set"
    <3>1. q = Parser(p.config)
      BY <2>3 DEF EndLine
    <3>2. /\ q.stage = "property" /\ q.value = <<>> /\ q.line = <<>> /\ q.config = p.config
          /\ ParserRecord(q)
      <4>1. p.config = [name \in DOMAIN p.config |-> p.config[name]]
        BY <1>0 DEF ParserRecord
      <4>2. <<>> \in Seq(Symbols)
        OBVIOUS
      <4> QED
        BY <3>1, <4>1, <4>2 DEF Parser, ParserRecord
    <3> HIDE DEF q
    <3>3. StageIs(w, S, Len(w), q)
      BY <1>1, <3>2 DEF StageIs
    <3>4. ParseInv(w, S, Len(w), defaults, q)
      BY <1>0, <1>1, <2>1, <2>3, <3>2, <3>3 DEF ParseInv
    <3> QED
      BY <3>2, <3>4 DEF q
  <2> QED
    BY <2>2, <2>3
<1> QED
  BY <1>3, <1>4

\* The words of a line, behind those before it.
LEMMA WordsOf ==
  ASSUME NEW w \in Seq(WordRecords), NEW line \in Seq(Symbols)
  PROVE  /\ w \o Words(line) \in Seq(WordRecords)
         /\ Len(w \o Words(line)) = Len(w) + Len(line)
         /\ \A i \in 1 .. Len(w) : (w \o Words(line))[i] = w[i]
         /\ \A k \in 1 .. Len(line) :
              /\ (w \o Words(line))[Len(w) + k].token = line[k]
              /\ (w \o Words(line))[Len(w) + k].first <=> k = 1
<1> DEFINE x == Words(line)
<1>1. x \in Seq(WordRecords) /\ Len(x) = Len(line)
  <2>1. \A k \in 1 .. Len(line) : [token |-> line[k], first |-> k = 1] \in WordRecords
    BY DEF WordRecords
  <2> QED
    BY <2>1 DEF Words
<1>2. \A k \in 1 .. Len(line) :
        x[k].token = line[k] /\ (x[k].first <=> k = 1)
  BY DEF Words
<1> HIDE DEF x
<1>3. w \o x \in Seq(WordRecords) /\ Len(w \o x) = Len(w) + Len(x)
  BY <1>1
<1>4. /\ \A i \in 1 .. Len(w) : (w \o x)[i] = w[i]
      /\ \A k \in 1 .. Len(x) : (w \o x)[Len(w) + k] = x[k]
  BY <1>1
<1>5. /\ w \o x \in Seq(WordRecords) /\ Len(w \o x) = Len(w) + Len(line)
      /\ \A i \in 1 .. Len(w) : (w \o x)[i] = w[i]
      /\ \A k \in 1 .. Len(line) :
           (w \o x)[Len(w) + k].token = line[k] /\ ((w \o x)[Len(w) + k].first <=> k = 1)
  BY <1>1, <1>2, <1>3, <1>4
<1> QED
  BY <1>5 DEF x

\* More words change nothing that has ended.
Unchanged(w, v, n, h) ==
  /\ v[h] = w[h] /\ v[h + 1] = w[h + 1]
  /\ HasValue(v, h) <=> HasValue(w, h)
  /\ Quoted(v, h) <=> Quoted(w, h)
  /\ \A c \in 0 .. n : HasClosed(v, h, c) <=> HasClosed(w, h, c)
  /\ \A g \in 1 .. n + 1 : Covers(v, h, g) <=> Covers(w, h, g)
  /\ \A e \in 1 .. n : EndsAt(v, h, e) <=> EndsAt(w, h, e)
  /\ \A e \in 1 .. n : Value(v, h, e) = Value(w, h, e)

LEMMA MoreWords ==
  ASSUME NEW w, NEW v, NEW n \in Nat, NEW m \in Nat, n <= m, Len(w) = n, Len(v) = m,
         \A i \in 1 .. n : v[i] = w[i], NEW h \in 1 .. n - 1
  PROVE  Unchanged(w, v, n, h)
<1>1. h \in 1 .. n /\ h + 1 \in 1 .. n /\ h < n /\ h < m
  OBVIOUS
<1>2. v[h] = w[h] /\ v[h + 1] = w[h + 1]
  BY <1>1
<1>3. HasValue(v, h) <=> HasValue(w, h)
  BY <1>1, <1>2 DEF HasValue
<1>4. Quoted(v, h) <=> Quoted(w, h)
  BY <1>2, <1>3 DEF Quoted
<1>5. \A c \in 0 .. n : HasClosed(v, h, c) <=> HasClosed(w, h, c)
  BY DEF HasClosed
<1>6. \A g \in 1 .. n + 1 : Covers(v, h, g) <=> Covers(w, h, g)
  BY <1>2, <1>3 DEF Covers
<1>7. \A e \in 1 .. n : EndsAt(v, h, e) <=> EndsAt(w, h, e)
  BY <1>2, <1>3, <1>6 DEF EndsAt
<1>8. \A e \in 1 .. n : Value(v, h, e) = Value(w, h, e)
  BY <1>2 DEF Value
<1> QED
  BY <1>2, <1>3, <1>4, <1>5, <1>6, <1>7, <1>8 DEF Unchanged

\* The parser takes a line.
LEMMA LineStep ==
  ASSUME NEW w, NEW S, NEW defaults, NEW p, ParseInv(w, S, Len(w), defaults, p),
         p.line = <<>>, p.stage \in {"property", "value", "string"},
         NEW line \in Seq(Symbols)
  PROVE  \E T : ParseInv(w \o Words(line), T, Len(w), defaults, StartLine(p, line))
<1> DEFINE n == Len(w)  v == w \o Words(line)  m == Len(v)  q == StartLine(p, line)
           T == IF line # <<>> /\ p.stage # "string" THEN S \cup {n + 1} ELSE S
<1>0. /\ w \in Seq(WordRecords) /\ n \in Nat /\ AreLines(w, S) /\ ParserRecord(p)
      /\ AllSettled(w, S, n, defaults, p.config)
      /\ p.stage # "string" => \A h \in S : h < n /\ Quoted(w, h) => HasClosed(w, h, n)
      /\ StageIs(w, S, n, p)
  BY DEF ParseInv
<1>1. /\ v \in Seq(WordRecords) /\ m = n + Len(line) /\ Len(line) \in Nat
      /\ \A i \in 1 .. n : v[i] = w[i]
      /\ \A k \in 1 .. Len(line) : v[n + k].token = line[k] /\ (v[n + k].first <=> k = 1)
      /\ line # <<>> <=> Len(line) > 0
  BY <1>0, WordsOf
<1>2. \A g : g \in S <=> g \in 1 .. n /\ w[g].first /\ ~ \E h \in S : Covers(w, h, g)
  BY <1>0 DEF AreLines
<1>3. /\ q.stage = IF p.stage = "value" THEN "property" ELSE p.stage
      /\ q.property = p.property /\ q.value = p.value /\ q.config = p.config /\ q.line = line
      /\ ParserRecord(q)
  <2>1. p = [stage |-> p.stage, property |-> p.property, value |-> p.value,
             config |-> p.config, line |-> p.line]
    BY <1>0 DEF ParserRecord
  <2>2. q = [stage |-> IF p.stage = "value" THEN "property" ELSE p.stage,
             property |-> p.property, value |-> p.value, config |-> p.config, line |-> line]
    <3> DEFINE begun == IF p.stage = "value" THEN "property" ELSE p.stage
    <3>1. q = [p EXCEPT !.line = line, !.stage = begun]
      BY DEF StartLine, q
    <3> HIDE DEF begun
    <3>2. q = [stage |-> begun, property |-> p.property, value |-> p.value,
               config |-> p.config, line |-> line]
      BY ONLY <2>1, <3>1
    <3> QED
      BY <3>2 DEF begun
  <2> HIDE DEF q
  <2>3. q.config = [name \in DOMAIN q.config |-> q.config[name]]
    BY <1>0, <2>2 DEF ParserRecord
  <2> QED
    BY <2>2, <2>3 DEF ParserRecord
<1> HIDE DEF n, m, v, q
<1>4. n < m <=> line # <<>>
  BY <1>0, <1>1
<1>5. \A i \in n + 1 .. m : v[i].first <=> i = n + 1
  <2> SUFFICES ASSUME NEW i \in n + 1 .. m PROVE v[i].first <=> i = n + 1
    OBVIOUS
  <2>1. i - n \in 1 .. Len(line) /\ n + (i - n) = i /\ (i - n = 1 <=> i = n + 1)
    BY <1>0, <1>1
  <2>2. v[n + (i - n)].first <=> i - n = 1
    BY <1>1, <2>1
  <2> QED
    BY <2>1, <2>2
<1>6. \A h \in 1 .. n - 1 :
        /\ v[h] = w[h] /\ v[h + 1] = w[h + 1]
        /\ Quoted(v, h) <=> Quoted(w, h)
        /\ HasClosed(v, h, n) <=> HasClosed(w, h, n)
        /\ \A g \in 1 .. n + 1 : Covers(v, h, g) <=> Covers(w, h, g)
        /\ \A e \in 1 .. n : EndsAt(v, h, e) <=> EndsAt(w, h, e)
        /\ \A e \in 1 .. n : Value(v, h, e) = Value(w, h, e)
  <2>1. m \in Nat /\ n <= m /\ n \in 0 .. n
    BY <1>0, <1>1
  <2>2. Len(w) = n /\ Len(v) = m /\ n \in Nat /\ \A i \in 1 .. n : v[i] = w[i]
    BY <1>0, <1>1 DEF n, m
  <2>3. \A h \in 1 .. n - 1 : Unchanged(w, v, n, h)
    BY <2>1, <2>2, MoreWords
  <2> QED
    BY <2>1, <2>3 DEF Unchanged
<1>7. /\ \A g : g \in T <=> g \in S \/ (g = n + 1 /\ n < m /\ p.stage # "string")
      /\ \A g \in S : g \in 1 .. n
  BY <1>2, <1>4
<1> HIDE DEF T
<1>8. \A h \in T : (h \in 1 .. n - 1 /\ h \in S) \/ h = n \/ h = n + 1
  BY <1>0, <1>7
<1>9. n + 1 <= m => ~ HasValue(v, n)
  <2>1. n + 1 <= m => v[n + 1].first
    BY <1>0, <1>1, <1>5
  <2> QED
    BY <2>1 DEF HasValue
<1>10. \A h \in T, g \in 1 .. m : Covers(v, h, g) => (h \in 1 .. n - 1 /\ h \in S) \/ g > n + 1
  <2> SUFFICES ASSUME NEW h \in T, NEW g \in 1 .. m, Covers(v, h, g), g <= n + 1,
                      h = n \/ h = n + 1
               PROVE  FALSE
    BY <1>0, <1>1, <1>8
  <2>1. h < g /\ HasValue(v, h)
    BY DEF Covers
  <2>2. h = n /\ g = n + 1
    BY <1>0, <1>1, <2>1
  <2>3. n + 1 <= m
    BY <1>0, <1>1, <2>2
  <2> QED
    BY <1>9, <2>1, <2>2, <2>3
<1>11. \A g \in 1 .. n : (\E h \in T : Covers(v, h, g)) <=> (\E h \in S : Covers(w, h, g))
  <2> TAKE g \in 1 .. n
  <2>1. g \in 1 .. m /\ g \in 1 .. n + 1 /\ ~ (g > n + 1)
    BY <1>0, <1>1
  <2>2. ASSUME NEW h \in T, Covers(v, h, g) PROVE \E k \in S : Covers(w, k, g)
    BY <1>6, <1>10, <2>1, <2>2
  <2>3. ASSUME NEW h \in S, Covers(w, h, g) PROVE \E k \in T : Covers(v, k, g)
    <3>1. h < g /\ h \in 1 .. n
      BY <1>7, <2>3 DEF Covers
    <3>2. h \in 1 .. n - 1 /\ h \in T
      BY <1>0, <1>7, <3>1
    <3> QED
      BY <1>6, <2>1, <2>3, <3>2
  <2> QED
    BY <2>2, <2>3
<1>12. n < m => ((\E h \in T : Covers(v, h, n + 1)) <=> p.stage = "string")
  <2> SUFFICES ASSUME n < m PROVE (\E h \in T : Covers(v, h, n + 1)) <=> p.stage = "string"
    OBVIOUS
  <2>1. n + 1 \in 1 .. m /\ n + 1 \in 1 .. n + 1 /\ ~ (n + 1 > n + 1)
    BY <1>0, <1>1
  <2>2. CASE p.stage = "string"
    <3>1. PICK h \in S : h < n /\ Quoted(w, h) /\ ~ HasClosed(w, h, n)
      BY <1>0, <2>2 DEF StageIs
    <3>2. h \in 1 .. n - 1 /\ h \in T
      BY <1>0, <1>7, <3>1
    <3>3. h < n + 1 /\ h \in Nat
      BY <1>0, <3>2
    <3>4. Covers(w, h, n + 1)
      BY <1>0, <3>1, <3>3, Closing
    <3> QED
      BY <1>6, <2>1, <2>2, <3>2, <3>4
  <2>3. CASE p.stage # "string"
    <3> SUFFICES ASSUME NEW h \in T, Covers(v, h, n + 1) PROVE FALSE
      BY <2>3
    <3>1. h \in 1 .. n - 1 /\ h \in S
      BY <1>10, <2>1
    <3>2. Covers(w, h, n + 1) /\ h < n /\ h \in Nat
      BY <1>0, <1>6, <2>1, <3>1
    <3>3. Quoted(w, h)
      BY <3>2 DEF Quoted, Covers
    <3>4. HasClosed(w, h, n)
      BY <1>0, <2>3, <3>1, <3>2, <3>3
    <3> QED
      BY <1>0, <3>2, <3>4, Closing
  <2> QED
    BY <2>2, <2>3
<1>13. AreLines(v, T)
  <2>1. \A g : g \in T <=> g \in 1 .. m /\ v[g].first /\ ~ \E h \in T : Covers(v, h, g)
    <3> TAKE g
    <3>1. CASE g \in 1 .. n
      <4>1. g \in 1 .. m /\ v[g] = w[g] /\ g # n + 1
        BY <1>0, <1>1, <3>1
      <4> QED
        BY <1>2, <1>7, <1>11, <3>1, <4>1
    <3>2. CASE g = n + 1 /\ n < m
      <4>1. g \in n + 1 .. m /\ g \in 1 .. m /\ g \notin 1 .. n
        BY <1>0, <1>1, <3>2
      <4> QED
        BY <1>5, <1>7, <1>12, <3>2, <4>1
    <3>3. CASE g \notin 1 .. n /\ ~ (g = n + 1 /\ n < m)
      <4>1. g \in 1 .. m => g \in n + 1 .. m /\ g # n + 1
        BY <1>0, <1>1, <3>3
      <4> QED
        BY <1>5, <1>7, <3>3, <4>1
    <3> QED
      BY <3>1, <3>2, <3>3
  <2> QED
    BY <2>1 DEF AreLines, m
<1>14. AllSettled(v, T, n, defaults, q.config)
  <2> SUFFICES ASSUME NEW name \in DOMAIN defaults
               PROVE  Settled(v, T, n, defaults[name], name, q.config[name])
    BY <1>0, <1>3 DEF AllSettled
  <2>1. \A h \in T, e \in 1 .. n : Sets(v, h, e, name) => h \in S /\ Sets(w, h, e, name)
    <3> SUFFICES ASSUME NEW h \in T, NEW e \in 1 .. n, Sets(v, h, e, name)
                 PROVE  h \in S /\ Sets(w, h, e, name)
      OBVIOUS
    <3>1. h \in Nat /\ h < e
      BY <1>0, <1>8 DEF Sets, EndsAt, Covers
    <3>2. h \in 1 .. n - 1 /\ h \in S
      BY <1>0, <1>8, <3>1
    <3> QED
      BY <1>6, <3>2 DEF Sets
  <2>2. \A h \in S, e \in 1 .. n : Sets(w, h, e, name)
          => h \in T /\ Sets(v, h, e, name) /\ Value(v, h, e) = Value(w, h, e)
    <3> SUFFICES ASSUME NEW h \in S, NEW e \in 1 .. n, Sets(w, h, e, name)
                 PROVE  h \in T /\ Sets(v, h, e, name) /\ Value(v, h, e) = Value(w, h, e)
      OBVIOUS
    <3>1. h \in Nat /\ h < e
      BY <1>0, <1>7 DEF Sets, EndsAt, Covers
    <3>2. h \in 1 .. n - 1
      BY <1>0, <1>7, <3>1
    <3> QED
      BY <1>6, <1>7, <3>2 DEF Sets
  <2>3. Settled(w, S, n, defaults[name], name, q.config[name])
    BY <1>0, <1>3 DEF AllSettled
  <2> QED
    BY <2>1, <2>2, <2>3, Zenon DEF Settled
<1>15. LineIsRead(v, n, q.line)
  <2>1. \A k \in 1 .. Len(line) : line[k] = v[n + k].token
    BY <1>1
  <2>2. \A i \in n + 2 .. m : i \in n + 1 .. m /\ i # n + 1
    BY <1>0, <1>1
  <2> QED
    BY <1>1, <1>3, <1>5, <2>1, <2>2 DEF LineIsRead, m
<1>16. q.stage # "string" => \A h \in T : h < n /\ Quoted(v, h) => HasClosed(v, h, n)
  <2> SUFFICES ASSUME p.stage # "string", NEW h \in T, h < n, Quoted(v, h)
               PROVE  HasClosed(v, h, n)
    BY <1>3
  <2>1. h \in 1 .. n - 1 /\ h \in S
    BY <1>0, <1>8
  <2> QED
    BY <1>0, <1>6, <2>1
<1>17. StageIs(v, T, n, q)
  <2>1. CASE p.stage = "string"
    <3>1. PICK h \in S :
            /\ h < n /\ Quoted(w, h) /\ ~ HasClosed(w, h, n)
            /\ p.property = w[h].token
            /\ p.value = [k \in 1 .. n - h |-> Word(w[h + k].token.text)]
      BY <1>0, <2>1 DEF StageIs
    <3>2. h \in 1 .. n - 1 /\ h \in T
      BY <1>0, <1>7, <3>1
    <3>3. Quoted(v, h) /\ ~ HasClosed(v, h, n) /\ q.property = v[h].token
      BY <1>3, <1>6, <3>1, <3>2
    <3>4. q.value = [k \in 1 .. n - h |-> Word(v[h + k].token.text)]
      <4>1. \A k \in 1 .. n - h : h + k \in 1 .. n
        BY <1>0, <3>2
      <4>2. \A k \in 1 .. n - h : v[h + k] = w[h + k]
        BY <1>1, <4>1
      <4> QED
        BY <1>3, <3>1, <4>2
    <3> QED
      BY <1>3, <2>1, <3>1, <3>2, <3>3, <3>4 DEF StageIs
  <2>2. CASE p.stage # "string"
    <3>1. q.stage = "property" /\ q.value = <<>>
      BY <1>0, <1>3, <2>2 DEF StageIs
    <3>2. n < m => v[n + 1].first /\ n + 1 \in T
      <4>1. n < m => n + 1 \in n + 1 .. m
        BY <1>0, <1>1
      <4> QED
        BY <1>5, <1>7, <2>2, <4>1
    <3> QED
      BY <3>1, <3>2 DEF StageIs, m
  <2> QED
    BY <2>1, <2>2
<1>18. ParseInv(v, T, n, defaults, q)
  BY <1>0, <1>1, <1>3, <1>13, <1>14, <1>15, <1>16, <1>17 DEF ParseInv
<1> QED
  BY <1>18 DEF v, n, q

\* The parser before the first line.
LEMMA ParserStarts ==
  ASSUME NEW defaults, defaults = [name \in DOMAIN defaults |-> defaults[name]]
  PROVE  ParseInv(<<>>, {}, 0, defaults, Parser(defaults))
<1> DEFINE p == Parser(defaults)
<1>1. /\ p.stage = "property" /\ p.value = <<>> /\ p.config = defaults /\ p.line = <<>>
      /\ ParserRecord(p)
  <2>1. <<>> \in Seq(Symbols)
    OBVIOUS
  <2> QED
    BY <2>1 DEF Parser, ParserRecord
<1> HIDE DEF p
<1>2. <<>> \in Seq(WordRecords) /\ Len(<<>>) = 0
  OBVIOUS
<1>3. AreLines(<<>>, {}) /\ LineIsRead(<<>>, 0, p.line)
  BY <1>1 DEF AreLines, LineIsRead
<1>4. AllSettled(<<>>, {}, 0, defaults, p.config)
  BY <1>1 DEF AllSettled, Settled
<1>5. StageIs(<<>>, {}, 0, p)
  BY <1>1 DEF StageIs
<1> QED
  BY <1>1, <1>2, <1>3, <1>4, <1>5 DEF ParseInv, p

LEMMA ConfigValues ==
  ASSUME NEW programs
  PROVE  InitConfig(programs) = [name \in DOMAIN InitConfig(programs) |-> InitConfig(programs)[name]]
<1>1. CommonConfig = [name \in DOMAIN CommonConfig |-> CommonConfig[name]]
  BY DEF CommonConfig
<1> QED
  BY <1>1 DEF InitConfig

(***************************************************************************)
(* The two programs: what holds of the files as main goes on.              *)
(***************************************************************************)

InputInv ==
  /\ role \in {"client", "server"}
  /\ config \in Seq(Symbols)
  /\ role = "client" => second \in Seq(Symbols)

ServersInv ==
  /\ servers \in Seq(Addresses)
  /\ main \in {"start", "config", "line", "configured"} => servers = <<>>
  /\ main \in {"list", "listed"} => ListIs(lines, servers)

LoaderInv ==
  /\ BlocksTypeOK
  /\ WireInv
  /\ OnlyTailsLost
  /\ IF stage = "main" THEN offset = 0 /\ message.blocks = <<>> ELSE CutInv

\* The parser is behind all words but those that are left of its line.
ConfigInv ==
  /\ main # "line" => parser.line = <<>> /\ parser.stage \in {"property", "value", "string"}
  /\ \E w, starts, r, p :
       /\ w = words /\ r = role /\ p = parser
       /\ ParseInv(w, starts, Len(w) - Len(p.line), InitConfig(r), p)

FilesInv ==
  /\ main \in {"start", "config", "line", "configured", "list", "listed", "done"}
  /\ InputInv
  /\ LinesInv
  /\ ConfigInv
  /\ ServersInv
  /\ LoaderInv
  /\ stage # "main" => main = "done"

LEMMA NoServers == ListIs(<<>>, <<>>)
<1>1. Len(<<>>) = 0
  OBVIOUS
<1> QED
  BY <1>1 DEF ListIs

LEMMA LoaderStutter == LoaderInv /\ UNCHANGED block_vars => LoaderInv'
<1> SUFFICES ASSUME LoaderInv, UNCHANGED block_vars PROVE LoaderInv'
  OBVIOUS
<1>1. BlocksTypeOK'
  BY BlocksTypeStep DEF LoaderInv
<1>2. WireInv' /\ OnlyTailsLost'
  BY TailsStep DEF LoaderInv
<1>3. stage' = stage /\ offset' = offset /\ message' = message
  BY DEF block_vars
<1>4. stage # "main" => CutInv'
  BY CutStep DEF LoaderInv
<1> QED
  BY <1>1, <1>2, <1>3, <1>4 DEF LoaderInv

LEMMA FilesStart == Init => FilesInv
<1> SUFFICES ASSUME Init PROVE FilesInv
  OBVIOUS
<1>1. PICK input \in Inputs :
        role = input.role /\ config = input.config /\ second = input.second
  BY DEF Init
<1>2. InputInv /\ (role = "server" => second \in Seq(Bytes))
  BY <1>1, InputAssumption DEF InputInv
<1>3. main = "start" /\ servers = <<>> /\ LinesInv
  BY LinesStart DEF Init
<1>4. ServersInv
  BY <1>3 DEF ServersInv
<1>5. PICK bytes \in Seq(Bytes) : BlocksInit(bytes)
  <2>1. (IF role = "server" THEN second ELSE <<>>) \in Seq(Bytes)
    BY <1>2
  <2> QED
    BY <2>1 DEF Init
<1>6. stage = "main"
  BY DEF Init
<1>7. /\ content \in Seq(Bytes) /\ offset = 0 /\ cut_short = FALSE
      /\ message = [id |-> 0, stamp |-> 10, blocks |-> <<>>]
      /\ next = 0 /\ wire = {} /\ inbox = {}
  BY <1>5 DEF BlocksInit
<1>8. BlocksTypeOK
  <2>1. message \in [id : Nat, stamp : StampLengths, blocks : Seq(Seq(Bytes))]
    BY <1>7, BlockAssumption
  <2>2. Len(message.blocks) = 0 /\ Len(content) \in Nat
    BY <1>7
  <2>3. next \in 0 .. Len(message.blocks) + 1 /\ offset \in 0 .. Len(content)
    BY <1>7, <2>2
  <2>4. stage \in {"main", "load", "send", "sent", "ignored"} /\ cut_short \in BOOLEAN
    BY <1>6, <1>7
  <2>5. wire \cup inbox = {} /\ content \in Seq(Bytes)
    BY <1>7
  <2> QED
    BY <2>1, <2>3, <2>4, <2>5 DEF BlocksTypeOK
<1>9. WireInv /\ OnlyTailsLost
  BY <1>7 DEF WireInv, OnlyTailsLost
<1>10. message.blocks = <<>>
  BY <1>7
<1>11. LoaderInv
  BY <1>6, <1>7, <1>8, <1>9, <1>10 DEF LoaderInv
<1>12. ConfigInv
  <2>1. parser = Parser(InitConfig(role)) /\ words = <<>>
    BY DEF Init
  <2>2. parser.line = <<>> /\ parser.stage = "property" /\ Len(<<>>) - Len(<<>>) = 0
    BY <2>1 DEF Parser
  <2>3. ParseInv(<<>>, {}, 0, InitConfig(role), Parser(InitConfig(role)))
    BY ConfigValues, ParserStarts
  <2> QED
    BY <2>1, <2>2, <2>3 DEF ConfigInv
<1> QED
  BY <1>2, <1>3, <1>4, <1>6, <1>11, <1>12 DEF FilesInv

LEMMA ConfigStutter ==
  ConfigInv /\ UNCHANGED <<parser, words, role>> /\ (main' # "line" => main # "line") => ConfigInv'
BY DEF ConfigInv

LEMMA ParseLineStep ==
  ConfigInv /\ LinesInv /\ ParseConfigLine /\ role' = role => ConfigInv'
<1> SUFFICES ASSUME ConfigInv, LinesInv, ParseConfigLine, role' = role PROVE ConfigInv'
  OBVIOUS
<1>1. /\ main = "config" /\ main' = "line" /\ reading = "return" /\ calls = <<>>
      /\ parser' = StartLine(parser, returned.line)
      /\ words' = words \o Words(returned.line)
  BY DEF ParseConfigLine, TakeLine
<1>2. returned.line \in Seq(Symbols)
  BY <1>1, LastReturn
<1>3. parser.line = <<>> /\ parser.stage \in {"property", "value", "string"}
  BY <1>1 DEF ConfigInv
<1>4. PICK starts : ParseInv(words, starts, Len(words) - Len(parser.line), InitConfig(role), parser)
  BY DEF ConfigInv
<1>5. words \in Seq(WordRecords) /\ Len(words) - Len(parser.line) = Len(words)
  BY <1>3, <1>4 DEF ParseInv
<1>6. PICK T : ParseInv(words \o Words(returned.line), T, Len(words), InitConfig(role),
                        StartLine(parser, returned.line))
  BY <1>2, <1>3, <1>4, <1>5, LineStep
<1>7. Len(words) = Len(words') - Len(parser'.line)
  <2>1. Len(words') = Len(words) + Len(parser'.line) /\ Len(parser'.line) \in Nat
    BY <1>1, <1>6 DEF ParseInv, LineIsRead, ParserRecord
  <2> QED
    BY <1>5, <2>1
<1> QED
  BY <1>1, <1>6, <1>7 DEF ConfigInv

LEMMA ParseTokenStep ==
  ConfigInv /\ ParseToken /\ role' = role => ConfigInv'
<1> SUFFICES ASSUME ConfigInv, ParseToken, role' = role PROVE ConfigInv'
  OBVIOUS
<1>1. /\ main' = "line" /\ InLine(parser) /\ parser' = TakeToken(parser) /\ words' = words
  BY DEF ParseToken
<1>2. PICK starts : ParseInv(words, starts, Len(words) - Len(parser.line), InitConfig(role), parser)
  BY DEF ConfigInv
<1> DEFINE c == Len(words) - Len(parser.line)
<1>3. ParseInv(words, starts, c + 1, InitConfig(role), parser')
  BY <1>1, <1>2, TokenStep
<1>4. c + 1 = Len(words') - Len(parser'.line)
  <2>1. Len(words) = (c + 1) + Len(parser'.line) /\ Len(parser'.line) \in Nat /\ c + 1 \in Nat
    BY <1>3 DEF ParseInv, LineIsRead, ParserRecord
  <2> HIDE DEF c
  <2> QED
    BY <1>1, <2>1
<1> QED
  BY <1>1, <1>3, <1>4 DEF ConfigInv

LEMMA ParseLineEndsStep ==
  ConfigInv /\ ParseLineEnds /\ role' = role => ConfigInv'
<1> SUFFICES ASSUME ConfigInv, ParseLineEnds, role' = role PROVE ConfigInv'
  OBVIOUS
<1>1. ~ InLine(parser) /\ parser' = EndLine(parser) /\ words' = words
  BY DEF ParseLineEnds
<1>2. PICK starts : ParseInv(words, starts, Len(words) - Len(parser.line), InitConfig(role), parser)
  BY DEF ConfigInv
<1>3. /\ ParseInv(words, starts, Len(words), InitConfig(role), parser')
      /\ parser'.line = <<>> /\ parser'.stage \in {"property", "value", "string"}
  BY <1>1, <1>2, EndLineStep
<1>4. Len(words) = Len(words') - Len(parser'.line)
  <2>1. Len(words) \in Nat
    BY <1>2 DEF ParseInv
  <2> QED
    BY <1>1, <1>3, <2>1
<1> QED
  BY <1>1, <1>3, <1>4 DEF ConfigInv

LEMMA ConfigStep ==
  FilesInv /\ ConfigMain /\ UNCHANGED input_vars => FilesInv'
<1> SUFFICES ASSUME FilesInv, ConfigMain, UNCHANGED input_vars PROVE FilesInv'
  OBVIOUS
<1> USE DEF LoadConfigFails, LoadConfig, ParseConfigLine, ParseToken, ParseLineEnds,
            ParseConfigEnds
<1>1. LinesInv /\ ConfigInv /\ ServersInv /\ config \in Seq(Symbols) /\ role' = role
  BY DEF FilesInv, InputInv, input_vars
<1>2. InputInv'
  BY DEF FilesInv, InputInv, input_vars
<1>3. LoaderInv' /\ servers' = servers
  BY LoaderStutter DEF FilesInv, ConfigMain
<1>4. main \in {"start", "config", "line"} /\ main' \in {"config", "line", "configured"}
  BY DEF ConfigMain
<1>5. ServersInv'
  BY <1>1, <1>3, <1>4 DEF ServersInv
<1>6. LinesInv' /\ ConfigInv'
  <2>1. CASE LoadConfigFails
    BY <1>1, <2>1, LinesStutter, ConfigStutter
  <2>2. CASE LoadConfig
    BY <1>1, <2>2, OpenFileStep, ConfigStutter
  <2>3. CASE ParseConfigLine
    BY <1>1, <2>3, TakeLineStep, ParseLineStep
  <2>4. CASE ParseToken
    BY <1>1, <2>4, LinesStutter, ParseTokenStep
  <2>5. CASE ParseLineEnds
    BY <1>1, <2>5, LinesStutter, ParseLineEndsStep
  <2>6. CASE ParseConfigEnds
    BY <1>1, <2>6, EndFileStep, ConfigStutter
  <2> QED
    BY <2>1, <2>2, <2>3, <2>4, <2>5, <2>6 DEF ConfigMain
<1>7. stage' = stage /\ stage = "main"
  BY <1>4 DEF FilesInv, ConfigMain, block_vars
<1> QED
  BY <1>2, <1>3, <1>4, <1>5, <1>6, <1>7 DEF FilesInv

LEMMA ParseServerListStep ==
  ASSUME LinesInv, ServersInv, ParseServerList
  PROVE  LinesInv' /\ ServersInv'
<1>1. /\ main = "list" /\ main' = "list" /\ TakeLine
      /\ servers' = ParseServer(servers, returned.line)
  BY DEF ParseServerList
<1>2. /\ reading = "return" /\ calls = <<>>
      /\ lines' = IF returned.line = <<>> THEN lines ELSE Append(lines, returned.line)
  BY <1>1 DEF TakeLine
<1>3. returned.line \in Seq(Symbols)
  BY <1>2, LastReturn
<1>4. lines \in Seq(Seq(Symbols) \ {<<>>}) /\ servers \in Seq(Addresses) /\ ListIs(lines, servers)
  BY <1>1 DEF LinesInv, ServersInv
<1>5. servers' \in Seq(Addresses) /\ ListIs(lines', servers')
  BY <1>1, <1>2, <1>3, <1>4, ListStep
<1>6. ListIs(lines, servers)'
  BY <1>5 DEF ListIs
<1> QED
  BY <1>1, <1>5, <1>6, TakeLineStep DEF ServersInv

LEMMA ClientStep ==
  FilesInv /\ ClientMain /\ UNCHANGED input_vars => FilesInv'
<1> SUFFICES ASSUME FilesInv, ClientMain, UNCHANGED input_vars PROVE FilesInv'
  OBVIOUS
<1>1. LinesInv /\ ServersInv
  BY DEF FilesInv
<1>2. InputInv'
  BY DEF FilesInv, InputInv, input_vars
<1>3. LoaderInv'
  BY LoaderStutter
  DEF FilesInv, ClientMain, LoadServerListFails, LoadServerList, ParseServerList, ParseServersEnd
<1>4. main' \in {"done", "list", "listed"}
  BY DEF ClientMain, LoadServerListFails, LoadServerList, ParseServerList, ParseServersEnd
<1>5. LinesInv' /\ ServersInv'
  <2>1. CASE LoadServerListFails
    BY <1>1, <2>1, LinesStutter DEF LoadServerListFails, ServersInv
  <2>2. CASE LoadServerList
    <3>1. second \in Seq(Symbols) /\ servers = <<>>
      BY <1>1, <2>2 DEF LoadServerList, FilesInv, InputInv, ServersInv
    <3>2. LinesInv'
      BY <1>1, <2>2, <3>1, OpenFileStep DEF LoadServerList
    <3>3. lines' = <<>> /\ servers' = <<>> /\ main' = "list"
      BY <2>2, <3>1 DEF LoadServerList, OpenFile
    <3>4. ListIs(lines', servers')
      BY <3>3, NoServers
    <3>5. ListIs(lines, servers)'
      BY <3>4 DEF ListIs
    <3> QED
      BY <3>2, <3>3, <3>5 DEF ServersInv
  <2>3. CASE ParseServerList
    BY <1>1, <2>3, ParseServerListStep
  <2>4. CASE ParseServersEnd
    <3>1. /\ main = "list" /\ main' = "listed" /\ EndFile /\ servers' = servers
          /\ lines' = lines
      BY <2>4 DEF ParseServersEnd, EndFile
    <3>2. ListIs(lines, servers)'
      BY <1>1, <3>1 DEF ServersInv, ListIs
    <3> QED
      BY <1>1, <3>1, <3>2, EndFileStep DEF ServersInv
  <2> QED
    BY <2>1, <2>2, <2>3, <2>4 DEF ClientMain
<1>6. stage' = stage /\ stage = "main"
  BY DEF FilesInv, ClientMain, LoadServerListFails, LoadServerList, ParseServerList,
         ParseServersEnd, block_vars
<1>7. ConfigInv'
  <2>1. UNCHANGED <<parser, words, role>> /\ main # "line"
    BY DEF input_vars, ClientMain, LoadServerListFails, LoadServerList, ParseServerList,
           ParseServersEnd
  <2> QED
    BY <2>1, ConfigStutter DEF FilesInv
<1> QED
  BY <1>2, <1>3, <1>4, <1>5, <1>6, <1>7 DEF FilesInv

LEMMA StartLoaderStep ==
  FilesInv /\ StartLoader /\ UNCHANGED input_vars => FilesInv'
<1> SUFFICES ASSUME FilesInv, StartLoader, UNCHANGED input_vars PROVE FilesInv'
  OBVIOUS
<1>1. LinesInv'
  BY LinesStutter DEF FilesInv, StartLoader
<1>2. InputInv'
  BY DEF FilesInv, InputInv, input_vars
<1>3. main' = "done" /\ servers' = servers /\ stage' = "load"
  BY DEF StartLoader
<1>4. ServersInv'
  BY <1>3 DEF FilesInv, ServersInv
<1>5. UNCHANGED <<content, offset, cut_short, message, next, wire, inbox>>
  BY DEF StartLoader
<1>6. BlocksTypeOK' /\ WireInv' /\ OnlyTailsLost'
  <2>1. BlocksTypeOK /\ WireInv /\ OnlyTailsLost
    BY DEF FilesInv, LoaderInv
  <2>2. BlocksTypeOK'
    BY <1>3, <1>5, <2>1 DEF BlocksTypeOK
  <2>3. WireInv' /\ OnlyTailsLost'
    <3>1. wire = {} /\ inbox = {}
      BY <2>1 DEF FilesInv, WireInv, StartLoader
    <3> QED
      BY <1>5, <3>1 DEF WireInv, OnlyTailsLost
  <2> QED
    BY <2>2, <2>3
<1>7. CutInv'
  <2>1. offset = 0 /\ message.blocks = <<>> /\ Len(content) \in Nat
    BY DEF FilesInv, LoaderInv, StartLoader, BlocksTypeOK
  <2>2. message'.blocks = <<>> /\ Len(message'.blocks) = 0 /\ offset' = 0 /\ content' = content
    BY <1>5, <2>1
  <2>3. 1 .. Len(message'.blocks) = {}
    BY <2>2
  <2>4. Len(content') > (Len(message'.blocks) - 1) * MTN_DM_BLOCK_DATA_LEN
    BY <2>1, <2>2, DataLength
  <2>5. IF offset' < Len(content')
          THEN offset' = Len(message'.blocks) * MTN_DM_BLOCK_DATA_LEN
          ELSE Len(content') <= Len(message'.blocks) * MTN_DM_BLOCK_DATA_LEN
    BY <2>1, <2>2, DataLength
  <2> QED
    BY <1>3, <2>2, <2>3, <2>4, <2>5 DEF CutInv
<1>8. ConfigInv'
  BY ConfigStutter DEF FilesInv, StartLoader, input_vars
<1> QED
  BY <1>1, <1>2, <1>3, <1>4, <1>6, <1>7, <1>8 DEF FilesInv, LoaderInv

LEMMA ReadingStep == FilesInv /\ Reading /\ UNCHANGED input_vars => FilesInv'
<1> SUFFICES ASSUME FilesInv, Reading, UNCHANGED input_vars PROVE FilesInv'
  OBVIOUS
<1>1. LinesInv' /\ lines' = lines
  BY GetFileLineStep
  DEF FilesInv, Reading, GetFileLine, ReadEnd, ReadLine, ReadPiece, Join
<1>2. main' = main /\ servers' = servers /\ stage' = stage
  BY DEF Reading, block_vars
<1>3. InputInv'
  BY DEF FilesInv, InputInv, input_vars
<1>4. ListIs(lines, servers)' <=> ListIs(lines, servers)
  BY <1>1, <1>2 DEF ListIs
<1>5. ServersInv'
  BY <1>2, <1>4 DEF FilesInv, ServersInv
<1>6. LoaderInv'
  BY LoaderStutter DEF FilesInv, Reading
<1>7. ConfigInv'
  BY ConfigStutter DEF FilesInv, Reading, input_vars
<1> QED
  BY <1>1, <1>2, <1>3, <1>5, <1>6, <1>7 DEF FilesInv

LEMMA SendingStep == FilesInv /\ Sending /\ UNCHANGED input_vars => FilesInv'
<1> SUFFICES ASSUME FilesInv, Sending, UNCHANGED input_vars PROVE FilesInv'
  OBVIOUS
<1>1. BlocksNext /\ main' = main /\ servers' = servers /\ UNCHANGED line_vars
  BY DEF Sending
<1>2. LinesInv' /\ lines' = lines
  BY <1>1, LinesStutter DEF FilesInv, line_vars
<1>3. InputInv'
  BY DEF FilesInv, InputInv, input_vars
<1>4. ListIs(lines, servers)' <=> ListIs(lines, servers)
  BY <1>1, <1>2 DEF ListIs
<1>5. ServersInv'
  BY <1>1, <1>4 DEF FilesInv, ServersInv
<1>6. BlocksTypeOK /\ WireInv /\ OnlyTailsLost
  BY DEF FilesInv, LoaderInv
<1>7. stage # "main"
  BY <1>1, <1>6
  DEF WireInv, BlocksNext, LoadBlock, LoadEnd, SendHead, SendBlock, SendEnd
<1>8. CutInv /\ main = "done"
  BY <1>7 DEF FilesInv, LoaderInv
<1>9. BlocksTypeOK' /\ WireInv' /\ OnlyTailsLost' /\ CutInv'
  BY <1>1, <1>6, <1>8, BlocksTypeStep, TailsStep, CutStep
<1>10. LoaderInv'
  BY <1>9 DEF LoaderInv, CutInv
<1>11. ConfigInv'
  BY ConfigStutter DEF FilesInv, Sending, input_vars
<1> QED
  BY <1>1, <1>2, <1>3, <1>5, <1>8, <1>10, <1>11 DEF FilesInv

LEMMA FilesStutter == FilesInv /\ UNCHANGED vars => FilesInv'
<1> SUFFICES ASSUME FilesInv, UNCHANGED vars PROVE FilesInv'
  OBVIOUS
<1>1. /\ main' = main /\ servers' = servers /\ UNCHANGED input_vars
      /\ UNCHANGED line_vars /\ UNCHANGED block_vars
  BY DEF vars
<1>2. LinesInv' /\ LoaderInv'
  BY <1>1, LinesStutter, LoaderStutter DEF FilesInv
<1>3. InputInv'
  BY <1>1 DEF FilesInv, InputInv, input_vars
<1>4. lines' = lines /\ stage' = stage
  BY <1>1 DEF line_vars, block_vars
<1>5. ListIs(lines, servers)' <=> ListIs(lines, servers)
  BY <1>1, <1>4 DEF ListIs
<1>6. ServersInv'
  BY <1>1, <1>5 DEF FilesInv, ServersInv
<1>7. ConfigInv'
  BY <1>1, ConfigStutter DEF FilesInv, vars, input_vars
<1> QED
  BY <1>1, <1>2, <1>3, <1>4, <1>6, <1>7 DEF FilesInv

LEMMA FilesStep == FilesInv /\ [Next]_vars => FilesInv'
BY ConfigStep, ClientStep, StartLoaderStep, ReadingStep, SendingStep, FilesStutter DEF Next

LEMMA FilesHold ==
  FilesInv => TypeOK /\ LinesWhole /\ TooLongIsFatal /\ ServersOnce
              /\ ConfigAsWritten /\ BlocksAreTheFile /\ OnlyTailsLost
<1> SUFFICES ASSUME FilesInv
             PROVE  TypeOK /\ LinesWhole /\ TooLongIsFatal /\ ServersOnce
                    /\ ConfigAsWritten /\ BlocksAreTheFile /\ OnlyTailsLost
  OBVIOUS
<1>1. LinesWhole /\ TooLongIsFatal
  BY WholeLines DEF FilesInv
<1>2. ServersOnce
  BY ServersAre DEF FilesInv, ServersInv
<1>3. TypeOK
  <2>1. Len(reader.buffer) \in 0 .. LINE_MAX_SIZE
    BY FileTypes, PieceSize DEF FilesInv, LinesInv, ReaderInv
  <2>2. parser.stage \in {"property", "value", "string", "set", "comment"}
    BY DEF FilesInv, ConfigInv, ParseInv, ParserRecord
  <2> QED
    BY <2>1, <2>2 DEF TypeOK, FilesInv, LinesInv, LoaderInv
<1>4. OnlyTailsLost
  BY DEF FilesInv, LoaderInv
<1>5. BlocksAreTheFile
  BY DEF FilesInv, LoaderInv, CutInv, BlocksAreTheFile
<1>6. ASSUME main # "line" PROVE \E starts \in SUBSET (1 .. Len(words)) :
        AreLines(words, starts) /\ AsWritten(words, starts, InitConfig(role), parser.config)
  <2>1. PICK starts :
          ParseInv(words, starts, Len(words) - Len(parser.line), InitConfig(role), parser)
    BY DEF FilesInv, ConfigInv
  <2>2. /\ words \in Seq(WordRecords) /\ AreLines(words, starts)
        /\ AllSettled(words, starts, Len(words) - Len(parser.line), InitConfig(role), parser.config)
    BY <2>1 DEF ParseInv
  <2>3. Len(words) - Len(parser.line) = Len(words)
    BY <1>6, <2>2 DEF FilesInv, ConfigInv
  <2>4. AsWritten(words, starts, InitConfig(role), parser.config)
    BY <2>2, <2>3, SettledSays
  <2>5. starts \in SUBSET (1 .. Len(words))
    BY <2>2 DEF AreLines
  <2> QED
    BY <2>2, <2>4, <2>5
<1>7. ConfigAsWritten
  BY <1>6 DEF ConfigAsWritten
<1> QED
  BY <1>1, <1>2, <1>3, <1>4, <1>5, <1>7

\* The inductive invariant of both programs.
THEOREM FilesInvariant == Spec => []FilesInv
BY FilesStart, FilesStep, PTL DEF Spec

\* Types, of both programs: get_file_line never has more than LINE_MAX_SIZE bytes
\* in its buffer.
THEOREM FilesTypeCorrect == Spec => []TypeOK
BY FilesInvariant, FilesHold, PTL

\* The config file and the server list come out line by line, whichever of the
\* two was in the static buffer before.
THEOREM LinesWholeAlways == Spec => []LinesWhole
BY FilesInvariant, FilesHold, PTL

\* A program ends over a line only if it is too long.
THEOREM TooLongIsFatalAlways == Spec => []TooLongIsFatal
BY FilesInvariant, FilesHold, PTL

\* parse_client_server_list leaves each address of the list once in the map.
THEOREM ServersOnceAlways == Spec => []ServersOnce
BY FilesInvariant, FilesHold, PTL

\* parse_config_file leaves in the config what the words of the file say, and the
\* defaults where they say nothing: after each line, and to the end of the program.
THEOREM ConfigAsWrittenAlways == Spec => []ConfigAsWritten
BY FilesInvariant, FilesHold, PTL

\* What the server's loader makes of a message, from the start of main on.
THEOREM ServerBlocksCorrect == Spec => [](BlocksAreTheFile /\ OnlyTailsLost)
BY FilesInvariant, FilesHold, PTL

=============================================================================
