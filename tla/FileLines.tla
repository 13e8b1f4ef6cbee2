------------------------------ MODULE FileLines ------------------------------
(***************************************************************************)
(* get_file_line of mtn-common.c: the lines of a file that is read in      *)
(* pieces of LINE_MAX_SIZE into a static buffer.  All files that are read  *)
(* line by line share the buffer: the config file, then the server list.   *)
(* A line that goes on in the next piece is got by a call that             *)
(* get_file_line makes of itself.                                          *)
(*                                                                         *)
(* A file is a sequence of symbols, and what a symbol is does not matter   *)
(* here, but for Newline.                                                  *)
(***************************************************************************)
EXTENDS Integers, SequencesExt

CONSTANTS
  Symbols,
  Newline,
  LINE_MAX_SIZE

ASSUME LineAssumption == Newline \in Symbols /\ LINE_MAX_SIZE \in Nat \ {0, 1}

VARIABLES
  file,      \* the file that is open, or was last
  reader,    \* the static buffer from buffer_ptr on, and what is not read yet
  reading,   \* "call" and "return" of get_file_line; "closed", or "fatal"
  calls,     \* the calls that wait for the call they made: their line
  returned,  \* what the last call returned, its length and its line
  begins,    \* history: where in the file each call's line begins
  lines      \* history: the lines the program got of the file, but empty ones

line_vars == <<file, reader, reading, calls, returned, begins, lines>>

Reader(buffer, rest) == [buffer |-> buffer, rest |-> rest]

Returned(length, line) == [length |-> length, line |-> line]

-----------------------------------------------------------------------------
(* A call: read(fd, buffer, LINE_MAX_SIZE) if the buffer is empty, strspn   *)
(* and strcspn of newlines.  The first call is for a nonempty line.         *)

AtMostPiece(n) == IF n < LINE_MAX_SIZE THEN n ELSE LINE_MAX_SIZE

\* A full buffer ended one byte too early.
FillEndsEarly(rest) ==
  LET n == AtMostPiece(Len(rest))
  IN  Reader(SubSeq(rest, 1, IF n = LINE_MAX_SIZE THEN n - 1 ELSE n), SubSeq(rest, n + 1, Len(rest)))

\* A byte more than the buffer is for.
FillOneMore(rest) ==
  LET n == IF Len(rest) <= LINE_MAX_SIZE THEN Len(rest) ELSE LINE_MAX_SIZE + 1
  IN  Reader(SubSeq(rest, 1, n), SubSeq(rest, n + 1, Len(rest)))

Fill(rest) ==
  LET n == AtMostPiece(Len(rest))
  IN  Reader(SubSeq(rest, 1, n), SubSeq(rest, n + 1, Len(rest)))

Filled == IF reader.buffer = <<>> THEN Fill(reader.rest) ELSE reader

\* How many symbols text begins with that are in S.
Span(text, S) ==
  CHOOSE n \in 0 .. Len(text) :
    /\ \A i \in 1 .. n : text[i] \in S
    /\ n < Len(text) => text[n + 1] \notin S

Text ==
  LET skip == IF calls = <<>> THEN Span(Filled.buffer, {Newline}) ELSE 0
  IN  SubSeq(Filled.buffer, skip + 1, Len(Filled.buffer))

LineLength == Span(Text, Symbols \ {Newline})

Begin == begins' = Append(begins, Len(file) - Len(Filled.rest) - Len(Text))

\* Nothing left to read.
ReadEnd ==
  /\ reading = "call"
  /\ Filled.buffer = <<>>
  /\ reading' = "return" /\ returned' = Returned(-1, <<>>)
  /\ reader' = Filled
  /\ Begin
  /\ UNCHANGED <<file, calls, lines>>

\* A newline in the buffer.
ReadLine ==
  /\ reading = "call"
  /\ LineLength < Len(Text)
  /\ reading' = "return" /\ returned' = Returned(LineLength, SubSeq(Text, 1, LineLength))
  /\ reader' = Reader(SubSeq(Text, LineLength + 2, Len(Text)), Filled.rest)
  /\ Begin
  /\ UNCHANGED <<file, calls, lines>>

\* None: the call gets the next line.
ReadPiece ==
  /\ reading = "call"
  /\ Filled.buffer # <<>> /\ LineLength = Len(Text)
  /\ calls' = Append(calls, Text)
  /\ reader' = Reader(<<>>, Filled.rest)
  /\ Begin
  /\ UNCHANGED <<file, reading, returned, lines>>

\* And appends it to its own.  At the end of the file the length is one too
\* small; when that makes it 0, the line is not appended.
Join ==
  /\ reading = "return"
  /\ calls # <<>>
  /\ LET line == Last(calls)
         length == Len(line) + returned.length
     IN  IF returned.length # 0 /\ length > LINE_MAX_SIZE
           THEN reading' = "fatal" /\ UNCHANGED <<calls, returned, begins>>
           ELSE /\ returned' = Returned(length, IF returned.length = 0 THEN line
                                                ELSE line \o returned.line)
                /\ calls' = Front(calls)
                /\ begins' = Front(begins)
                /\ UNCHANGED reading
  /\ UNCHANGED <<file, reader, lines>>

-----------------------------------------------------------------------------
(* The loops of parse_config_file and parse_client_server_list.            *)

\* Opening a file forgets nothing of the buffer.
OpenFile(symbols) ==
  /\ reading = "closed"
  /\ file' = symbols
  /\ reader' = Reader(reader.buffer, symbols)
  /\ reading' = "call"
  /\ lines' = <<>>
  /\ UNCHANGED <<calls, returned, begins>>

TakeLine ==
  /\ reading = "return" /\ calls = <<>>
  /\ returned.length # -1
  /\ reading' = "call"
  /\ lines' = IF returned.line = <<>> THEN lines ELSE Append(lines, returned.line)
  /\ begins' = <<>>
  /\ UNCHANGED <<file, reader, calls, returned>>

EndFile ==
  /\ reading = "return" /\ calls = <<>>
  /\ returned.length = -1
  /\ reading' = "closed"
  /\ begins' = <<>>
  /\ UNCHANGED <<file, reader, calls, returned, lines>>

GetFileLine == ReadEnd \/ ReadLine \/ ReadPiece \/ Join

LinesInit ==
  /\ file = <<>>
  /\ reader = Reader(<<>>, <<>>)
  /\ reading = "closed"
  /\ calls = <<>> /\ returned = Returned(-1, <<>>)
  /\ begins = <<>> /\ lines = <<>>

LinesNext ==
  \/ GetFileLine \/ TakeLine \/ EndFile
  \/ \E symbols \in Seq(Symbols) : OpenFile(symbols)

LinesSpec == LinesInit /\ [][LinesNext]_line_vars

-----------------------------------------------------------------------------
(* What the lines of a file are: the longest stretches without a Newline.  *)

Stretches(f) ==
  {p \in (1 .. Len(f)) \X (1 .. Len(f)) :
     /\ p[1] <= p[2]
     /\ p[1] > 1 => f[p[1] - 1] = Newline
     /\ p[2] < Len(f) => f[p[2] + 1] = Newline
     /\ \A i \in p[1] .. p[2] : f[i] # Newline}

\* One of those with k of them beginning before it or at its place: that one.
Pick(S) == CHOOSE p \in S : TRUE

Nth(S, k) == Pick({p \in S : Cardinality({q \in S : q[1] <= p[1]}) = k})

Cut(f, S) ==
  [k \in 1 .. Cardinality(S) |-> SubSeq(f, Nth(S, k)[1], Nth(S, k)[2])]

\* The last symbol comes alone in the last piece, and its line was begun in the
\* piece before, by its text or by an empty line.
LastLost(f) ==
  LET n == Len(f)
  IN  /\ n > 1 /\ n % LINE_MAX_SIZE = 1 /\ f[n] # Newline
      /\ f[n - 1] # Newline \/ f[n - 2] = Newline

-----------------------------------------------------------------------------
(* Properties.                                                             *)

\* The lines that come out of a file are its lines, wherever the pieces end in
\* which it is read, and none of the file read before.  The one thing lost is a
\* last symbol without a newline that comes alone in the last piece.
LinesWhole ==
  reading = "closed" =>
    lines = Cut(file, Stretches(IF LastLost(file) THEN Front(file) ELSE file))

\* The program ends over a line that is too long, and over no other.
TooLongIsFatal ==
  LET LongerThan(n) == \E p \in Stretches(file) : p[2] - p[1] + 1 > n
  IN  /\ reading = "fatal" => LongerThan(LINE_MAX_SIZE)
      /\ reading = "closed" => ~ LongerThan(LINE_MAX_SIZE + 1)
=============================================================================
