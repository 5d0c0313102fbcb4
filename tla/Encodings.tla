------------------------------ MODULE Encodings ------------------------------
(***************************************************************************)
(* What the helper does to bytes: cuts a message into the blocks of a hash *)
(* (checksum.cpp, control_client.cpp), writes base64, and writes and reads *)
(* the length of a WebSocket frame; and what the Windows extension does to *)
(* an argument of the helper's command line (win32_helper_process.cpp).    *)
(* Each has its other side here too: the phone's frames, the program's     *)
(* reading of its command line, or the definition of the encoding.         *)
(***************************************************************************)
EXTENDS Integers, SequencesExt, FiniteSetsExt

CONSTANTS
  Block,   \* bytes in a block of the hash (64)
  Counter  \* of which the message's length takes the last (8)

ASSUME BlockAssumption == Block \in Nat /\ Counter \in 1..(Block - 1)

Zeros(n) == [i \in 1..n |-> "0"]
Length(n) == [i \in 1..Counter |-> <<n, i>>]

(***************************************************************************)
(* Checksum: blocks are the ones processBlock has been given.              *)
(***************************************************************************)
Hashing(blocks, block, total, rest) ==
  [blocks |-> blocks, block |-> block, total |-> total, rest |-> rest]

\* As much as fits is moved from the data to the block, which goes when it is full.
Move(s) ==
  LET count == Min({Block - Len(s.block), Len(s.rest)})
      block == s.block \o SubSeq(s.rest, 1, count)
      rest  == SubSeq(s.rest, count + 1, Len(s.rest))
  IN IF s.rest = <<>> THEN s
     ELSE IF Len(block) = Block
     THEN Hashing(Append(s.blocks, block), <<>>, s.total + count, rest)
     ELSE Hashing(s.blocks, block, s.total + count, rest)

\* After each move; one moves a byte at least.
Moved(state, data) ==
  LET s[n \in 0..Len(data)] ==
        IF n = 0 THEN Hashing(state.blocks, state.block, state.total, data) ELSE Move(s[n - 1])
  IN s
Update(state, data) == Moved(state, data)[Len(data)]

Finish_EarlyBlock(state) ==
  LET marked == Append(state.block, "80")
      spills == Len(marked) >= Block - Counter
      blocks == IF spills THEN Append(state.blocks, marked \o Zeros(Block - Len(marked)))
                ELSE state.blocks
      last   == IF spills THEN <<>> ELSE marked
  IN Append(blocks, last \o Zeros(Block - Counter - Len(last)) \o Length(state.total))
Finish(state) ==
  LET marked == Append(state.block, "80")
      spills == Len(marked) > Block - Counter
      blocks == IF spills THEN Append(state.blocks, marked \o Zeros(Block - Len(marked)))
                ELSE state.blocks
      last   == IF spills THEN <<>> ELSE marked
  IN Append(blocks, last \o Zeros(Block - Counter - Len(last)) \o Length(state.total))

\* The file is read into a buffer of a given size; after each buffer.
Updated(file, buffer) ==
  LET s[n \in 0..Len(file)] ==
        IF n = 0 THEN Hashing(<<>>, <<>>, 0, <<>>)
        ELSE Update(s[n - 1], SubSeq(file, (n - 1) * buffer + 1, Min({n * buffer, Len(file)})))
  IN s

FileBlocks(file, buffer) == Finish(Updated(file, buffer)[Len(file)])

\* sha1 pads the message it holds in memory.
PaddedTo(message) ==
  message \o Zeros(Min({k \in 0..Block : (Len(message) + k) % Block = Block - Counter}))
Sha1Message(input) == PaddedTo(Append(input, "80")) \o Length(Len(input))

\* The standard: one mark, as few zeros as fill a block, the length.
ShaMessage(m) ==
  LET zeros == Min({k \in 0..Block : (Len(m) + 1 + k + Counter) % Block = 0})
  IN Append(m, "80") \o Zeros(zeros) \o Length(Len(m))

HashesTheMessage(file, buffer) ==
  /\ FlattenSeq(FileBlocks(file, buffer)) = ShaMessage(file)
  /\ \A i \in DOMAIN FileBlocks(file, buffer) : Len(FileBlocks(file, buffer)[i]) = Block
  /\ Sha1Message(file) = ShaMessage(file)

(***************************************************************************)
(* base64. `value` keeps every byte it has seen: only 16 of its 32 bits    *)
(* are kept here, and the code never looks at more than 14.                *)
(***************************************************************************)
Digits(s) ==
  LET n == IF s.bits < 0 THEN 0 ELSE s.bits \div 6 + 1
  IN [s EXCEPT !.out = @ \o [i \in 1..n |-> (s.value \div 2^(s.bits - 6 * (i - 1))) % 64],
               !.bits = @ - 6 * n]
EncodeByte(s, byte) ==
  Digits([s EXCEPT !.value = (@ * 256 + byte) % 2^16, !.bits = @ + 8])
Base64Encode(bytes) ==
  LET s   == FoldLeft(EncodeByte, [out |-> <<>>, value |-> 0, bits |-> -6], bytes)
      out == IF s.bits > -6
             THEN Append(s.out, ((s.value * 256) \div 2^(s.bits + 8)) % 64) ELSE s.out
  IN out \o [i \in 1..((4 - (Len(out) % 4)) % 4) |-> "="]

\* Three bytes are four digits.
Base64(bytes) ==
  LET n     == Len(bytes)
      at(i) == IF i <= n THEN bytes[i] ELSE 0
      bit(i) == (at(i \div 8 + 1) \div 2^(7 - (i % 8))) % 2   \* bits from 0
      digit(d) == bit(6*d) * 32 + bit(6*d + 1) * 16 + bit(6*d + 2) * 8
                  + bit(6*d + 3) * 4 + bit(6*d + 4) * 2 + bit(6*d + 5)
  IN [d \in 1..(4 * ((n + 2) \div 3)) |-> IF 6 * (d - 1) < 8 * n THEN digit(d - 1) ELSE "="]

(***************************************************************************)
(* WebSocket frames, of which only the bytes that carry the length matter. *)
(***************************************************************************)
Refused == -1

\* The helper's command and the phone's reading of it.
SendFrame(n) ==
  IF n < 126 THEN <<n>>
  ELSE IF n <= 65535 THEN <<126, n \div 256, n % 256>> ELSE <<>>
PhoneReads(frame) ==
  IF frame = <<>> THEN Refused
  ELSE IF frame[1] < 126 THEN frame[1] ELSE frame[2] * 256 + frame[3]

\* The phone's event and the helper's reading of it.
EncodeTextFrame(n) == IF n < 126 THEN <<n>> ELSE <<126, (n \div 256) % 256, n % 256>>
ReceiveFrame(frame) ==
  IF frame[1] = 126 THEN frame[2] * 256 + frame[3]
  ELSE IF frame[1] = 127 THEN Refused ELSE frame[1]

\* A command is read in full or not sent.
CommandArrivesWhole(n) == PhoneReads(SendFrame(n)) \in {n, Refused}
\* An event is read in full.
EventArrivesWhole(n) == ReceiveFrame(EncodeTextFrame(n)) = n

(***************************************************************************)
(* The helper's command line: characters, among them "space" (all that is  *)
(* white), "q" (a double quote) and "\\" (a backslash).                    *)
(***************************************************************************)
Backslashes(n) == [i \in 1..n |-> "\\"]

QuoteStep(s, ch) ==
  IF ch = "\\" THEN [s EXCEPT !.slashes = @ + 1]
  ELSE [out |-> s.out \o Backslashes(IF ch = "q" THEN s.slashes * 2 + 1 ELSE s.slashes) \o <<ch>>,
        slashes |-> 0]
\* After each character of an argument that needs quotes.
Quoted(argument) ==
  LET s[n \in 0..Len(argument)] ==
        IF n = 0 THEN [out |-> <<"q">>, slashes |-> 0] ELSE QuoteStep(s[n - 1], argument[n])
  IN s
QuoteArgument(argument) ==
  LET s == Quoted(argument)[Len(argument)]
  IN IF argument = <<>> THEN <<"q", "q">>
     ELSE IF {"space", "q"} \cap ToSet(argument) = {} THEN argument
     ELSE s.out \o Backslashes(s.slashes * 2) \o <<"q">>

\* After each argument.
CommandLines(executablePath, arguments) ==
  LET line[n \in 0..Len(arguments)] ==
        IF n = 0 THEN QuoteArgument(executablePath)
        ELSE line[n - 1] \o <<"space">> \o QuoteArgument(arguments[n])
  IN line
CommandLineFor(executablePath, arguments) ==
  CommandLines(executablePath, arguments)[Len(arguments)]

\* How a program's runtime splits its command line: 2n backslashes before a quote are
\* n and the quote opens or closes, 2n + 1 are n and a quote that belongs to the word. (The
\* program's own name is read without such escapes; a path to a program has no quotes.)
Reading(words, word, some, quoted, slashes) ==
  [words |-> words, word |-> word, some |-> some, quoted |-> quoted, slashes |-> slashes]
SplitStep(s, ch) ==
  LET kept == s.word \o Backslashes(s.slashes)
      half == s.word \o Backslashes(s.slashes \div 2)
      words == IF s.some = 1 \/ kept # <<>> THEN Append(s.words, kept) ELSE s.words
  IN CASE ch = "\\" -> Reading(s.words, s.word, s.some, s.quoted, s.slashes + 1)
       [] ch = "q" /\ s.slashes % 2 = 1 -> Reading(s.words, Append(half, "q"), 1, s.quoted, 0)
       [] ch = "q" /\ s.slashes % 2 = 0 -> Reading(s.words, half, 1, 1 - s.quoted, 0)
       [] ch = "space" /\ s.quoted = 0  -> Reading(words, <<>>, 0, 0, 0)
       [] OTHER                         -> Reading(s.words, Append(kept, ch), 1, s.quoted, 0)
Split(from, chars) ==
  LET s[n \in 0..Len(chars)] == IF n = 0 THEN from ELSE SplitStep(s[n - 1], chars[n])
  IN s[Len(chars)]
SplitCommandLine(line) ==
  Split(Reading(<<>>, <<>>, 0, 0, 0), Append(line, "space")).words

\* The helper is given the arguments it was meant to be given.
ArgumentsSurvive(executablePath, arguments) ==
  SplitCommandLine(CommandLineFor(executablePath, arguments)) = <<executablePath>> \o arguments
=============================================================================
