---------------------------- MODULE InputFraming ----------------------------
(***************************************************************************)
(* Bytes into inputs: the lines of a serial sender                         *)
(* (io/serial_endpoint.py, io/text_event_parsing.py) and the alignment of  *)
(* OSC messages (io/osc_framing.py, io/osc_endpoint.py).                   *)
(*                                                                         *)
(* These are functions of what was received; the assumptions at the end    *)
(* compare them with what was sent, on all small inputs.  A byte of a line *)
(* is its position in the stream, a newline is 0; -1 is a byte that makes  *)
(* its line a JSON object InputEvent refuses.  A byte of an OSC message is *)
(* its ASCII code, a length or an opaque part of a number.                 *)
(***************************************************************************)
LOCAL INSTANCE Integers
LOCAL INSTANCE Sequences
LOCAL INSTANCE SequencesExt

LastOf(s, n) == IF Len(s) > n THEN SubSeq(s, Len(s) - n + 1, Len(s)) ELSE s

\* The parts of s between zeros, and what is after the last zero.
Lines(s) ==
  FoldLeft(LAMBDA split, byte :
             IF byte = 0
             THEN [lines |-> Append(split.lines, split.rest), rest |-> <<>>]
             ELSE [split EXCEPT !.rest = Append(@, byte)],
           [lines |-> <<>>, rest |-> <<>>], s)

\* parse_text_event: an empty line is no event, an object with a value that is not a
\* number, a text or a boolean raises.
IsEvent(line) == line # <<>>
Raises(line) == -1 \in ToSet(line)

\* One turn of the worker: the buffer is cut to its last max bytes before it is split,
\* and a line that raises ends the thread.
Feed(worker, chunk, max) ==
  LET split == Lines(LastOf(worker.buffer \o chunk, max))
      before == SelectInSeq(split.lines, Raises)
  IN  IF ~worker.alive THEN worker
      ELSE [alive  |-> before = 0,
            buffer |-> split.rest,
            events |-> worker.events \o
                         SelectSeq(IF before = 0 THEN split.lines
                                   ELSE SubSeq(split.lines, 1, before - 1), IsEvent)]

Received(chunks, max) ==
  FoldLeft(LAMBDA worker, chunk : Feed(worker, chunk, max),
           [alive |-> TRUE, buffer |-> <<>>, events |-> <<>>], chunks)

-----------------------------------------------------------------------------
\* OSC.

Ascii == [slash |-> 47, comma |-> 44, int |-> 105, float |-> 102, string |-> 115,
          blob |-> 98, true |-> 84, nil |-> 78]

Zeros(n) == [i \in 1..n |-> 0]
Padding(n) == (4 - (n % 4)) % 4

OscString(s) == LET data == Append(s, 0) IN data \o Zeros(Padding(Len(data)))

\* From offset (counted from 0) to the next zero, and the aligned offset after it.
ReadOscString(data, offset) ==
  LET terminators == {i \in offset..(Len(data) - 1) : data[i + 1] = 0}
      end == CHOOSE i \in terminators : \A j \in terminators : i <= j
  IN  IF terminators = {} THEN [ok |-> FALSE]
      ELSE [ok |-> TRUE, value |-> SubSeq(data, offset + 1, end),
            next |-> end + 1 + Padding(end + 1)]

\* An argument is its tag and its content: four bytes, a string, a blob, or nothing.
ArgumentBytes(arg) ==
  CASE arg.tag \in {Ascii.int, Ascii.float} -> arg.content
    [] arg.tag = Ascii.string -> OscString(arg.content)
    [] arg.tag = Ascii.blob -> <<0, 0, 0, Len(arg.content)>> \o arg.content
                          \o Zeros(Padding(Len(arg.content)))
    [] OTHER -> <<>>

BuildOsc(address, args) ==
  OscString(address) \o OscString(<<Ascii.comma>> \o [i \in DOMAIN args |-> args[i].tag])
    \o FoldLeft(LAMBDA bytes, arg : bytes \o ArgumentBytes(arg), <<>>, args)

\* The argument of a tag at an offset, and the offset after it.
ReadArgument(data, tag, offset) ==
  CASE tag \in {Ascii.int, Ascii.float} ->
         [ok |-> offset + 4 <= Len(data), value |-> SubSeq(data, offset + 1, offset + 4),
          next |-> offset + 4]
    [] tag = Ascii.string -> ReadOscString(data, offset)
    [] tag = Ascii.blob ->
         LET size == IF offset + 4 <= Len(data) THEN data[offset + 4] ELSE 0
             end  == offset + 4 + size
         IN  [ok |-> end <= Len(data), value |-> SubSeq(data, offset + 5, end),
              next |-> end + Padding(end)]
    [] OTHER -> [ok |-> TRUE, value |-> <<>>, next |-> offset]

Malformed == [ok |-> FALSE]

ParseOsc(data) ==
  LET address == ReadOscString(data, 0)
      tags == ReadOscString(data, address.next)
      step(read, tag) ==
        IF ~read.ok THEN read
        ELSE LET arg == ReadArgument(data, tag, read.next)
             IN  IF arg.ok THEN [read EXCEPT !.args = Append(@, [tag |-> tag, content |-> arg.value]),
                                             !.next = arg.next]
                 ELSE Malformed
  IN  IF data = <<>> \/ ~address.ok THEN Malformed
      ELSE IF Head(Append(address.value, 0)) # Ascii.slash THEN Malformed
      ELSE IF address.next >= Len(data)
           THEN [ok |-> TRUE, address |-> address.value, args |-> <<>>, next |-> address.next]
      ELSE IF ~tags.ok THEN Malformed
      ELSE IF Head(Append(tags.value, 0)) # Ascii.comma THEN Malformed
      ELSE FoldLeft(step, [ok |-> TRUE, address |-> address.value, args |-> <<>>, next |-> tags.next],
                    Tail(tags.value))

\* OscInputEndpoint: the first argument is the value; a blob or nil is no value.
OscEvent(data) ==
  LET message == ParseOsc(data)
      value == IF message.args = <<>> THEN [tag |-> Ascii.true, content |-> <<>>] ELSE Head(message.args)
  IN  IF message.ok /\ value.tag \notin {Ascii.blob, Ascii.nil}
      THEN <<[type |-> Tail(message.address), value |-> value]>>
      ELSE <<>>

-----------------------------------------------------------------------------
\* Bounds of the assumptions: chunks, buffer and stream of the serial line in bytes,
\* contents of an OSC argument, arguments of a message.
ChunkBytes == 2
MaxLineBytes == 4
StreamBytes == 6
ContentBytes == 5
MaxArguments == 2

Total(lengths) == FoldLeft(LAMBDA sum, n : sum + n, 0, lengths)

\* All ways to receive n bytes.
Chunkings(n) ==
  {lengths \in UNION {[1..k -> 1..ChunkBytes] : k \in 0..n} : Total(lengths) = n}

Chunks(stream, lengths) ==
  [i \in DOMAIN lengths |->
     SubSeq(stream, Total(SubSeq(lengths, 1, i - 1)) + 1, Total(SubSeq(lengths, 1, i)))]

Streams(n) ==
  {[i \in 1..n |-> IF kind[i] = 1 THEN i ELSE kind[i]] : kind \in [1..n -> {-1, 0, 1}]}

\* What a sender of the stream means: its lines, up to one that raises.
Sent(stream) ==
  LET lines == Lines(stream).lines
      bad == SelectInSeq(lines, Raises)
  IN  SelectSeq(IF bad = 0 THEN lines ELSE SubSeq(lines, 1, bad - 1), IsEvent)

\* However the bytes arrive, lines of at most a chunk less than the buffer become
\* events whole and in order, up to the first that raises; of a longer line a tail
\* becomes an event, and no line is lost, doubled or split (serial_endpoint.py:69-88).
ASSUME LinesArrive ==
  \A n \in 0..StreamBytes :
    LET chunkings == Chunkings(n)
    IN  \A stream \in Streams(n) :
          LET sent == Sent(stream)
              short == \A i \in DOMAIN Lines(stream).lines :
                         Len(Lines(stream).lines[i]) <= MaxLineBytes - ChunkBytes
          IN  \A lengths \in chunkings :
                LET got == Received(Chunks(stream, lengths), MaxLineBytes).events
                IN  /\ short => got = sent
                    /\ ~Raises(stream) =>
                         /\ Len(got) = Len(sent)
                         /\ \A i \in DOMAIN sent : IsSuffix(got[i], sent[i])

Addresses == {<<Ascii.slash>> \o [i \in 1..n |-> 97] : n \in 0..3}

Arguments ==
  [tag : {Ascii.true, Ascii.nil}, content : {<<>>}] \cup
  [tag : {Ascii.int, Ascii.float}, content : {<<0, 0, 0, 1>>}] \cup
  [tag : {Ascii.string, Ascii.blob}, content : {[i \in 1..n |-> 97] : n \in 0..ContentBytes}]

\* Every OSC message is read as it was built, and is aligned (osc_framing.py:26-112).
ASSUME OscRoundTrip ==
  \A address \in Addresses, n \in 0..MaxArguments :
    \A args \in [1..n -> Arguments] :
      LET data == BuildOsc(address, args)
          message == ParseOsc(data)
      IN  /\ Len(data) % 4 = 0
          /\ message.ok /\ message.address = address /\ message.args = args
          /\ Len(OscEvent(data)) =
               IF n > 0 THEN (IF args[1].tag \in {Ascii.blob, Ascii.nil} THEN 0 ELSE 1) ELSE 1
=============================================================================
