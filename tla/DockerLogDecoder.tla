-------------------------- MODULE DockerLogDecoder --------------------------
(***************************************************************************)
(* The decoder of Docker's log stream (src/src/logs.rs, DockerLogDecoder): *)
(* the body arrives in chunks of any size, and is text, or frames of text  *)
(* behind a header that gives their length.  A byte is a number; a header  *)
(* is one byte for the stream and one for the length.                      *)
(***************************************************************************)
EXTENDS Naturals, Sequences, FiniteSets
Seqs == INSTANCE SequencesExt

CONSTANTS
    Alphabet,      \* the bytes of a body
    NewLine, Return,
    FrameLimit,    \* 1 MiB
    BufferLimit,   \* 2 MiB
    LineLimit,     \* 64 KiB
    MaxBytes,      \* bound: bytes of a body
    MaxChunk       \* bound: bytes of a chunk

ASSUME DecoderAssumption ==
    /\ Alphabet \subseteq Nat /\ NewLine # Return
    /\ {FrameLimit, BufferLimit, LineLimit, MaxBytes, MaxChunk} \subseteq Nat

HeaderSize == 2

VARIABLES
    decoder,    \* DockerLogDecoder
    fed,        \* every byte it was given
    lines,      \* every line it returned, each with its truncation
    result      \* of the last call

decoderVars == <<decoder, fed, lines, result>>

Bytes == Seq(Alphabet)
Lines == [text : Bytes, cut : BOOLEAN]

DecoderTypeOK ==
    /\ decoder \in [mode : {"unknown", "raw", "multiplexed"}, pending : Bytes, line : Lines]
    /\ fed \in Bytes /\ Len(fed) <= MaxBytes
    /\ lines \in Seq(Lines)
    /\ result \in {"ok", "error", "end"}

EmptyLine == [text |-> <<>>, cut |-> FALSE]

DecoderInit ==
    /\ decoder = [mode |-> "unknown", pending |-> <<>>, line |-> EmptyLine]
    /\ fed = <<>> /\ lines = <<>>
    /\ result = "ok"

----------------------------------------------------------------------------
(* push_text, over a state [line, out]. *)

Chomped(text) == IF text # <<>> /\ Seqs!Last(text) = Return THEN Seqs!Front(text) ELSE text

PushByte(s, byte) ==
    IF byte = NewLine
    THEN [line |-> EmptyLine, out |-> Append(s.out, [s.line EXCEPT !.text = Chomped(@)])]
    ELSE IF Len(s.line.text) < LineLimit
         THEN [s EXCEPT !.line.text = Append(@, byte)]
         ELSE [s EXCEPT !.line.cut = TRUE]

PushText(line, bytes) ==
    LET pushed[n \in 0 .. Len(bytes)] ==
          IF n = 0 THEN [line |-> line, out |-> <<>>] ELSE PushByte(pushed[n - 1], bytes[n])
    IN pushed[Len(bytes)]

\* docker_header
IsHeader(bytes) == Len(bytes) >= HeaderSize /\ bytes[1] \in 0 .. 2
FrameLength(bytes) == bytes[2]
From(bytes, i) == SubSeq(bytes, i, Len(bytes))

\* The payloads at the front of `bytes`, what is left, and whether a header is
\* invalid or its frame too long.
Frames[bytes \in Bytes] ==
    IF Len(bytes) < HeaderSize THEN [payload |-> <<>>, rest |-> bytes, ok |-> TRUE]
    ELSE IF ~IsHeader(bytes) \/ FrameLength(bytes) > FrameLimit
         THEN [payload |-> <<>>, rest |-> bytes, ok |-> FALSE]
    ELSE LET end == HeaderSize + FrameLength(bytes) IN
         IF Len(bytes) < end THEN [payload |-> <<>>, rest |-> bytes, ok |-> TRUE]
         ELSE LET tail == Frames[From(bytes, end + 1)] IN
              [tail EXCEPT !.payload = SubSeq(bytes, HeaderSize + 1, end) \o @]

\* Variant: the mode is decided on what the first chunk brings.
UndecidedIfEmpty(bytes) == bytes = <<>>

Undecided(bytes) == Len(bytes) < HeaderSize

ModeOf(bytes) == IF Undecided(bytes) THEN "unknown"
                 ELSE IF IsHeader(bytes) THEN "multiplexed" ELSE "raw"

\* The decoder and its output after `bytes` of the buffer.
Decode(mode, bytes) ==
    LET frames == Frames[bytes]
        text == CASE mode = "unknown" -> <<>>
                  [] mode = "raw" -> bytes
                  [] mode = "multiplexed" -> frames.payload
        rest == CASE mode = "unknown" -> bytes
                  [] mode = "raw" -> <<>>
                  [] mode = "multiplexed" -> frames.rest
        pushed == PushText(decoder.line, text)
    IN [decoder |-> [mode |-> mode, pending |-> rest, line |-> pushed.line],
        out |-> pushed.out,
        ok |-> mode = "multiplexed" => frames.ok]

Reject == result' = "error" /\ UNCHANGED <<decoder, lines>>

\* push: an error loses the lines of its chunk, and ends the stream.
Push(chunk) ==
    /\ result = "ok"
    /\ fed' = fed \o chunk
    /\ LET bytes == decoder.pending \o chunk
           mode == IF decoder.mode = "unknown" THEN ModeOf(bytes) ELSE decoder.mode
           d == Decode(mode, bytes)
       IN IF (decoder.mode # "raw" /\ Len(bytes) > BufferLimit) \/ ~d.ok THEN Reject
          ELSE decoder' = d.decoder /\ lines' = lines \o d.out /\ UNCHANGED result

\* finish: what there is of an undecided stream is text; an incomplete frame
\* is an error; the last line needs no newline.
FinishDecoding ==
    /\ result = "ok"
    /\ IF decoder.mode = "multiplexed" /\ decoder.pending # <<>> THEN Reject
       ELSE LET d == Decode("raw", decoder.pending) IN
            /\ decoder' = [d.decoder EXCEPT !.line = EmptyLine]
            /\ lines' = lines \o d.out \o
                  (IF d.decoder.line = EmptyLine THEN <<>> ELSE <<d.decoder.line>>)
            /\ result' = "end"
    /\ UNCHANGED fed

DecoderNext ==
    \/ \E n \in 1 .. MaxChunk : \E chunk \in [1 .. n -> Alphabet] :
          Len(fed) + n <= MaxBytes /\ Push(chunk)
    \/ FinishDecoding

----------------------------------------------------------------------------
(* Properties *)

\* The text that the whole of a body carries.
TextOf(bytes) == IF IsHeader(bytes) THEN Frames[bytes].payload ELSE bytes

Kept(text) == SubSeq(text, 1, IF Len(text) < LineLimit THEN Len(text) ELSE LineLimit)
IsCut(text) == Len(text) > LineLimit

\* Its lines, each from one newline to the next, and what follows the last.
Ends(text) == {i \in 1 .. Len(text) : text[i] = NewLine}
NthEnd(text, n) == CHOOSE i \in Ends(text) \cup {0} : Cardinality({j \in Ends(text) : j <= i}) = n
LinesOf(text) ==
    [n \in 1 .. Cardinality(Ends(text)) |->
        LET line == SubSeq(text, NthEnd(text, n - 1) + 1, NthEnd(text, n) - 1)
        IN [text |-> Chomped(Kept(line)), cut |-> IsCut(line)]]
UnfinishedOf(text) ==
    LET line == From(text, NthEnd(text, Cardinality(Ends(text))) + 1)
    IN IF line = <<>> THEN <<>> ELSE <<[text |-> Kept(line), cut |-> IsCut(line)]>>

\* However the body is cut into chunks, the lines returned are those of the
\* body as a whole: none is lost, split or returned twice, up to an error; and
\* at a regular end an unfinished line is returned as well.
LinesAreWhole ==
    LET text == TextOf(fed) IN
    CASE result = "ok" -> lines = IF Len(fed) < HeaderSize THEN <<>> ELSE LinesOf(text)
      [] result = "error" -> Seqs!IsPrefix(lines, LinesOf(text))
      [] result = "end" -> lines = LinesOf(text) \o UnfinishedOf(text)
=============================================================================
