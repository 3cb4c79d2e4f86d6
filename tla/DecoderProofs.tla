----------------------------- MODULE DecoderProofs -----------------------------
(***************************************************************************)
(* The lines of DockerLogDecoder are those of the body as a whole.  What   *)
(* has to be shown of the decoder's functions is that they may be given a  *)
(* body in pieces: PushTextConcat for push_text, FramesConcat for the      *)
(* frames; and that a byte at a time yields the lines of the definition,   *)
(* PushedLines.  The induction behind them is over a set of numbers or of  *)
(* sequences (Induction, SequenceInduction), and that Frames and the       *)
(* function of PushText exist is proved of them (FramesUpTo, PushRun).     *)
(***************************************************************************)
EXTENDS DockerLogDecoder, FiniteSetTheorems, SequenceTheorems, TLAPS

\* Induction over the natural numbers, for a set of them.
LEMMA StrongInduction ==
    ASSUME NEW T, \A n \in Nat : 0 .. n - 1 \subseteq T => n \in T
    PROVE  Nat \subseteq T
<1> DEFINE Bad == Nat \ T
<1> SUFFICES ASSUME Bad # {} PROVE FALSE
  OBVIOUS
<1>1. PICK x \in Bad : \A y \in Bad : ~(<<y, x>> \in OpToRel(<, Nat))
  <2> HIDE DEF Bad
  <2>1. Bad \subseteq Nat
    BY DEF Bad
  <2> QED  BY <2>1, WFMin, NatLessThanWellFounded
<1>2. \A y \in Bad : ~(y < x)
  BY <1>1 DEF OpToRel
<1>3. 0 .. x - 1 \subseteq T
  BY <1>2
<1> QED  BY <1>3

\* From 0 and from each number to the next.
LEMMA Induction ==
    ASSUME NEW T, 0 \in T, \A n \in Nat : n \in T => n + 1 \in T
    PROVE  Nat \subseteq T
<1>1. ASSUME NEW n \in Nat, 0 .. n - 1 \subseteq T PROVE n \in T
  <2>1. CASE n = 0
    BY <2>1
  <2>2. CASE n # 0
    <3>1. n - 1 \in Nat /\ n - 1 \in 0 .. n - 1
      BY <2>2
    <3> QED  BY <3>1, <1>1
  <2> QED  BY <2>1, <2>2
<1> QED  BY <1>1, StrongInduction

-----------------------------------------------------------------------------
(* push_text. *)

States == [line : Lines, out : Seq(Lines)]

LEMMA PushByteType ==
    ASSUME NEW s \in States, NEW b \in Alphabet
    PROVE  PushByte(s, b) \in States
<1>1. s.line \in Lines /\ s.out \in Seq(Lines) /\ s.line.text \in Seq(Alphabet)
  BY DEF States, Lines, Bytes
<1>2. Chomped(s.line.text) \in Seq(Alphabet)
  BY <1>1 DEF Chomped, Seqs!Front, Seqs!Last
<1>3. EmptyLine \in Lines
  BY DEF EmptyLine, Lines, Bytes
<1>4. Append(s.line.text, b) \in Seq(Alphabet)
  BY <1>1
<1> DEFINE chomped == [s.line EXCEPT !.text = Chomped(@)]
<1>5. chomped \in Lines
  BY <1>1, <1>2 DEF Lines, Bytes
<1>6. Append(s.out, chomped) \in Seq(Lines)
  BY <1>1, <1>5
<1> QED  BY <1>1, <1>3, <1>4, <1>6 DEF PushByte, States, Lines, Bytes

\* The recursive function that PushText computes with exists.
LEMMA PushRun ==
    ASSUME NEW line, NEW bytes \in Bytes
    PROVE  \E f : /\ f = [n \in 0 .. Len(bytes) |->
                           IF n = 0 THEN [line |-> line, out |-> <<>>]
                           ELSE PushByte(f[n - 1], bytes[n])]
                  /\ PushText(line, bytes) = f[Len(bytes)]
<1> DEFINE s0 == [line |-> line, out |-> <<>>]
           Run(f, m) == f = [n \in 0 .. m |-> IF n = 0 THEN s0 ELSE PushByte(f[n - 1], bytes[n])]
           T == {m \in Nat : \E f : Run(f, m)}
<1>1. 0 \in T
  <2> DEFINE g == [n \in 0 .. 0 |-> s0]
  <2> HIDE DEF s0
  <2>1. Run(g, 0)
    OBVIOUS
  <2> QED  BY <2>1
<1>2. ASSUME NEW m \in Nat, m \in T PROVE m + 1 \in T
  <2> HIDE DEF s0
  <2>1. PICK f : Run(f, m)
    BY <1>2
  <2> DEFINE g == [n \in 0 .. m + 1 |-> IF n = 0 THEN s0 ELSE PushByte(f[n - 1], bytes[n])]
  <2>2. \A n \in 0 .. m : g[n] = f[n]
    BY <2>1
  <2>3. \A n \in 0 .. m + 1 : n # 0 => n - 1 \in 0 .. m
    OBVIOUS
  <2>4. Run(g, m + 1)
    BY <2>2, <2>3
  <2> HIDE DEF g, Run
  <2> QED  BY <2>4
<1>3. Len(bytes) \in T
  <2> HIDE DEF T
  <2> QED  BY <1>1, <1>2, Induction DEF Bytes
<1>4. \E f : Run(f, Len(bytes))
  BY <1>3
<1> DEFINE r == CHOOSE f : Run(f, Len(bytes))
<1>5. Run(r, Len(bytes))
  BY <1>4
<1>6. PushText(line, bytes) = r[Len(bytes)]
  BY DEF PushText
<1> HIDE DEF r, T, s0
<1> QED  BY <1>5, <1>6 DEF s0

\* From the empty sequence, and from each to one longer.
LEMMA SequenceInduction ==
    ASSUME NEW A, NEW T, <<>> \in T,
           \A s \in Seq(A) : \A b \in A : s \in T => Append(s, b) \in T
    PROVE  Seq(A) \subseteq T
<1> DEFINE N == {n \in Nat : \A s \in Seq(A) : Len(s) = n => s \in T}
<1>1. 0 \in N
  <2> SUFFICES ASSUME NEW s \in Seq(A), Len(s) = 0 PROVE s \in T
    OBVIOUS
  <2>1. s = <<>>
    BY EmptySeq
  <2> QED  BY <2>1
<1>2. ASSUME NEW n \in Nat, n \in N PROVE n + 1 \in N
  <2> SUFFICES ASSUME NEW s \in Seq(A), Len(s) = n + 1 PROVE s \in T
    OBVIOUS
  <2>1. s # <<>>
    BY EmptySeq
  <2>2. PICK r \in Seq(A), b \in A : s = Append(r, b)
    BY <2>1, SequenceEmptyOrAppend
  <2>3. Len(r) = n
    BY <2>2, AppendProperties, LenProperties
  <2> QED  BY <1>2, <2>2, <2>3
<1>3. Nat \subseteq N
  <2> HIDE DEF N
  <2> QED  BY <1>1, <1>2, Induction
<1> QED  BY <1>3, LenProperties

LEMMA PushTextEmpty ==
    ASSUME NEW line
    PROVE  PushText(line, <<>>) = [line |-> line, out |-> <<>>]
<1>1. <<>> \in Bytes /\ Len(<<>>) = 0
  BY DEF Bytes
<1> QED  BY <1>1, PushRun

LEMMA PushTextAppend ==
    ASSUME NEW line, NEW bytes \in Bytes, NEW b \in Alphabet
    PROVE  PushText(line, Append(bytes, b)) = PushByte(PushText(line, bytes), b)
<1> DEFINE more == Append(bytes, b)
           s0 == [line |-> line, out |-> <<>>]
<1>1. /\ more \in Bytes /\ Len(more) = Len(bytes) + 1 /\ more[Len(more)] = b
      /\ \A n \in 1 .. Len(bytes) : more[n] = bytes[n]
      /\ Len(bytes) \in Nat
  BY AppendProperties, LenProperties DEF Bytes
<1> HIDE DEF more, s0
<1>2. PICK f : /\ f = [n \in 0 .. Len(bytes) |-> IF n = 0 THEN s0 ELSE PushByte(f[n - 1], bytes[n])]
               /\ PushText(line, bytes) = f[Len(bytes)]
  BY PushRun DEF s0
<1>3. PICK g : /\ g = [n \in 0 .. Len(more) |-> IF n = 0 THEN s0 ELSE PushByte(g[n - 1], more[n])]
               /\ PushText(line, more) = g[Len(more)]
  BY <1>1, PushRun DEF s0
<1> DEFINE T == {n \in Nat : n <= Len(bytes) => f[n] = g[n]}
<1>4. 0 \in T
  BY <1>1, <1>2, <1>3
<1>5. ASSUME NEW n \in Nat, n \in T PROVE n + 1 \in T
  <2> SUFFICES ASSUME n + 1 <= Len(bytes) PROVE f[n + 1] = g[n + 1]
    OBVIOUS
  <2>1. n + 1 \in 0 .. Len(bytes) /\ n + 1 \in 0 .. Len(more) /\ n + 1 # 0 /\ (n + 1) - 1 = n
    BY <1>1
  <2>2. f[n + 1] = PushByte(f[n], bytes[n + 1])
    BY <1>2, <2>1
  <2>3. g[n + 1] = PushByte(g[n], more[n + 1])
    BY <1>3, <2>1
  <2>4. more[n + 1] = bytes[n + 1]
    BY <1>1, <2>1
  <2>5. f[n] = g[n]
    BY <1>5
  <2> QED  BY <2>2, <2>3, <2>4, <2>5
<1>6. f[Len(bytes)] = g[Len(bytes)]
  <2>1. Len(bytes) \in T
    <3> HIDE DEF T
    <3> QED  BY <1>1, <1>4, <1>5, Induction
  <2> QED  BY <1>1, <2>1
<1>7. g[Len(more)] = PushByte(g[Len(bytes)], b)
  <2>1. Len(more) \in 0 .. Len(more) /\ Len(more) # 0 /\ Len(more) - 1 = Len(bytes)
    BY <1>1
  <2>2. g[Len(more)] = PushByte(g[Len(more) - 1], more[Len(more)])
    BY <1>3, <2>1
  <2> QED  BY <1>1, <2>1, <2>2
<1> QED  BY <1>2, <1>3, <1>6, <1>7 DEF more

LEMMA PushTextType ==
    ASSUME NEW line \in Lines, NEW bytes \in Bytes
    PROVE  PushText(line, bytes) \in States
<1> DEFINE T == {t \in Bytes : PushText(line, t) \in States}
<1>1. <<>> \in T
  <2>1. <<>> \in Seq(Alphabet) /\ <<>> \in Seq(Lines)
    BY EmptySeq
  <2>2. [line |-> line, out |-> <<>>] \in States
    BY <2>1 DEF States
  <2>3. PushText(line, <<>>) \in States
    BY <2>2, PushTextEmpty, Zenon
  <2> QED  BY <2>1, <2>3 DEF Bytes
<1>2. ASSUME NEW s \in Seq(Alphabet), NEW b \in Alphabet, s \in T PROVE Append(s, b) \in T
  BY <1>2, PushTextAppend, PushByteType DEF Bytes
<1>3. Seq(Alphabet) \subseteq T
  <2> HIDE DEF T
  <2> QED  BY <1>1, <1>2, SequenceInduction
<1> QED  BY <1>3 DEF Bytes

\* The text pushed in two pieces, and at once.
LEMMA PushTextConcat ==
    ASSUME NEW line \in Lines, NEW t \in Bytes, NEW u \in Bytes
    PROVE  LET p == PushText(line, t)
               q == PushText(p.line, u)
           IN PushText(line, t \o u) = [line |-> q.line, out |-> p.out \o q.out]
<1> DEFINE p == PushText(line, t)
           q(v) == PushText(p.line, v)
           T == {v \in Bytes : PushText(line, t \o v) = [line |-> q(v).line, out |-> p.out \o q(v).out]}
<1>1. p \in States /\ p.line \in Lines /\ p.out \in Seq(Lines)
  BY PushTextType DEF States
<1>2. <<>> \in T
  <2>1. <<>> \in Bytes /\ t \o <<>> = t
    BY ConcatEmptySeq DEF Bytes
  <2>2. q(<<>>) = [line |-> p.line, out |-> <<>>]
    BY PushTextEmpty
  <2>3. p.out \o <<>> = p.out
    BY <1>1, ConcatEmptySeq
  <2>4. p = [line |-> p.line, out |-> p.out]
    BY <1>1 DEF States
  <2> HIDE DEF p, q
  <2>5. PushText(line, t \o <<>>) = p
    BY <2>1 DEF p
  <2>6. q(<<>>).line = p.line /\ q(<<>>).out = <<>>
    BY <2>2
  <2>7. [line |-> q(<<>>).line, out |-> p.out \o q(<<>>).out] = p
    BY <2>3, <2>4, <2>6
  <2> QED  BY <2>1, <2>5, <2>7
<1>3. ASSUME NEW v \in Seq(Alphabet), NEW b \in Alphabet, v \in T PROVE Append(v, b) \in T
  <2>1. /\ Append(v, b) \in Bytes /\ t \o v \in Bytes
        /\ t \o Append(v, b) = Append(t \o v, b)
    BY DEF Bytes
  <2>2. PushText(line, t \o Append(v, b)) = PushByte(PushText(line, t \o v), b)
    BY <2>1, PushTextAppend
  <2>3. q(Append(v, b)) = PushByte(q(v), b)
    BY PushTextAppend DEF Bytes
  <2>4. q(v) \in States
    BY <1>1, PushTextType DEF Bytes
  <2>5. PushText(line, t \o v) = [line |-> q(v).line, out |-> p.out \o q(v).out]
    BY <1>3
  <2> HIDE DEF p, q
  <2>6. ASSUME NEW x \in States
        PROVE  PushByte([line |-> x.line, out |-> p.out \o x.out], b) =
               [line |-> PushByte(x, b).line, out |-> p.out \o PushByte(x, b).out]
    <3>1. x.line \in Lines /\ x.out \in Seq(Lines) /\ x.line.text \in Seq(Alphabet)
      BY <2>6 DEF States, Lines, Bytes
    <3>2. Chomped(x.line.text) \in Seq(Alphabet)
      BY <3>1 DEF Chomped, Seqs!Front, Seqs!Last
    <3> DEFINE c == [x.line EXCEPT !.text = Chomped(@)]
    <3>3. c \in Lines
      BY <3>1, <3>2 DEF Lines, Bytes
    <3>4. Append(p.out \o x.out, c) = p.out \o Append(x.out, c)
      <4> HIDE DEF c
      <4>1. p.out \o x.out \in Seq(Lines) /\ <<c>> \in Seq(Lines)
        BY <1>1, <3>1, <3>3
      <4>2. /\ Append(p.out \o x.out, c) = (p.out \o x.out) \o <<c>>
            /\ Append(x.out, c) = x.out \o <<c>>
        BY <4>1, <3>1, <3>3, AppendIsConcat
      <4>3. (p.out \o x.out) \o <<c>> = p.out \o (x.out \o <<c>>)
        <5>1. PICK o, xo, k : o = p.out /\ xo = x.out /\ k = <<c>>
          OBVIOUS
        <5>2. o \in Seq(Lines)
          BY <1>1, <5>1
        <5>3. xo \in Seq(Lines)
          BY <3>1, <5>1
        <5>4. k \in Seq(Lines)
          BY <4>1, <5>1
        <5>5. (o \o xo) \o k = o \o (xo \o k)
          BY <5>2, <5>3, <5>4, ConcatAssociative
        <5> QED  BY <5>1, <5>5
      <4> QED  BY <4>2, <4>3
    <3>5. CASE b = NewLine
      BY <3>4, <3>5 DEF PushByte
    <3>6. CASE b # NewLine
      BY <3>6, <2>6 DEF PushByte, States
    <3> QED  BY <3>5, <3>6
  <2> QED  BY <2>1, <2>2, <2>3, <2>4, <2>5, <2>6
<1>4. Seq(Alphabet) \subseteq T
  <2> HIDE DEF T
  <2> QED  BY <1>2, <1>3, SequenceInduction
<1> QED  BY <1>4 DEF Bytes

-----------------------------------------------------------------------------
(* The frames of a body. *)

\* What Frames makes of bytes, f being what it makes of shorter ones.
FrameStep(f, bytes) ==
    IF Len(bytes) < HeaderSize THEN [payload |-> <<>>, rest |-> bytes, ok |-> TRUE]
    ELSE IF ~IsHeader(bytes) \/ FrameLength(bytes) > FrameLimit
         THEN [payload |-> <<>>, rest |-> bytes, ok |-> FALSE]
    ELSE LET end == HeaderSize + FrameLength(bytes) IN
         IF Len(bytes) < end THEN [payload |-> <<>>, rest |-> bytes, ok |-> TRUE]
         ELSE LET tail == f[From(bytes, end + 1)] IN
              [tail EXCEPT !.payload = SubSeq(bytes, HeaderSize + 1, end) \o @]

\* A frame stands whole at the front.
Whole(bytes) ==
    /\ Len(bytes) >= HeaderSize /\ IsHeader(bytes) /\ FrameLength(bytes) <= FrameLimit
    /\ Len(bytes) >= HeaderSize + FrameLength(bytes)
Payload(bytes) == SubSeq(bytes, HeaderSize + 1, HeaderSize + FrameLength(bytes))
Behind(bytes) == From(bytes, HeaderSize + FrameLength(bytes) + 1)

LEMMA FrameFacts ==
    ASSUME NEW bytes \in Bytes, Len(bytes) >= HeaderSize
    PROVE  FrameLength(bytes) \in Nat /\ FrameLength(bytes) \in Alphabet
<1>1. Len(bytes) \in Nat /\ bytes[2] \in Alphabet
  BY DEF Bytes, HeaderSize
<1> QED  BY <1>1, DecoderAssumption DEF FrameLength

LEMMA WholeFacts ==
    ASSUME NEW bytes \in Bytes, Whole(bytes)
    PROVE  /\ Payload(bytes) \in Bytes /\ Behind(bytes) \in Bytes
           /\ Len(Behind(bytes)) = Len(bytes) - HeaderSize - FrameLength(bytes)
           /\ Len(Behind(bytes)) \in 0 .. Len(bytes) - 1
           /\ FrameLength(bytes) \in Nat
<1>1. FrameLength(bytes) \in Nat /\ Len(bytes) \in Nat /\ bytes \in Seq(Alphabet)
  BY FrameFacts DEF Whole, Bytes
<1>2. Len(bytes) >= 2 + FrameLength(bytes)
  BY DEF Whole, HeaderSize
<1> DEFINE n == FrameLength(bytes)
<1> HIDE DEF n
<1>3. \A i \in 3 .. 2 + n : bytes[i] \in Alphabet
  BY <1>1, <1>2 DEF n
<1>4. SubSeq(bytes, 3, 2 + n) \in Seq(Alphabet)
  BY <1>1, <1>3, SubSeqProperties DEF n
<1>5. \A i \in 3 + n .. Len(bytes) : bytes[i] \in Alphabet
  BY <1>1 DEF n
<1>6. /\ SubSeq(bytes, 3 + n, Len(bytes)) \in Seq(Alphabet)
      /\ Len(SubSeq(bytes, 3 + n, Len(bytes))) =
            IF 3 + n <= Len(bytes) THEN Len(bytes) - (3 + n) + 1 ELSE 0
  <2>1. 3 + n \in Int /\ Len(bytes) \in Int
    BY <1>1 DEF n
  <2> QED  BY <2>1, <1>5, SubSeqProperties
<1>7. Payload(bytes) = SubSeq(bytes, 3, 2 + n) /\ Behind(bytes) = SubSeq(bytes, 3 + n, Len(bytes))
  BY <1>1 DEF Payload, Behind, From, HeaderSize, n
<1>8. Len(Behind(bytes)) = Len(bytes) - 2 - n
  <2>1. Len(Behind(bytes)) = IF 3 + n <= Len(bytes) THEN Len(bytes) - (3 + n) + 1 ELSE 0
    BY <1>6, <1>7
  <2>2. n \in Nat /\ Len(bytes) >= 2 + n /\ Len(bytes) \in Nat
    BY <1>1, <1>2 DEF n
  <2> QED  BY <2>1, <2>2
<1>9. Payload(bytes) \in Bytes /\ Behind(bytes) \in Bytes
  BY <1>4, <1>6, <1>7 DEF Bytes
<1>10. Len(Behind(bytes)) \in 0 .. Len(bytes) - 1
  <2>1. n \in Nat /\ Len(bytes) >= 2 + n /\ Len(bytes) \in Nat
    BY <1>1, <1>2 DEF n
  <2> QED  BY <1>8, <2>1
<1> QED  BY <1>1, <1>8, <1>9, <1>10 DEF n, HeaderSize

\* FrameStep looks at f only behind a whole frame.
LEMMA FrameStepIs ==
    ASSUME NEW bytes \in Bytes, NEW f
    PROVE  FrameStep(f, bytes) =
             IF Whole(bytes)
             THEN [f[Behind(bytes)] EXCEPT !.payload = Payload(bytes) \o @]
             ELSE [payload |-> <<>>, rest |-> bytes,
                   ok |-> \/ Len(bytes) < HeaderSize
                          \/ IsHeader(bytes) /\ FrameLength(bytes) <= FrameLimit]
<1>1. Len(bytes) \in Nat
  BY DEF Bytes
<1>2. CASE Len(bytes) < HeaderSize
  <2>1. ~Whole(bytes)
    BY <1>1, <1>2 DEF Whole, HeaderSize
  <2>2. FrameStep(f, bytes) = [payload |-> <<>>, rest |-> bytes, ok |-> TRUE]
    BY <1>2, Zenon DEF FrameStep
  <2> QED  BY <1>2, <2>1, <2>2
<1>3. CASE Len(bytes) >= HeaderSize
  <2>1. FrameLength(bytes) \in Nat
    BY <1>3, FrameFacts
  <2>2. FrameLimit \in Nat
    BY DecoderAssumption
  <2>3. CASE ~IsHeader(bytes) \/ FrameLength(bytes) > FrameLimit
    <3>1. ~Whole(bytes) /\ ~(IsHeader(bytes) /\ FrameLength(bytes) <= FrameLimit) /\ ~(Len(bytes) < HeaderSize)
      BY <1>1, <1>3, <2>1, <2>2, <2>3 DEF Whole, HeaderSize
    <3>2. FrameStep(f, bytes) = [payload |-> <<>>, rest |-> bytes, ok |-> FALSE]
      BY <2>3, <3>1, Zenon DEF FrameStep
    <3> QED  BY <3>1, <3>2
  <2>4. CASE ~(~IsHeader(bytes) \/ FrameLength(bytes) > FrameLimit)
    <3>1. /\ IsHeader(bytes) /\ FrameLength(bytes) <= FrameLimit /\ ~(Len(bytes) < HeaderSize)
          /\ Whole(bytes) <=> ~(Len(bytes) < HeaderSize + FrameLength(bytes))
      BY <1>1, <1>3, <2>1, <2>2, <2>4 DEF Whole, HeaderSize
    <3>2. CASE Whole(bytes)
      BY <2>4, <3>1, <3>2, Zenon DEF FrameStep, Behind, Payload
    <3>3. CASE ~Whole(bytes)
      <4>1. FrameStep(f, bytes) = [payload |-> <<>>, rest |-> bytes, ok |-> TRUE]
        BY <2>4, <3>1, <3>3, Zenon DEF FrameStep
      <4> QED  BY <3>1, <3>3, <4>1
    <3> QED  BY <3>2, <3>3
  <2> QED  BY <2>3, <2>4
<1> QED  BY <1>1, <1>2, <1>3 DEF HeaderSize

Short(n) == {bytes \in Bytes : Len(bytes) <= n}
FramesOf(f, n) == f = [bytes \in Short(n) |-> FrameStep(f, bytes)]

LEMMA FrameStepEqual ==
    ASSUME NEW bytes \in Bytes, NEW f, NEW g,
           \A b \in Bytes : Len(b) < Len(bytes) => f[b] = g[b]
    PROVE  FrameStep(f, bytes) = FrameStep(g, bytes)
<1>1. CASE Whole(bytes)
  <2>1. Behind(bytes) \in Bytes /\ Len(Behind(bytes)) < Len(bytes)
    BY <1>1, WholeFacts DEF Bytes
  <2>2. f[Behind(bytes)] = g[Behind(bytes)]
    BY <2>1
  <2> QED  BY <1>1, <2>2, FrameStepIs
<1>2. CASE ~Whole(bytes)
  BY <1>2, FrameStepIs
<1> QED  BY <1>1, <1>2

\* The recursive function that Frames is exists on bodies up to any length.
LEMMA FramesUpTo == \A n \in Nat : \E f : FramesOf(f, n)
<1> DEFINE T == {n \in Nat : \E f : FramesOf(f, n)}
<1>1. 0 \in T
  <2> DEFINE g == [bytes \in Short(0) |-> FrameStep(<<>>, bytes)]
  <2>1. ASSUME NEW bytes \in Short(0) PROVE FrameStep(g, bytes) = FrameStep(<<>>, bytes)
    <3>1. bytes \in Bytes /\ \A b \in Bytes : ~(Len(b) < Len(bytes))
      BY DEF Short, Bytes
    <3> HIDE DEF g
    <3> QED  BY <3>1, FrameStepEqual
  <2>2. g = [bytes \in Short(0) |-> FrameStep(g, bytes)]
    BY <2>1
  <2> QED  BY <2>2, Zenon DEF FramesOf
<1>2. ASSUME NEW n \in Nat, n \in T PROVE n + 1 \in T
  <2>1. PICK f : FramesOf(f, n)
    BY <1>2
  <2>2. f = [bytes \in Short(n) |-> FrameStep(f, bytes)]
    BY <2>1 DEF FramesOf
  <2> DEFINE g == [bytes \in Short(n + 1) |-> FrameStep(f, bytes)]
  <2>3. ASSUME NEW b \in Short(n) PROVE g[b] = f[b]
    <3>1. b \in Short(n + 1)
      BY DEF Short, Bytes
    <3>2. f[b] = FrameStep(f, b)
      BY <2>2, Zenon
    <3> QED  BY <3>1, <3>2
  <2>4. ASSUME NEW bytes \in Short(n + 1) PROVE FrameStep(g, bytes) = FrameStep(f, bytes)
    <3>1. bytes \in Bytes /\ \A b \in Bytes : Len(b) < Len(bytes) => b \in Short(n)
      BY DEF Short, Bytes
    <3>2. \A b \in Bytes : Len(b) < Len(bytes) => g[b] = f[b]
      BY <2>3, <3>1
    <3> HIDE DEF g
    <3> QED  BY <3>1, <3>2, FrameStepEqual
  <2>5. g = [bytes \in Short(n + 1) |-> FrameStep(g, bytes)]
    BY <2>4
  <2>6. FramesOf(g, n + 1)
    BY <2>5, Zenon DEF FramesOf
  <2> HIDE DEF g
  <2> QED  BY <2>6
<1>3. Nat \subseteq T
  <2> HIDE DEF T
  <2> QED  BY <1>1, <1>2, Induction
<1> QED  BY <1>3

\* There is no more than one of it.
LEMMA FramesAgree ==
    ASSUME NEW n \in Nat, NEW m \in Nat, NEW f, NEW g, FramesOf(f, n), FramesOf(g, m)
    PROVE  \A bytes \in Short(n) \cap Short(m) : f[bytes] = g[bytes]
<1> DEFINE T == {k \in Nat : \A bytes \in Short(n) \cap Short(m) : Len(bytes) = k => f[bytes] = g[bytes]}
<1>1. ASSUME NEW k \in Nat, 0 .. k - 1 \subseteq T PROVE k \in T
  <2> SUFFICES ASSUME NEW bytes \in Short(n) \cap Short(m), Len(bytes) = k
               PROVE  f[bytes] = g[bytes]
    OBVIOUS
  <2>1. bytes \in Bytes /\ bytes \in Short(n) /\ bytes \in Short(m)
    BY DEF Short
  <2>2. ASSUME NEW b \in Bytes, Len(b) < Len(bytes) PROVE f[b] = g[b]
    <3>1. b \in Short(n) \cap Short(m) /\ Len(b) \in 0 .. k - 1
      BY <2>1, <2>2 DEF Short, Bytes
    <3> QED  BY <1>1, <3>1
  <2>3. FrameStep(f, bytes) = FrameStep(g, bytes)
    BY <2>1, <2>2, FrameStepEqual
  <2>4. f[bytes] = FrameStep(f, bytes)
    BY <2>1, Zenon DEF FramesOf
  <2>5. g[bytes] = FrameStep(g, bytes)
    BY <2>1, Zenon DEF FramesOf
  <2> QED  BY <2>3, <2>4, <2>5
<1>2. Nat \subseteq T
  <2> HIDE DEF T
  <2> QED  BY <1>1, StrongInduction
<1>3. \A bytes \in Short(n) : Len(bytes) \in Nat
  BY DEF Short, Bytes
<1> QED  BY <1>2, <1>3

\* Frames is what its definition says.
LEMMA FramesEquation ==
    \A bytes \in Bytes : Frames[bytes] = FrameStep(Frames, bytes)
<1> DEFINE G(n) == CHOOSE f : FramesOf(f, n)
           h == [bytes \in Bytes |-> G(Len(bytes))[bytes]]
<1>1. ASSUME NEW n \in Nat PROVE FramesOf(G(n), n)
  BY FramesUpTo
<1> HIDE DEF G
<1>2. ASSUME NEW bytes \in Bytes PROVE FrameStep(h, bytes) = h[bytes]
  <2>1. Len(bytes) \in Nat /\ bytes \in Short(Len(bytes))
    BY DEF Bytes, Short
  <2>2. h[bytes] = G(Len(bytes))[bytes]
    OBVIOUS
  <2>3. G(Len(bytes))[bytes] = FrameStep(G(Len(bytes)), bytes)
    BY <1>1, <2>1, Zenon DEF FramesOf
  <2>4. ASSUME NEW b \in Bytes, Len(b) < Len(bytes) PROVE h[b] = G(Len(bytes))[b]
    <3>1. Len(b) \in Nat /\ b \in Short(Len(b)) \cap Short(Len(bytes))
      BY <2>1, <2>4 DEF Short, Bytes
    <3>2. G(Len(b))[b] = G(Len(bytes))[b]
      BY <1>1, <2>1, <3>1, FramesAgree
    <3> QED  BY <3>2
  <2> HIDE DEF h
  <2>5. FrameStep(h, bytes) = FrameStep(G(Len(bytes)), bytes)
    BY <2>4, FrameStepEqual
  <2> QED  BY <2>2, <2>3, <2>5
<1>3. h = [bytes \in Bytes |-> FrameStep(h, bytes)]
  BY <1>2
<1> HIDE DEF h
<1>4. \E f : f = [bytes \in Bytes |-> FrameStep(f, bytes)]
  BY <1>3
<1>5. Frames = CHOOSE f : f = [bytes \in Bytes |-> FrameStep(f, bytes)]
  BY Zenon DEF Frames, FrameStep
<1>6. Frames = [bytes \in Bytes |-> FrameStep(Frames, bytes)]
  BY <1>4, <1>5, Zenon
<1> QED  BY <1>6, Zenon

LEMMA FramesCases ==
    ASSUME NEW bytes \in Bytes
    PROVE  Frames[bytes] =
             IF Whole(bytes)
             THEN [Frames[Behind(bytes)] EXCEPT !.payload = Payload(bytes) \o @]
             ELSE [payload |-> <<>>, rest |-> bytes,
                   ok |-> \/ Len(bytes) < HeaderSize
                          \/ IsHeader(bytes) /\ FrameLength(bytes) <= FrameLimit]
BY FramesEquation, FrameStepIs, Zenon

FrameSets == [payload : Bytes, rest : Bytes, ok : BOOLEAN]

\* Its values are what Decode expects.
LEMMA FramesType == \A bytes \in Bytes : Frames[bytes] \in FrameSets
<1> DEFINE T == {k \in Nat : \A bytes \in Bytes : Len(bytes) = k => Frames[bytes] \in FrameSets}
<1>1. ASSUME NEW k \in Nat, 0 .. k - 1 \subseteq T PROVE k \in T
  <2> SUFFICES ASSUME NEW bytes \in Bytes, Len(bytes) = k PROVE Frames[bytes] \in FrameSets
    OBVIOUS
  <2>1. CASE Whole(bytes)
    <3>1. /\ Behind(bytes) \in Bytes /\ Payload(bytes) \in Bytes
          /\ Len(Behind(bytes)) \in 0 .. k - 1
      BY <2>1, WholeFacts
    <3>2. PICK r \in FrameSets : r = Frames[Behind(bytes)]
      BY <1>1, <3>1
    <3>3. PICK p \in Bytes : p = Payload(bytes)
      BY <3>1
    <3>4. p \o r.payload \in Bytes
      <4>1. r.payload \in Seq(Alphabet)
        BY DEF FrameSets, Bytes
      <4> QED  BY <4>1, ConcatProperties DEF Bytes
    <3>5. [r EXCEPT !.payload = p \o @] \in FrameSets
      BY <3>4 DEF FrameSets
    <3> QED  BY <2>1, <3>2, <3>3, <3>5, FramesCases
  <2>2. CASE ~Whole(bytes)
    <3>1. <<>> \in Bytes
      BY DEF Bytes
    <3>2. PICK o \in BOOLEAN : o = (\/ Len(bytes) < HeaderSize
                                    \/ IsHeader(bytes) /\ FrameLength(bytes) <= FrameLimit)
      OBVIOUS
    <3>3. [payload |-> <<>>, rest |-> bytes, ok |-> o] \in FrameSets
      BY <3>1 DEF FrameSets
    <3>4. Frames[bytes] = [payload |-> <<>>, rest |-> bytes, ok |-> o]
      BY <2>2, <3>2, FramesCases, Zenon
    <3> QED  BY <3>3, <3>4
  <2> QED  BY <2>1, <2>2
<1>2. Nat \subseteq T
  <2> HIDE DEF T
  <2> QED  BY <1>1, StrongInduction
<1> QED  BY <1>2 DEF Bytes

\* A whole frame stays what it is when more bytes follow.
LEMMA WholeConcat ==
    ASSUME NEW bytes \in Bytes, NEW more \in Bytes, Whole(bytes)
    PROVE  /\ Whole(bytes \o more)
           /\ Payload(bytes \o more) = Payload(bytes)
           /\ Behind(bytes \o more) = Behind(bytes) \o more
<1>1. /\ bytes \in Seq(Alphabet) /\ more \in Seq(Alphabet) /\ Len(bytes) \in Nat /\ Len(more) \in Nat
      /\ FrameLength(bytes) \in Nat /\ Len(bytes) >= 2 + FrameLength(bytes)
  BY WholeFacts DEF Bytes, Whole, HeaderSize
<1>2. PICK all \in Seq(Alphabet) : all = bytes \o more
  <2>1. bytes \o more \in Seq(Alphabet)
    BY <1>1, ConcatProperties
  <2> QED  BY <2>1, Zenon
<1>3. /\ Len(all) = Len(bytes) + Len(more)
      /\ \A i \in 1 .. Len(bytes) + Len(more) : all[i] = IF i <= Len(bytes) THEN bytes[i] ELSE more[i - Len(bytes)]
  BY <1>1, <1>2, ConcatProperties
<1>4. all[1] = bytes[1] /\ all[2] = bytes[2]
  BY <1>1, <1>3
<1>5. IsHeader(all) /\ FrameLength(all) = FrameLength(bytes)
  BY <1>1, <1>3, <1>4 DEF IsHeader, FrameLength, Whole, HeaderSize
<1>6. Whole(all)
  BY <1>1, <1>3, <1>5 DEF Whole, HeaderSize
<1>7. PICK n \in Nat : n = FrameLength(bytes)
  BY <1>1
<1>8. Payload(all) = SubSeq(all, 3, 2 + n) /\ Payload(bytes) = SubSeq(bytes, 3, 2 + n)
  BY <1>5, <1>7 DEF Payload, HeaderSize
<1>9. SubSeq(all, 3, 2 + n) = SubSeq(bytes, 3, 2 + n)
  <2>1. CASE n = 0
    BY <2>1, SubSeqEmpty
  <2>2. CASE n # 0
    <3>1. 3 \in 1 .. Len(bytes) /\ 2 + n \in 1 .. Len(bytes)
      BY <1>1, <1>7, <2>2
    <3> QED  BY <1>1, <1>2, <3>1, SubSeqOfConcat1
  <2> QED  BY <2>1, <2>2
<1>10. Behind(all) = SubSeq(all, 3 + n, Len(all)) /\ Behind(bytes) = SubSeq(bytes, 3 + n, Len(bytes))
  <2>1. HeaderSize + FrameLength(all) + 1 = 3 + n /\ HeaderSize + FrameLength(bytes) + 1 = 3 + n
    BY <1>5, <1>7 DEF HeaderSize
  <2> QED  BY <2>1, Zenon DEF Behind, From
<1>11. SubSeq(all, 3 + n, Len(all)) = SubSeq(bytes, 3 + n, Len(bytes)) \o more
  <2>1. PICK b \in Seq(Alphabet) : b = SubSeq(bytes, 3 + n, Len(bytes))
    BY <1>10, WholeFacts DEF Bytes
  <2>2. PICK a \in Seq(Alphabet) : a = SubSeq(all, 3 + n, Len(all))
    BY <1>2, <1>6, <1>10, WholeFacts DEF Bytes
  <2>3. Len(bytes) >= 2 + n /\ 3 + n \in Int /\ Len(bytes) \in Int /\ Len(all) \in Int
    BY <1>1, <1>3, <1>7
  <2>4. /\ Len(b) = Len(bytes) - (2 + n)
        /\ \A i \in 1 .. Len(b) : b[i] = bytes[2 + n + i]
    <3>1. \A i \in 3 + n .. Len(bytes) : bytes[i] \in Alphabet
      BY <1>1, <2>3
    <3>2. /\ Len(b) = IF 3 + n <= Len(bytes) THEN Len(bytes) - (3 + n) + 1 ELSE 0
          /\ \A i \in 1 .. Len(bytes) - (3 + n) + 1 : b[i] = bytes[(3 + n) + i - 1]
      BY <2>1, <2>3, <3>1, SubSeqProperties
    <3>3. Len(b) = Len(bytes) - (2 + n)
      BY <2>3, <3>2
    <3>4. ASSUME NEW i \in 1 .. Len(b) PROVE b[i] = bytes[2 + n + i]
      <4>1. i \in 1 .. Len(bytes) - (3 + n) + 1 /\ (3 + n) + i - 1 = 2 + n + i
        BY <2>3, <3>3
      <4> QED  BY <3>2, <4>1
    <3> QED  BY <3>3, <3>4
  <2>5. /\ Len(a) = Len(all) - (2 + n)
        /\ \A i \in 1 .. Len(a) : a[i] = all[2 + n + i]
    <3>1. \A i \in 3 + n .. Len(all) : all[i] \in Alphabet
      BY <2>3
    <3>2. /\ Len(a) = IF 3 + n <= Len(all) THEN Len(all) - (3 + n) + 1 ELSE 0
          /\ \A i \in 1 .. Len(all) - (3 + n) + 1 : a[i] = all[(3 + n) + i - 1]
      BY <2>2, <2>3, <3>1, SubSeqProperties
    <3>3. Len(a) = Len(all) - (2 + n)
      BY <1>1, <1>3, <2>3, <3>2
    <3>4. ASSUME NEW i \in 1 .. Len(a) PROVE a[i] = all[2 + n + i]
      <4>1. i \in 1 .. Len(all) - (3 + n) + 1 /\ (3 + n) + i - 1 = 2 + n + i
        BY <2>3, <3>3
      <4> QED  BY <3>2, <4>1
    <3> QED  BY <3>3, <3>4
  <2>6. PICK c \in Seq(Alphabet) : c = b \o more
    <3>1. b \o more \in Seq(Alphabet)
      BY <1>1, ConcatProperties
    <3> QED  BY <3>1, Zenon
  <2>7. /\ Len(c) = Len(b) + Len(more)
        /\ \A i \in 1 .. Len(b) + Len(more) : c[i] = IF i <= Len(b) THEN b[i] ELSE more[i - Len(b)]
    BY <1>1, <2>1, <2>6, ConcatProperties
  <2>8. Len(a) = Len(c)
    BY <1>1, <1>3, <2>3, <2>4, <2>5, <2>7
  <2>9. ASSUME NEW i \in 1 .. Len(a) PROVE a[i] = c[i]
    BY <1>1, <1>3, <2>3, <2>4, <2>5, <2>7, <2>8
  <2>10. a = c
    BY <2>8, <2>9, SeqEqual
  <2> QED  BY <2>1, <2>2, <2>6, <2>10
<1> QED  BY <1>2, <1>6, <1>8, <1>9, <1>10, <1>11

\* What follows a body whose frames were good is decoded from what they left.
LEMMA FramesConcat ==
    ASSUME NEW more \in Bytes
    PROVE  \A bytes \in Bytes :
              Frames[bytes].ok =>
                 Frames[bytes \o more] =
                    [Frames[Frames[bytes].rest \o more] EXCEPT !.payload = Frames[bytes].payload \o @]
<1> DEFINE Joins(bytes) == Frames[bytes].ok =>
              Frames[bytes \o more] =
                 [Frames[Frames[bytes].rest \o more] EXCEPT !.payload = Frames[bytes].payload \o @]
           T == {k \in Nat : \A bytes \in Bytes : Len(bytes) = k => Joins(bytes)}
<1>1. ASSUME NEW k \in Nat, 0 .. k - 1 \subseteq T PROVE k \in T
  <2> SUFFICES ASSUME NEW bytes \in Bytes, Len(bytes) = k, Frames[bytes].ok
               PROVE  Frames[bytes \o more] =
                 [Frames[Frames[bytes].rest \o more] EXCEPT !.payload = Frames[bytes].payload \o @]
    OBVIOUS
  <2>1. CASE Whole(bytes)
    <3>1. Behind(bytes) \in Bytes /\ Len(Behind(bytes)) \in 0 .. k - 1 /\ Payload(bytes) \in Seq(Alphabet)
      BY <2>1, WholeFacts DEF Bytes
    <3>2. PICK tail \in Bytes : tail = Behind(bytes)
      BY <3>1
    <3>3. PICK p \in Seq(Alphabet) : p = Payload(bytes)
      BY <3>1
    <3>4. PICK f \in FrameSets : f = Frames[tail]
      BY FramesType
    <3>5. Frames[bytes] = [f EXCEPT !.payload = p \o @]
      BY <2>1, <3>2, <3>3, <3>4, FramesCases
    <3>6. Frames[bytes].ok = f.ok /\ Frames[bytes].rest = f.rest /\ Frames[bytes].payload = p \o f.payload
      BY <3>5 DEF FrameSets
    <3>7. PICK r \in FrameSets : r = Frames[f.rest \o more]
      <4>1. f.rest \in Seq(Alphabet) /\ more \in Seq(Alphabet)
        BY DEF FrameSets, Bytes
      <4>2. f.rest \o more \in Bytes
        BY <4>1, ConcatProperties DEF Bytes
      <4> QED  BY <4>2, FramesType
    <3>8. Frames[tail \o more] = [r EXCEPT !.payload = f.payload \o @]
      <4>1. Joins(tail)
        <5> HIDE DEF Joins
        <5> QED  BY <1>1, <3>1, <3>2
      <4> QED  BY <3>4, <3>6, <3>7, <4>1
    <3>9. Frames[bytes \o more] = [Frames[tail \o more] EXCEPT !.payload = p \o @]
      <4>1. /\ Whole(bytes \o more) /\ Payload(bytes \o more) = p
            /\ Behind(bytes \o more) = tail \o more
        BY <2>1, <3>2, <3>3, WholeConcat
      <4>2. bytes \o more \in Bytes
        BY ConcatProperties DEF Bytes
      <4> QED  BY <4>1, <4>2, FramesCases
    <3>10. p \o (f.payload \o r.payload) = (p \o f.payload) \o r.payload
      <4>1. f.payload \in Seq(Alphabet) /\ r.payload \in Seq(Alphabet)
        BY DEF FrameSets, Bytes
      <4>2. PICK a \in Seq(Alphabet), b \in Seq(Alphabet) : a = f.payload /\ b = r.payload
        BY <4>1
      <4>3. (p \o a) \o b = p \o (a \o b)
        BY ConcatAssociative
      <4> QED  BY <4>2, <4>3
    <3>11. Frames[bytes \o more] = [r EXCEPT !.payload = p \o (f.payload \o r.payload)]
      <4>1. [r EXCEPT !.payload = f.payload \o @].payload = f.payload \o r.payload
        BY DEF FrameSets
      <4>2. [[r EXCEPT !.payload = f.payload \o @] EXCEPT !.payload = p \o (f.payload \o r.payload)]
            = [r EXCEPT !.payload = p \o (f.payload \o r.payload)]
        BY DEF FrameSets
      <4> QED  BY <3>8, <3>9, <4>1, <4>2
    <3>12. [Frames[Frames[bytes].rest \o more] EXCEPT !.payload = Frames[bytes].payload \o @]
           = [r EXCEPT !.payload = (p \o f.payload) \o r.payload]
      BY <3>6, <3>7
    <3> QED  BY <3>10, <3>11, <3>12
  <2>2. CASE ~Whole(bytes)
    <3>1. Frames[bytes].payload = <<>> /\ Frames[bytes].rest = bytes
      <4>1. PICK o : Frames[bytes] = [payload |-> <<>>, rest |-> bytes, ok |-> o]
        BY <2>2, FramesCases, Zenon
      <4> QED  BY <4>1
    <3>2. bytes \o more \in Bytes
      BY ConcatProperties DEF Bytes
    <3>3. PICK r \in FrameSets : r = Frames[bytes \o more]
      BY <3>2, FramesType
    <3>4. <<>> \o r.payload = r.payload
      BY ConcatEmptySeq DEF FrameSets, Bytes
    <3>5. [r EXCEPT !.payload = <<>> \o @] = r
      BY <3>4 DEF FrameSets
    <3> QED  BY <3>1, <3>3, <3>5
  <2> QED  BY <2>1, <2>2
<1>2. Nat \subseteq T
  <2> HIDE DEF T
  <2> QED  BY <1>1, StrongInduction
<1>3. ASSUME NEW bytes \in Bytes PROVE Joins(bytes)
  <2>1. Len(bytes) \in T
    <3> HIDE DEF T
    <3> QED  BY <1>2 DEF Bytes
  <2> HIDE DEF Joins
  <2> QED  BY <2>1
<1> QED  BY <1>3

-----------------------------------------------------------------------------
(* The lines of a text. *)

Upto(text, i) == {j \in Ends(text) : j <= i}
Count(text, i) == Cardinality(Upto(text, i))
Newlines(text) == Cardinality(Ends(text))
Places(text) == Ends(text) \cup {0}

LEMMA EndsFinite ==
    ASSUME NEW t \in Bytes
    PROVE  /\ Ends(t) \subseteq 1 .. Len(t) /\ Len(t) \in Nat
           /\ IsFiniteSet(Ends(t)) /\ Newlines(t) \in Nat
           /\ \A i : IsFiniteSet(Upto(t, i)) /\ Count(t, i) \in 0 .. Newlines(t)
           /\ Count(t, 0) = 0 /\ Places(t) \subseteq 0 .. Len(t)
<1>1. Ends(t) \subseteq 1 .. Len(t) /\ Len(t) \in Nat
  BY DEF Ends, Bytes
<1>2. IsFiniteSet(1 .. Len(t))
  BY <1>1, FS_Interval
<1>3. IsFiniteSet(Ends(t))
  BY <1>1, <1>2, FS_Subset
<1>4. Newlines(t) \in Nat
  BY <1>3, FS_CardinalityType DEF Newlines
<1>5. ASSUME NEW i PROVE IsFiniteSet(Upto(t, i)) /\ Count(t, i) \in 0 .. Newlines(t)
  <2>1. Upto(t, i) \in SUBSET Ends(t)
    BY DEF Upto
  <2>2. IsFiniteSet(Upto(t, i)) /\ Cardinality(Upto(t, i)) <= Cardinality(Ends(t))
    BY <1>3, <2>1, FS_Subset
  <2>3. Cardinality(Upto(t, i)) \in Nat
    BY <2>2, FS_CardinalityType
  <2> QED  BY <1>4, <2>2, <2>3 DEF Count, Newlines
<1>6. Upto(t, 0) = {}
  BY <1>1 DEF Upto
<1>7. Count(t, 0) = 0
  BY <1>6, FS_EmptySet DEF Count
<1>8. Places(t) \subseteq 0 .. Len(t)
  BY <1>1 DEF Places
<1> QED  BY <1>1, <1>3, <1>4, <1>5, <1>7, <1>8

LEMMA CountsDiffer ==
    ASSUME NEW t \in Bytes, NEW i \in Places(t), NEW k \in Places(t), i < k
    PROVE  Count(t, i) < Count(t, k)
<1>1. i \in Nat /\ k \in Nat /\ k \in Ends(t)
  BY EndsFinite DEF Places
<1>2. Upto(t, i) \in SUBSET Upto(t, k)
  BY <1>1, EndsFinite DEF Upto
<1>3. k \in Upto(t, k) /\ k \notin Upto(t, i)
  BY <1>1 DEF Upto
<1>4. IsFiniteSet(Upto(t, k))
  BY EndsFinite
<1>5. /\ Cardinality(Upto(t, i)) <= Cardinality(Upto(t, k))
      /\ Cardinality(Upto(t, i)) # Cardinality(Upto(t, k))
  BY <1>2, <1>3, <1>4, FS_Subset
<1>6. Count(t, i) \in Nat /\ Count(t, k) \in Nat
  BY EndsFinite
<1> QED  BY <1>5, <1>6 DEF Count

LEMMA CountsTell ==
    ASSUME NEW t \in Bytes, NEW i \in Places(t), NEW k \in Places(t), Count(t, i) = Count(t, k)
    PROVE  i = k
<1>1. i \in Nat /\ k \in Nat /\ Count(t, i) \in Nat /\ Count(t, k) \in Nat
  BY EndsFinite
<1>2. ~(i < k)
  BY <1>1, CountsDiffer
<1>3. ~(k < i)
  BY <1>1, CountsDiffer
<1> QED  BY <1>1, <1>2, <1>3

\* NthEnd is known by the newlines up to it,
LEMMA NthEndIs ==
    ASSUME NEW t \in Bytes, NEW i \in Places(t)
    PROVE  NthEnd(t, Count(t, i)) = i
<1>1. NthEnd(t, Count(t, i)) = CHOOSE k \in Places(t) : Count(t, k) = Count(t, i)
  BY Zenon DEF NthEnd, Places, Count, Upto
<1> DEFINE c == CHOOSE k \in Places(t) : Count(t, k) = Count(t, i)
<1>2. c \in Places(t) /\ Count(t, c) = Count(t, i)
  OBVIOUS
<1> HIDE DEF c
<1>3. c = i
  BY <1>2, CountsTell
<1> QED  BY <1>1, <1>3 DEF c

\* Another byte at the end of a text.
LEMMA EndsOfAppend ==
    ASSUME NEW t \in Bytes, NEW b \in Alphabet
    PROVE  LET u == Append(t, b) IN
           /\ u \in Bytes /\ Len(u) = Len(t) + 1
           /\ Ends(u) = IF b = NewLine THEN Ends(t) \cup {Len(t) + 1} ELSE Ends(t)
           /\ Newlines(u) = IF b = NewLine THEN Newlines(t) + 1 ELSE Newlines(t)
           /\ Places(t) \subseteq Places(u)
           /\ \A i \in Places(t) : Count(u, i) = Count(t, i)
           /\ Count(u, Len(t) + 1) = Newlines(u)
<1> DEFINE u == Append(t, b)
<1>1. /\ u \in Bytes /\ Len(u) = Len(t) + 1 /\ Len(t) \in Nat
      /\ \A i \in 1 .. Len(t) : u[i] = t[i]
      /\ u[Len(t) + 1] = b
  BY AppendProperties DEF Bytes
<1> HIDE DEF u
<1>2. Ends(u) = IF b = NewLine THEN Ends(t) \cup {Len(t) + 1} ELSE Ends(t)
  BY <1>1 DEF Ends
<1>3. IsFiniteSet(Ends(t)) /\ Len(t) + 1 \notin Ends(t) /\ Newlines(t) \in Nat
  BY EndsFinite
<1>4. Newlines(u) = IF b = NewLine THEN Newlines(t) + 1 ELSE Newlines(t)
  BY <1>2, <1>3, FS_AddElement DEF Newlines
<1>5. Places(t) \subseteq Places(u)
  BY <1>2 DEF Places
<1>6. ASSUME NEW i \in Places(t) PROVE Count(u, i) = Count(t, i)
  <2>1. i \in 0 .. Len(t)
    BY EndsFinite
  <2>2. Upto(u, i) = Upto(t, i)
    BY <1>1, <1>2, <2>1 DEF Upto
  <2> QED  BY <2>2 DEF Count
<1>7. Count(u, Len(t) + 1) = Newlines(u)
  <2>1. \A j \in Ends(u) : j <= Len(t) + 1
    BY <1>1, EndsFinite
  <2>2. Upto(u, Len(t) + 1) = Ends(u)
    BY <2>1 DEF Upto
  <2> QED  BY <2>2 DEF Count, Newlines
<1> QED  BY <1>1, <1>2, <1>4, <1>5, <1>6, <1>7 DEF u

\* and exists for every number of them.
LEMMA NthEndExists ==
    \A t \in Bytes : \A n \in 0 .. Newlines(t) : NthEnd(t, n) \in Places(t) /\ Count(t, NthEnd(t, n)) = n
<1> DEFINE T == {t \in Bytes : \A n \in 0 .. Newlines(t) : \E i \in Places(t) : Count(t, i) = n}
<1>1. <<>> \in T
  <2>1. <<>> \in Bytes /\ Len(<<>>) = 0
    BY DEF Bytes
  <2>2. Ends(<<>>) = {}
    BY <2>1, EndsFinite
  <2>3. Newlines(<<>>) = 0
    BY <2>2, FS_EmptySet DEF Newlines
  <2>4. 0 \in Places(<<>>) /\ Count(<<>>, 0) = 0
    BY <2>1, EndsFinite DEF Places
  <2> QED  BY <2>1, <2>3, <2>4
<1>2. ASSUME NEW t \in Seq(Alphabet), NEW b \in Alphabet, t \in T PROVE Append(t, b) \in T
  <2>1. PICK u : u = Append(t, b)
    OBVIOUS
  <2>2. t \in Bytes
    BY DEF Bytes
  <2>3. /\ u \in Bytes /\ Len(u) = Len(t) + 1
        /\ Ends(u) = IF b = NewLine THEN Ends(t) \cup {Len(t) + 1} ELSE Ends(t)
        /\ Newlines(u) = IF b = NewLine THEN Newlines(t) + 1 ELSE Newlines(t)
        /\ Places(t) \subseteq Places(u)
        /\ \A i \in Places(t) : Count(u, i) = Count(t, i)
        /\ Count(u, Len(t) + 1) = Newlines(u)
    BY <2>1, <2>2, EndsOfAppend
  <2>4. Newlines(t) \in Nat
    BY <2>2, EndsFinite
  <2>5. ASSUME NEW n \in 0 .. Newlines(u) PROVE \E i \in Places(u) : Count(u, i) = n
    <3>1. CASE n \in 0 .. Newlines(t)
      BY <1>2, <2>3, <3>1
    <3>2. CASE n \notin 0 .. Newlines(t)
      <4>1. b = NewLine /\ n = Newlines(u)
        BY <2>3, <2>4, <3>2
      <4>2. Len(t) + 1 \in Places(u)
        BY <2>3, <4>1 DEF Places
      <4> QED  BY <2>3, <4>1, <4>2
    <3> QED  BY <3>1, <3>2
  <2> QED  BY <2>1, <2>3, <2>5
<1>3. Seq(Alphabet) \subseteq T
  <2> HIDE DEF T
  <2> QED  BY <1>1, <1>2, SequenceInduction
<1> SUFFICES ASSUME NEW t \in Bytes, NEW n \in 0 .. Newlines(t)
             PROVE  NthEnd(t, n) \in Places(t) /\ Count(t, NthEnd(t, n)) = n
  OBVIOUS
<1>4. PICK i \in Places(t) : Count(t, i) = n
  BY <1>3 DEF Bytes
<1> QED  BY <1>4, NthEndIs

LEMMA SliceType ==
    ASSUME NEW t \in Bytes, NEW m \in Nat \ {0}, NEW n \in Int, n <= Len(t)
    PROVE  /\ SubSeq(t, m, n) \in Bytes
           /\ Len(SubSeq(t, m, n)) = IF m <= n THEN n - m + 1 ELSE 0
<1>1. \A i \in m .. n : t[i] \in Alphabet
  BY DEF Bytes
<1> QED  BY <1>1, SubSeqProperties DEF Bytes

LEMMA SliceOfAppend ==
    ASSUME NEW t \in Bytes, NEW b \in Alphabet, NEW m \in Nat \ {0}, NEW n \in Int, n <= Len(t)
    PROVE  SubSeq(Append(t, b), m, n) = SubSeq(t, m, n)
<1>1. t \in Seq(Alphabet) /\ Len(t) \in Nat /\ <<b>> \in Seq(Alphabet)
  BY DEF Bytes
<1>2. CASE n < m
  BY <1>2, SubSeqEmpty
<1>3. CASE m <= n
  <2>1. m \in 1 .. Len(t) /\ n \in 1 .. Len(t)
    BY <1>1, <1>3
  <2>2. Append(t, b) = t \o <<b>>
    BY <1>1, AppendIsConcat
  <2>3. SubSeq(t \o <<b>>, m, n) = SubSeq(t, m, n)
    BY <1>1, <2>1, SubSeqOfConcat1
  <2> QED  BY <2>2, <2>3
<1> QED  BY <1>2, <1>3

\* The line under way at the end of a text.
LastEnd(text) == NthEnd(text, Newlines(text))
Rest(text) == From(text, LastEnd(text) + 1)
Finished(text) == [text |-> Chomped(Kept(text)), cut |-> IsCut(text)]
NthLine(text, n) == SubSeq(text, NthEnd(text, n - 1) + 1, NthEnd(text, n) - 1)

LEMMA ChompedType ==
    ASSUME NEW t \in Bytes
    PROVE  Chomped(t) \in Bytes
BY DEF Chomped, Bytes, Seqs!Front, Seqs!Last

LEMMA KeptFacts ==
    ASSUME NEW t \in Bytes
    PROVE  /\ Kept(t) \in Bytes /\ IsCut(t) \in BOOLEAN
           /\ Len(Kept(t)) = IF Len(t) < LineLimit THEN Len(t) ELSE LineLimit
           /\ Finished(t) \in Lines
<1>1. Len(t) \in Nat /\ LineLimit \in Nat
  BY DecoderAssumption DEF Bytes
<1>2. PICK n \in Nat : n = (IF Len(t) < LineLimit THEN Len(t) ELSE LineLimit)
  BY <1>1
<1>3. n <= Len(t) /\ n \in Int /\ 1 \in Nat \ {0}
  BY <1>1, <1>2
<1>4. Kept(t) = SubSeq(t, 1, n)
  BY <1>2 DEF Kept
<1>5. Kept(t) \in Bytes /\ Len(Kept(t)) = IF 1 <= n THEN n - 1 + 1 ELSE 0
  BY <1>3, <1>4, SliceType
<1>6. IsCut(t) \in BOOLEAN
  BY DEF IsCut
<1>7. Chomped(Kept(t)) \in Bytes
  BY <1>5, ChompedType
<1>8. Finished(t) \in Lines
  BY <1>6, <1>7 DEF Finished, Lines
<1> QED  BY <1>2, <1>5, <1>6, <1>8

\* The lines of a text lie within it, between one newline and the next.
LEMMA LinesFacts ==
    ASSUME NEW t \in Bytes
    PROVE  /\ LastEnd(t) \in 0 .. Len(t) /\ Rest(t) \in Bytes
           /\ \A n \in 1 .. Newlines(t) :
                 /\ NthEnd(t, n - 1) \in 0 .. Len(t) /\ NthEnd(t, n) \in 0 .. Len(t)
                 /\ NthLine(t, n) \in Bytes
           /\ LinesOf(t) = [n \in 1 .. Newlines(t) |-> Finished(NthLine(t, n))]
           /\ LinesOf(t) \in Seq(Lines) /\ Len(LinesOf(t)) = Newlines(t)
<1>1. Len(t) \in Nat /\ Newlines(t) \in Nat /\ Places(t) \subseteq 0 .. Len(t)
  BY EndsFinite
<1>2. ASSUME NEW n \in 0 .. Newlines(t) PROVE NthEnd(t, n) \in 0 .. Len(t)
  BY <1>1, NthEndExists
<1>3. LastEnd(t) \in 0 .. Len(t)
  BY <1>1, <1>2 DEF LastEnd
<1>4. Rest(t) \in Bytes
  <2>1. LastEnd(t) + 1 \in Nat \ {0} /\ Len(t) \in Int /\ Len(t) <= Len(t)
    BY <1>1, <1>3
  <2> QED  BY <2>1, SliceType DEF Rest, From
<1>5. ASSUME NEW n \in 1 .. Newlines(t)
      PROVE  /\ NthEnd(t, n - 1) \in 0 .. Len(t) /\ NthEnd(t, n) \in 0 .. Len(t)
             /\ NthLine(t, n) \in Bytes
  <2>1. NthEnd(t, n - 1) \in 0 .. Len(t) /\ NthEnd(t, n) \in 0 .. Len(t)
    <3>1. n - 1 \in 0 .. Newlines(t) /\ n \in 0 .. Newlines(t)
      BY <1>1
    <3> QED  BY <1>2, <3>1
  <2>2. /\ NthEnd(t, n - 1) + 1 \in Nat \ {0} /\ NthEnd(t, n) - 1 \in Int
        /\ NthEnd(t, n) - 1 <= Len(t)
    BY <1>1, <2>1
  <2> QED  BY <2>1, <2>2, SliceType DEF NthLine
<1>6. LinesOf(t) = [n \in 1 .. Newlines(t) |-> Finished(NthLine(t, n))]
  BY Zenon DEF LinesOf, Newlines, Finished, NthLine
<1>7. ASSUME NEW n \in 1 .. Newlines(t) PROVE Finished(NthLine(t, n)) \in Lines
  BY <1>5, KeptFacts
<1>8. LinesOf(t) \in [1 .. Newlines(t) -> Lines]
  BY <1>6, <1>7
<1>9. LinesOf(t) \in Seq(Lines) /\ Len(LinesOf(t)) = Newlines(t)
  BY <1>1, <1>8
<1> QED  BY <1>3, <1>4, <1>5, <1>6, <1>9

\* A byte that is no newline goes to the line under way; a newline finishes it.
LEMMA LinesOfAppend ==
    ASSUME NEW t \in Bytes, NEW b \in Alphabet
    PROVE  /\ b # NewLine => /\ LinesOf(Append(t, b)) = LinesOf(t)
                             /\ Rest(Append(t, b)) = Append(Rest(t), b)
           /\ b = NewLine => /\ LinesOf(Append(t, b)) = Append(LinesOf(t), Finished(Rest(t)))
                             /\ Rest(Append(t, b)) = <<>>
<1>1. PICK u \in Bytes : u = Append(t, b)
  BY EndsOfAppend
<1>2. /\ Len(u) = Len(t) + 1
      /\ Ends(u) = IF b = NewLine THEN Ends(t) \cup {Len(t) + 1} ELSE Ends(t)
      /\ Newlines(u) = IF b = NewLine THEN Newlines(t) + 1 ELSE Newlines(t)
      /\ Places(t) \subseteq Places(u)
      /\ \A i \in Places(t) : Count(u, i) = Count(t, i)
      /\ Count(u, Len(t) + 1) = Newlines(u)
  BY <1>1, EndsOfAppend
<1>3. Len(t) \in Nat /\ Newlines(t) \in Nat
  BY EndsFinite
<1>4. ASSUME NEW n \in 0 .. Newlines(t)
      PROVE  NthEnd(u, n) = NthEnd(t, n) /\ NthEnd(t, n) \in 0 .. Len(t)
  <2>1. NthEnd(t, n) \in Places(t) /\ Count(t, NthEnd(t, n)) = n
    BY NthEndExists
  <2>2. NthEnd(t, n) \in Places(u) /\ Count(u, NthEnd(t, n)) = n
    BY <1>2, <2>1
  <2> QED  BY <2>1, <2>2, NthEndIs, EndsFinite
<1>5. ASSUME NEW n \in 1 .. Newlines(t) PROVE NthLine(u, n) = NthLine(t, n)
  <2>1. n - 1 \in 0 .. Newlines(t) /\ n \in 0 .. Newlines(t)
    BY <1>3
  <2>2. PICK m \in Nat \ {0}, k \in Int : m = NthEnd(t, n - 1) + 1 /\ k = NthEnd(t, n) - 1 /\ k <= Len(t)
    BY <1>3, <1>4, <2>1
  <2>3. NthEnd(u, n - 1) = NthEnd(t, n - 1) /\ NthEnd(u, n) = NthEnd(t, n)
    BY <1>4, <2>1
  <2>4. SubSeq(u, m, k) = SubSeq(t, m, k)
    BY <1>1, <2>2, SliceOfAppend
  <2> QED  BY <2>2, <2>3, <2>4 DEF NthLine
<1>6. LastEnd(t) \in 0 .. Len(t) /\ LastEnd(t) = NthEnd(u, Newlines(t))
  BY <1>3, <1>4 DEF LastEnd
<1>7. LinesOf(t) = [n \in 1 .. Newlines(t) |-> Finished(NthLine(t, n))]
      /\ LinesOf(u) = [n \in 1 .. Newlines(u) |-> Finished(NthLine(u, n))]
  BY LinesFacts
<1>8. PICK m \in Nat \ {0} : m = LastEnd(t) + 1 /\ m <= Len(t) + 1
  BY <1>3, <1>6
<1>9. Rest(t) = SubSeq(t, m, Len(t)) /\ Rest(t) \in Seq(Alphabet)
  BY <1>8, LinesFacts DEF Rest, From, Bytes
<1>10. SubSeq(u, m, Len(t)) = SubSeq(t, m, Len(t))
  <2>1. Len(t) \in Int /\ Len(t) <= Len(t)
    BY <1>3
  <2> QED  BY <1>1, <1>8, <2>1, SliceOfAppend
<1>11. CASE b # NewLine
  <2>1. Newlines(u) = Newlines(t)
    BY <1>2, <1>11
  <2>2. LinesOf(u) = LinesOf(t)
    BY <1>5, <1>7, <2>1
  <2>3. Rest(u) = SubSeq(u, m, Len(u))
    BY <1>6, <1>8, <2>1 DEF Rest, From, LastEnd
  <2>4. SubSeq(u, m, Len(u)) = SubSeq(u, m, Len(u) - 1) \o <<u[Len(u)]>>
    <3>1. m \in 1 .. Len(u) /\ Len(u) \in m .. Len(u)
      BY <1>2, <1>3, <1>8
    <3> QED  BY <3>1, SubSeqRecursiveSecond DEF Bytes
  <2>5. Len(u) - 1 = Len(t) /\ u[Len(u)] = b
    BY <1>1, <1>2, <1>3, AppendProperties DEF Bytes
  <2>6. Append(Rest(t), b) = Rest(t) \o <<b>>
    BY <1>9, AppendIsConcat
  <2> QED  BY <1>1, <1>9, <1>10, <1>11, <2>2, <2>3, <2>4, <2>5, <2>6
<1>12. CASE b = NewLine
  <2>1. Newlines(u) = Newlines(t) + 1 /\ Len(t) + 1 \in Places(u)
    BY <1>2, <1>12 DEF Places
  <2>2. NthEnd(u, Newlines(u)) = Len(t) + 1
    BY <1>2, <2>1, NthEndIs
  <2>3. NthLine(u, Newlines(u)) = Rest(t)
    <3>1. Newlines(u) - 1 = Newlines(t) /\ (Len(t) + 1) - 1 = Len(t)
      BY <1>3, <2>1
    <3>2. NthEnd(u, Newlines(u) - 1) + 1 = m
      BY <1>6, <1>8, <3>1
    <3> QED  BY <1>9, <1>10, <2>2, <3>1, <3>2 DEF NthLine
  <2>4. PICK ls \in Seq(Lines) : ls = LinesOf(t)
    BY LinesFacts
  <2>5. PICK f \in Lines : f = Finished(Rest(t))
    BY LinesFacts, KeptFacts
  <2>6. PICK more \in Seq(Lines) : more = LinesOf(u)
    BY LinesFacts
  <2>7. more = Append(ls, f)
    <3>1. /\ Append(ls, f) \in Seq(Lines) /\ Len(Append(ls, f)) = Len(ls) + 1
          /\ \A i \in 1 .. Len(ls) : Append(ls, f)[i] = ls[i]
          /\ Append(ls, f)[Len(ls) + 1] = f
      BY AppendProperties
    <3>2. Len(ls) = Newlines(t) /\ Len(more) = Newlines(t) + 1
      BY <2>1, <2>4, <2>6, LinesFacts
    <3>3. ASSUME NEW i \in 1 .. Len(more) PROVE more[i] = Append(ls, f)[i]
      <4>1. CASE i \in 1 .. Newlines(t)
        <5>1. i \in 1 .. Newlines(u)
          BY <2>1, <3>2
        <5>2. more[i] = Finished(NthLine(u, i)) /\ ls[i] = Finished(NthLine(t, i))
          BY <1>7, <2>4, <2>6, <4>1, <5>1
        <5> QED  BY <1>5, <3>1, <3>2, <4>1, <5>2
      <4>2. CASE i = Newlines(t) + 1
        <5>1. i \in 1 .. Newlines(u) /\ i = Newlines(u)
          BY <1>3, <2>1, <4>2
        <5>2. more[i] = Finished(NthLine(u, i))
          BY <1>7, <2>6, <5>1
        <5>3. more[i] = f
          BY <2>3, <2>5, <5>1, <5>2
        <5> QED  BY <3>1, <3>2, <4>2, <5>3
      <4> QED  BY <1>3, <3>2, <4>1, <4>2
    <3>4. Len(more) = Len(Append(ls, f))
      BY <3>1, <3>2
    <3>5. \A s, r \in Seq(Lines) :
             Len(s) = Len(r) /\ (\A i \in 1 .. Len(s) : s[i] = r[i]) => s = r
      BY SeqEqual
    <3> QED  BY <3>1, <3>3, <3>4, <3>5
  <2>8. Rest(u) = <<>>
    <3>1. Rest(u) = SubSeq(u, Len(t) + 1 + 1, Len(t) + 1)
      BY <1>2, <2>2 DEF Rest, From, LastEnd
    <3>2. Len(t) + 1 < Len(t) + 1 + 1 /\ Len(t) + 1 \in Int /\ Len(t) + 1 + 1 \in Int
      BY <1>3
    <3> QED  BY <3>1, <3>2, SubSeqEmpty
  <2> QED  BY <1>1, <1>12, <2>4, <2>5, <2>6, <2>7, <2>8
<1> QED  BY <1>11, <1>12

Unfinished(text) == [text |-> Kept(Rest(text)), cut |-> IsCut(Rest(text))]
Pushed(text) == [line |-> Unfinished(text), out |-> LinesOf(text)]

\* Another byte of a line is kept while there is room.
LEMMA KeptOfAppend ==
    ASSUME NEW t \in Bytes, NEW b \in Alphabet
    PROVE  IF Len(Kept(t)) < LineLimit
           THEN /\ Kept(Append(t, b)) = Append(Kept(t), b)
                /\ IsCut(t) = FALSE /\ IsCut(Append(t, b)) = FALSE
           ELSE Kept(Append(t, b)) = Kept(t) /\ IsCut(Append(t, b)) = TRUE
<1>1. t \in Seq(Alphabet) /\ Len(t) \in Nat /\ LineLimit \in Nat
  BY DecoderAssumption DEF Bytes
<1>2. PICK u \in Bytes : u = Append(t, b)
  BY EndsOfAppend
<1>3. Len(u) = Len(t) + 1 /\ u[Len(u)] = b /\ u \in Seq(Alphabet)
  BY <1>1, <1>2, AppendProperties DEF Bytes
<1>4. Len(Kept(t)) = IF Len(t) < LineLimit THEN Len(t) ELSE LineLimit
  BY KeptFacts
<1>5. CASE Len(Kept(t)) < LineLimit
  <2>1. Len(t) < LineLimit
    BY <1>1, <1>4, <1>5
  <2>2. Kept(t) = t
    <3>1. Kept(t) = SubSeq(t, 1, Len(t))
      BY <2>1 DEF Kept
    <3> QED  BY <1>1, <3>1, SubSeqFull
  <2>3. Kept(u) = u
    <3>1. Kept(u) = SubSeq(u, 1, Len(u))
      BY <1>1, <1>3, <2>1 DEF Kept
    <3> QED  BY <1>3, <3>1, SubSeqFull
  <2>4. ~IsCut(t) /\ ~IsCut(u)
    BY <1>1, <1>3, <2>1 DEF IsCut
  <2>5. IsCut(t) \in BOOLEAN /\ IsCut(u) \in BOOLEAN
    BY DEF IsCut
  <2> QED  BY <1>2, <1>5, <2>2, <2>3, <2>4, <2>5
<1>6. CASE ~(Len(Kept(t)) < LineLimit)
  <2>1. LineLimit <= Len(t)
    BY <1>1, <1>4, <1>6
  <2>2. Kept(t) = SubSeq(t, 1, LineLimit)
    BY <1>1, <2>1 DEF Kept
  <2>3. Kept(u) = SubSeq(u, 1, LineLimit)
    BY <1>1, <1>3, <2>1 DEF Kept
  <2>4. SubSeq(u, 1, LineLimit) = SubSeq(t, 1, LineLimit)
    <3>1. 1 \in Nat \ {0} /\ LineLimit \in Int
      BY <1>1
    <3> QED  BY <1>2, <2>1, <3>1, SliceOfAppend
  <2>5. IsCut(u) /\ IsCut(u) \in BOOLEAN
    BY <1>1, <1>3, <2>1 DEF IsCut
  <2> QED  BY <1>2, <1>6, <2>2, <2>3, <2>4, <2>5
<1> QED  BY <1>5, <1>6

StateOf(x, c, o) == [line |-> [text |-> x, cut |-> c], out |-> o]

LEMMA PushByteFits ==
    ASSUME NEW x, NEW c, NEW o, NEW b, b # NewLine, Len(x) < LineLimit
    PROVE  PushByte(StateOf(x, c, o), b) = StateOf(Append(x, b), c, o)
<1>1. PICK s, y : s = StateOf(x, c, o) /\ y = [text |-> x, cut |-> c]
  OBVIOUS
<1>2. s = [line |-> y, out |-> o]
  BY <1>1 DEF StateOf
<1>3. s.line = y /\ y.text = x
  BY <1>1, <1>2
<1>4. PushByte(s, b) = [s EXCEPT !.line.text = Append(@, b)]
  BY <1>3, Zenon DEF PushByte
<1>5. [y EXCEPT !.text = Append(@, b)] = [text |-> Append(x, b), cut |-> c]
  BY <1>1
<1>6. PICK z : z = [y EXCEPT !.text = Append(@, b)]
  OBVIOUS
<1>7. [s EXCEPT !.line = z] = [line |-> z, out |-> o]
  BY <1>2
<1>8. PushByte(s, b) = [line |-> z, out |-> o]
  BY <1>3, <1>4, <1>6, <1>7, Zenon
<1> QED  BY <1>1, <1>5, <1>6, <1>8, Zenon DEF StateOf

CutStateOf(x, o) == [line |-> [text |-> x, cut |-> TRUE], out |-> o]

LEMMA PushByteCuts ==
    ASSUME NEW x, NEW c, NEW o, NEW b, b # NewLine, ~(Len(x) < LineLimit)
    PROVE  PushByte(StateOf(x, c, o), b) = CutStateOf(x, o)
<1>1. PICK s, y : s = StateOf(x, c, o) /\ y = [text |-> x, cut |-> c]
  OBVIOUS
<1>2. s = [line |-> y, out |-> o]
  BY <1>1 DEF StateOf
<1>3. s.line = y /\ y.text = x
  BY <1>1, <1>2
<1>0. PICK yes : yes = TRUE
  OBVIOUS
<1>4. PushByte(s, b) = [s EXCEPT !.line.cut = yes]
  BY <1>0, <1>3, Zenon DEF PushByte
<1>5. [y EXCEPT !.cut = yes] = [text |-> x, cut |-> yes]
  BY <1>1
<1>6. PICK z : z = [y EXCEPT !.cut = yes]
  OBVIOUS
<1>7. [s EXCEPT !.line = z] = [line |-> z, out |-> o]
  BY <1>2
<1>8. PushByte(s, b) = [line |-> z, out |-> o]
  BY <1>3, <1>4, <1>6, <1>7, Zenon
<1> QED  BY <1>0, <1>1, <1>5, <1>6, <1>8, Zenon DEF CutStateOf

\* Pushing a text byte by byte yields its lines.
LEMMA PushedLines == \A t \in Bytes : PushText(EmptyLine, t) = Pushed(t)
<1> DEFINE T == {t \in Bytes : PushText(EmptyLine, t) = Pushed(t)}
<1>1. <<>> \in T
  <2>1. <<>> \in Bytes /\ Len(<<>>) = 0
    BY DEF Bytes
  <2>2. PushText(EmptyLine, <<>>) = [line |-> EmptyLine, out |-> <<>>]
    BY PushTextEmpty
  <2>3. Newlines(<<>>) = 0
    <3>1. Ends(<<>>) = {}
      BY <2>1, EndsFinite
    <3> QED  BY <3>1, FS_EmptySet DEF Newlines
  <2>4. LinesOf(<<>>) = <<>>
    <3>1. LinesOf(<<>>) \in Seq(Lines) /\ Len(LinesOf(<<>>)) = 0
      BY <2>1, <2>3, LinesFacts
    <3> QED  BY <3>1, EmptySeq
  <2>5. Rest(<<>>) = <<>>
    <3>1. LastEnd(<<>>) \in 0 .. Len(<<>>)
      BY <2>1, LinesFacts
    <3>2. LastEnd(<<>>) = 0
      BY <2>1, <3>1
    <3>3. Rest(<<>>) = SubSeq(<<>>, 1, 0)
      BY <2>1, <3>2 DEF Rest, From
    <3> QED  BY <3>3, SubSeqEmpty
  <2>6. Kept(<<>>) = <<>> /\ IsCut(<<>>) = FALSE
    <3>1. LineLimit \in Nat
      BY DecoderAssumption
    <3>2. Kept(<<>>) = SubSeq(<<>>, 1, 0)
      BY <2>1, <3>1 DEF Kept
    <3> QED  BY <2>1, <3>1, <3>2, SubSeqEmpty DEF IsCut
  <2>7. Pushed(<<>>) = [line |-> EmptyLine, out |-> <<>>]
    BY <2>4, <2>5, <2>6, Zenon DEF Pushed, Unfinished, EmptyLine
  <2> QED  BY <2>1, <2>2, <2>7
<1>2. ASSUME NEW t \in Seq(Alphabet), NEW b \in Alphabet, t \in T PROVE Append(t, b) \in T
  <2>1. t \in Bytes /\ Append(t, b) \in Bytes
    BY DEF Bytes
  <2>2. PushText(EmptyLine, Append(t, b)) = PushByte(Pushed(t), b)
    BY <1>2, <2>1, PushTextAppend
  <2>3. PICK r \in Bytes : r = Rest(t)
    BY <2>1, LinesFacts
  <2>4. PICK ls \in Seq(Lines) : ls = LinesOf(t)
    BY <2>1, LinesFacts
  <2>5. Pushed(t) = [line |-> [text |-> Kept(r), cut |-> IsCut(r)], out |-> ls]
    BY <2>3, <2>4 DEF Pushed, Unfinished
  <2>6. CASE b = NewLine
    <3>1. PushByte(Pushed(t), b) = [line |-> EmptyLine, out |-> Append(ls, Finished(r))]
      BY <2>5, <2>6 DEF PushByte, Finished
    <3>2. LinesOf(Append(t, b)) = Append(ls, Finished(r)) /\ Rest(Append(t, b)) = <<>>
      BY <2>1, <2>3, <2>4, <2>6, LinesOfAppend
    <3>3. Kept(<<>>) = <<>> /\ IsCut(<<>>) = FALSE
      <4>1. LineLimit \in Nat /\ Len(<<>>) = 0
        BY DecoderAssumption
      <4>2. Kept(<<>>) = SubSeq(<<>>, 1, 0)
        BY <4>1 DEF Kept
      <4> QED  BY <4>1, <4>2, SubSeqEmpty DEF IsCut
    <3>4. Pushed(Append(t, b)) = [line |-> EmptyLine, out |-> Append(ls, Finished(r))]
      BY <3>2, <3>3, Zenon DEF Pushed, Unfinished, EmptyLine
    <3> QED  BY <2>1, <2>2, <3>1, <3>4
  <2>7. CASE b # NewLine
    <3>1. LinesOf(Append(t, b)) = ls /\ Rest(Append(t, b)) = Append(r, b)
      BY <2>1, <2>3, <2>4, <2>7, LinesOfAppend
    <3>2. Pushed(Append(t, b)) = [line |-> [text |-> Kept(Append(r, b)), cut |-> IsCut(Append(r, b))],
                                  out |-> ls]
      BY <3>1, Zenon DEF Pushed, Unfinished
    <3>3. CASE Len(Kept(r)) < LineLimit
      <4>1. PushByte(Pushed(t), b) = [line |-> [text |-> Append(Kept(r), b), cut |-> IsCut(r)], out |-> ls]
        <5>1. Pushed(t) = StateOf(Kept(r), IsCut(r), ls)
          BY <2>5 DEF StateOf
        <5>2. PushByte(Pushed(t), b) = StateOf(Append(Kept(r), b), IsCut(r), ls)
          <6>1. PICK x, c : x = Kept(r) /\ c = IsCut(r)
            OBVIOUS
          <6>2. Len(x) < LineLimit
            BY <3>3, <6>1
          <6>3. PushByte(StateOf(x, c, ls), b) = StateOf(Append(x, b), c, ls)
            BY <2>7, <6>2, PushByteFits
          <6> QED  BY <5>1, <6>1, <6>3, Zenon
        <5> QED  BY <5>2, Zenon DEF StateOf
      <4>2. Kept(Append(r, b)) = Append(Kept(r), b) /\ IsCut(r) = FALSE /\ IsCut(Append(r, b)) = FALSE
        BY <3>3, KeptOfAppend
      <4> QED  BY <2>1, <2>2, <3>2, <4>1, <4>2
    <3>4. CASE ~(Len(Kept(r)) < LineLimit)
      <4>1. PushByte(Pushed(t), b) = [line |-> [text |-> Kept(r), cut |-> TRUE], out |-> ls]
        <5>1. Pushed(t) = StateOf(Kept(r), IsCut(r), ls)
          BY <2>5 DEF StateOf
        <5>2. PushByte(Pushed(t), b) = CutStateOf(Kept(r), ls)
          <6>1. PICK x, c : x = Kept(r) /\ c = IsCut(r)
            OBVIOUS
          <6>2. ~(Len(x) < LineLimit)
            BY <3>4, <6>1
          <6>3. PushByte(StateOf(x, c, ls), b) = CutStateOf(x, ls)
            BY <2>7, <6>1, <6>2, PushByteCuts
          <6> QED  BY <5>1, <6>1, <6>3, Zenon
        <5> QED  BY <5>2, Zenon DEF CutStateOf
      <4>2. Kept(Append(r, b)) = Kept(r) /\ IsCut(Append(r, b)) = TRUE
        BY <3>4, KeptOfAppend
      <4> QED  BY <2>1, <2>2, <3>2, <4>1, <4>2
    <3> QED  BY <3>3, <3>4
  <2> QED  BY <2>6, <2>7
<1>3. Seq(Alphabet) \subseteq T
  <2> HIDE DEF T
  <2> QED  BY <1>1, <1>2, SequenceInduction
<1> QED  BY <1>3 DEF Bytes

-----------------------------------------------------------------------------
(* Push and FinishDecoding. *)

\* More text adds to the lines of what there was.
LEMMA PushedConcat ==
    ASSUME NEW t \in Bytes, NEW u \in Bytes
    PROVE  /\ Unfinished(t) \in Lines /\ LinesOf(t) \in Seq(Lines)
           /\ PushText(Unfinished(t), u) \in States
           /\ Unfinished(t \o u) = PushText(Unfinished(t), u).line
           /\ LinesOf(t \o u) = LinesOf(t) \o PushText(Unfinished(t), u).out
<1>1. PICK x : x = Unfinished(t)
  OBVIOUS
<1>2. PICK o : o = LinesOf(t)
  OBVIOUS
<1>3. PICK q : q = PushText(x, u)
  OBVIOUS
<1>4. PushText(EmptyLine, t) = [line |-> x, out |-> o]
  BY <1>1, <1>2, PushedLines DEF Pushed
<1>5. t \o u \in Bytes /\ EmptyLine \in Lines
  BY DEF Bytes, EmptyLine, Lines
<1>6. PushText(EmptyLine, t).line = x /\ PushText(EmptyLine, t).out = o
  BY <1>4
<1>7. PushText(EmptyLine, t \o u) = [line |-> q.line, out |-> o \o q.out]
  <2>1. LET p == PushText(EmptyLine, t)
            r == PushText(p.line, u)
        IN PushText(EmptyLine, t \o u) = [line |-> r.line, out |-> p.out \o r.out]
    BY <1>5, PushTextConcat
  <2> QED  BY <1>3, <1>6, <2>1, Zenon
<1>8. [line |-> Unfinished(t \o u), out |-> LinesOf(t \o u)] = [line |-> q.line, out |-> o \o q.out]
  BY <1>5, <1>7, PushedLines DEF Pushed
<1>9. Unfinished(t \o u) = q.line /\ LinesOf(t \o u) = o \o q.out
  <2>1. PICK a, b, c, d : a = Unfinished(t \o u) /\ b = LinesOf(t \o u) /\ c = q.line /\ d = o \o q.out
    OBVIOUS
  <2>2. [line |-> a, out |-> b] = [line |-> c, out |-> d]
    BY <1>8, <2>1, Zenon
  <2>3. a = c /\ b = d
    BY <2>2
  <2> QED  BY <2>1, <2>3, Zenon
<1>10. PushText(EmptyLine, t) \in States
  BY <1>5, PushTextType
<1>11. x \in Lines /\ o \in Seq(Lines)
  BY <1>4, <1>10 DEF States
<1>12. q \in States
  BY <1>3, <1>11, PushTextType
<1> QED  BY <1>1, <1>2, <1>3, <1>9, <1>11, <1>12, Zenon

\* The lines of a text are a prefix of those of a longer one.
LEMMA LinesArePrefix ==
    ASSUME NEW t \in Bytes, NEW u \in Bytes
    PROVE  Seqs!IsPrefix(LinesOf(t), LinesOf(t \o u))
<1>1. PICK o \in Seq(Lines) : o = LinesOf(t)
  BY PushedConcat
<1>2. PICK more \in Seq(Lines) : more = PushText(Unfinished(t), u).out
  BY PushedConcat DEF States
<1>3. LinesOf(t \o u) = o \o more
  BY <1>1, <1>2, PushedConcat
<1>4. Len(o) <= Len(o \o more)
  OBVIOUS
<1>5. SubSeq(o, 1, Len(o)) = o
  BY SMT
<1>6. SubSeq(o \o more, 1, Len(o)) = o
  <2>1. o \o more \in Seq(Lines)
    OBVIOUS
  <2>2. PICK w \in Seq(Lines) : w = o \o more
    BY <2>1
  <2>3. Len(o) \in Nat /\ Len(o) <= Len(w) /\ \A i \in 1 .. Len(o) : w[i] = o[i]
    BY <2>2
  <2>4. PICK v : v = SubSeq(w, 1, Len(o))
    OBVIOUS
  <2>5. v \in Seq(Lines) /\ Len(v) = Len(o) /\ \A i \in 1 .. Len(o) : v[i] = w[i]
    BY <2>3, <2>4
  <2>6. v = o
    BY <2>3, <2>5, SeqEqual
  <2> QED  BY <2>2, <2>4, <2>6
<1> QED  BY <1>1, <1>3, <1>4, <1>5, <1>6, Zenon DEF Seqs!IsPrefix

\* What is unfinished is nothing just when no byte follows the last newline.
LEMMA UnfinishedIs ==
    ASSUME NEW t \in Bytes
    PROVE  UnfinishedOf(t) = IF Unfinished(t) = EmptyLine THEN <<>> ELSE <<Unfinished(t)>>
<1>1. PICK r \in Bytes : r = Rest(t)
  BY LinesFacts
<1>2. LineLimit \in Nat /\ Len(r) \in Nat
  BY DecoderAssumption DEF Bytes
<1>3. UnfinishedOf(t) = IF r = <<>> THEN <<>> ELSE <<[text |-> Kept(r), cut |-> IsCut(r)]>>
  BY <1>1, Zenon DEF UnfinishedOf, Rest, LastEnd, Newlines
<1>4. Unfinished(t) = [text |-> Kept(r), cut |-> IsCut(r)]
  BY <1>1 DEF Unfinished
<1>5. Len(Kept(r)) = IF Len(r) < LineLimit THEN Len(r) ELSE LineLimit
  BY KeptFacts
<1>6. ASSUME r = <<>> PROVE Unfinished(t) = EmptyLine
  <2>1. Len(r) = 0 /\ Len(Kept(r)) = 0 /\ Kept(r) \in Bytes
    BY <1>2, <1>5, <1>6, KeptFacts
  <2>2. Kept(r) = <<>>
    BY <2>1, EmptySeq DEF Bytes
  <2>3. IsCut(r) = FALSE
    BY <1>2, <2>1 DEF IsCut
  <2> QED  BY <1>4, <2>2, <2>3, Zenon DEF EmptyLine
<1>7. ASSUME Unfinished(t) = EmptyLine PROVE r = <<>>
  <2>1. PICK x, c : x = Kept(r) /\ c = IsCut(r)
    OBVIOUS
  <2>2. [text |-> x, cut |-> c] = [text |-> <<>>, cut |-> FALSE]
    BY <1>4, <1>7, <2>1, Zenon DEF EmptyLine
  <2>3. x = <<>> /\ c = FALSE
    BY <2>2
  <2>4. Len(Kept(r)) = 0
    BY <2>1, <2>3
  <2>5. ~(Len(r) > LineLimit)
    BY <2>1, <2>3 DEF IsCut
  <2>6. Len(r) = 0
    BY <1>2, <1>5, <2>4, <2>5
  <2> QED  BY <2>6, EmptySeq DEF Bytes
<1> QED  BY <1>3, <1>4, <1>6, <1>7, Zenon

\* The text whose lines were returned, but for what is unfinished.
Carried == IF decoder.mode = "unknown" THEN <<>> ELSE TextOf(fed)

\* What the decoder has made of the bytes it was given.
Decoded ==
    /\ decoder.mode = "unknown" => Len(fed) < HeaderSize /\ decoder.pending = fed
    /\ decoder.mode = "raw" => Len(fed) >= HeaderSize /\ ~IsHeader(fed) /\ decoder.pending = <<>>
    /\ decoder.mode = "multiplexed" =>
          IsHeader(fed) /\ Frames[fed].ok /\ decoder.pending = Frames[fed].rest
    /\ decoder.line = Unfinished(Carried)
    /\ lines = LinesOf(Carried)

\* Up to an error or the end, what was fed is the text whose lines were returned,
\* the line that is not finished, and the bytes not yet decoded.
DecoderIInv ==
    /\ DecoderTypeOK
    /\ result = "ok" => Decoded
    /\ result # "ok" => LinesAreWhole

LEMMA TextOfType == ASSUME NEW t \in Bytes PROVE TextOf(t) \in Bytes
<1>1. Frames[t] \in FrameSets
  BY FramesType
<1> QED  BY <1>1 DEF TextOf, FrameSets

LEMMA CarriedType == ASSUME DecoderTypeOK PROVE Carried \in Bytes
<1>1. <<>> \in Bytes /\ fed \in Bytes
  BY DEF Bytes, DecoderTypeOK
<1> QED  BY <1>1, TextOfType DEF Carried

\* The mode that a chunk is decoded in, and the text it adds to what is carried.
ModeWith(chunk) ==
    IF decoder.mode = "unknown" THEN ModeOf(decoder.pending \o chunk) ELSE decoder.mode
TextIn(mode, bytes) ==
    CASE mode = "unknown" -> <<>> [] mode = "raw" -> bytes [] mode = "multiplexed" -> Frames[bytes].payload
RestIn(mode, bytes) ==
    CASE mode = "unknown" -> bytes [] mode = "raw" -> <<>> [] mode = "multiplexed" -> Frames[bytes].rest

\* Every chunk goes on with the text of the body.
LEMMA TextGoesOn ==
    ASSUME DecoderTypeOK, Decoded, NEW chunk \in Bytes
    PROVE  LET bytes == decoder.pending \o chunk
               all == fed \o chunk
               mode == ModeWith(chunk)
               text == TextIn(mode, bytes)
           IN /\ all \in Bytes /\ bytes \in Bytes
              /\ mode \in {"unknown", "raw", "multiplexed"}
              /\ text \in Bytes /\ RestIn(mode, bytes) \in Bytes
              /\ (IF mode = "unknown" THEN <<>> ELSE TextOf(all)) = Carried \o text
              /\ mode = "unknown" => Len(all) < HeaderSize /\ bytes = all
              /\ mode = "raw" => Len(all) >= HeaderSize /\ ~IsHeader(all)
              /\ mode = "multiplexed" =>
                    /\ IsHeader(all)
                    /\ Frames[all].ok = Frames[bytes].ok
                    /\ Frames[all].rest = Frames[bytes].rest
<1> DEFINE bytes == decoder.pending \o chunk
           all == fed \o chunk
           mode == ModeWith(chunk)
           text == TextIn(mode, bytes)
<1>1. fed \in Bytes /\ decoder.pending \in Bytes /\ decoder.mode \in {"unknown", "raw", "multiplexed"}
  BY DEF DecoderTypeOK
<1>2. all \in Bytes /\ bytes \in Bytes /\ Len(all) = Len(fed) + Len(chunk)
      /\ Len(all) \in Nat /\ Len(fed) \in Nat /\ Len(chunk) \in Nat
  BY <1>1 DEF Bytes
<1>3. mode \in {"unknown", "raw", "multiplexed"}
  BY <1>1 DEF ModeWith, ModeOf
<1>4. Frames[bytes] \in FrameSets /\ <<>> \in Bytes
  <2>1. PICK b \in Bytes : b = bytes
    BY <1>2
  <2>2. Frames[b] \in FrameSets
    BY <2>1, FramesType, Zenon
  <2>3. <<>> \in Bytes
    BY DEF Bytes
  <2> QED  BY <2>1, <2>2, <2>3, Zenon
<1>5. text \in Bytes /\ RestIn(mode, bytes) \in Bytes
  BY <1>2, <1>3, <1>4 DEF TextIn, RestIn, FrameSets
<1>6. ASSUME NEW t \in Bytes PROVE t \o <<>> = t /\ <<>> \o t = t
  BY <1>6, ConcatEmptySeq DEF Bytes
<1>7. CASE decoder.mode = "unknown"
  <2>1. bytes = all /\ mode = ModeOf(all) /\ Carried = <<>>
    BY <1>7 DEF Decoded, ModeWith, Carried
  <2>2. Carried \o text = text
    BY <1>5, <1>6, <2>1
  <2>3. mode = "unknown" => Len(all) < HeaderSize
    BY <2>1 DEF ModeOf, Undecided
  <2>4. mode = "raw" => Len(all) >= HeaderSize /\ ~IsHeader(all)
    BY <1>2, <2>1 DEF ModeOf, Undecided, HeaderSize
  <2>5. mode = "multiplexed" => IsHeader(all)
    BY <2>1 DEF ModeOf
  <2>6. (IF mode = "unknown" THEN <<>> ELSE TextOf(all)) = text
    BY <1>3, <2>1, <2>4, <2>5 DEF TextOf, TextIn
  <2> QED  BY <1>2, <1>3, <1>5, <2>1, <2>2, <2>3, <2>4, <2>5, <2>6
<1>8. ASSUME Len(fed) >= HeaderSize PROVE Len(all) >= HeaderSize /\ (IsHeader(all) <=> IsHeader(fed))
  <2>1. fed \in Seq(Alphabet) /\ chunk \in Seq(Alphabet) /\ 1 <= Len(fed)
    BY <1>1, <1>2, <1>8 DEF HeaderSize, Bytes
  <2>2. all[1] = fed[1]
    BY <1>2, <2>1, ConcatProperties
  <2> QED  BY <1>2, <1>8, <2>2 DEF IsHeader, HeaderSize
<1>9. CASE decoder.mode = "raw"
  <2>1. mode = "raw" /\ Carried = fed /\ Len(fed) >= HeaderSize /\ ~IsHeader(fed)
    BY <1>9 DEF Decoded, ModeWith, Carried, TextOf
  <2>2. bytes = chunk
    BY <1>6, <1>9 DEF Decoded
  <2>3. TextOf(all) = all
    BY <1>8, <2>1 DEF TextOf
  <2>4. text = chunk
    BY <2>1, <2>2 DEF TextIn
  <2> QED  BY <1>2, <1>3, <1>5, <1>8, <2>1, <2>3, <2>4
<1>10. CASE decoder.mode = "multiplexed"
  <2>1. mode = "multiplexed" /\ Carried = Frames[fed].payload /\ IsHeader(fed)
    BY <1>10 DEF Decoded, ModeWith, Carried, TextOf
  <2>2. Len(fed) >= HeaderSize
    BY <2>1 DEF IsHeader
  <2>3. IsHeader(all)
    BY <1>8, <2>1, <2>2
  <2>4. bytes = Frames[fed].rest \o chunk /\ Frames[fed].ok
    BY <1>10 DEF Decoded
  <2>5. Frames[all] = [Frames[bytes] EXCEPT !.payload = Frames[fed].payload \o @]
    <3>1. Frames[fed \o chunk] =
             [Frames[Frames[fed].rest \o chunk] EXCEPT !.payload = Frames[fed].payload \o @]
      BY <1>1, <2>4, FramesConcat
    <3> QED  BY <2>4, <3>1, Zenon
  <2>6. PICK f \in FrameSets : f = Frames[bytes]
    BY <1>4
  <2>7. PICK g : g = Frames[fed].payload \o f.payload
    OBVIOUS
  <2>8. Frames[all] = [f EXCEPT !.payload = g]
    BY <2>5, <2>6, <2>7
  <2>9. Frames[all].payload = g /\ Frames[all].ok = f.ok /\ Frames[all].rest = f.rest
    BY <2>6, <2>8 DEF FrameSets
  <2>10. text = f.payload
    BY <2>1, <2>6 DEF TextIn
  <2>11. TextOf(all) = Carried \o text
    BY <2>1, <2>3, <2>6, <2>7, <2>9, <2>10, Zenon DEF TextOf
  <2> QED  BY <1>2, <1>3, <1>5, <2>1, <2>3, <2>6, <2>9, <2>11
<1> QED  BY <1>1, <1>7, <1>9, <1>10

\* A chunk, decoded or refused.
LEMMA PushPreserves ==
    ASSUME DecoderIInv, NEW chunk \in Bytes, Len(fed) + Len(chunk) <= MaxBytes, Push(chunk)
    PROVE  DecoderIInv'
<1>0. DecoderTypeOK /\ Decoded /\ result = "ok" /\ fed' = fed \o chunk
  BY DEF DecoderIInv, Push
<1>1. PICK b : b = decoder.pending \o chunk
  OBVIOUS
<1>2. PICK all : all = fed \o chunk
  OBVIOUS
<1>3. PICK m : m = ModeWith(chunk)
  OBVIOUS
<1>4. PICK text : text = TextIn(m, b)
  OBVIOUS
<1>5. PICK rest : rest = RestIn(m, b)
  OBVIOUS
<1>6. /\ all \in Bytes /\ b \in Bytes
      /\ m \in {"unknown", "raw", "multiplexed"}
      /\ text \in Bytes /\ rest \in Bytes
      /\ (IF m = "unknown" THEN <<>> ELSE TextOf(all)) = Carried \o text
      /\ m = "unknown" => Len(all) < HeaderSize /\ b = all
      /\ m = "raw" => Len(all) >= HeaderSize /\ ~IsHeader(all)
      /\ m = "multiplexed" =>
            IsHeader(all) /\ Frames[all].ok = Frames[b].ok /\ Frames[all].rest = Frames[b].rest
  BY <1>0, <1>1, <1>2, <1>3, <1>4, <1>5, TextGoesOn, Zenon
<1>7. PICK c \in Bytes : c = Carried
  BY <1>0, CarriedType
<1>8. Unfinished(c) \in Lines /\ LinesOf(c) \in Seq(Lines)
      /\ PushText(Unfinished(c), text) \in States
      /\ Unfinished(c \o text) = PushText(Unfinished(c), text).line
      /\ LinesOf(c \o text) = LinesOf(c) \o PushText(Unfinished(c), text).out
  BY <1>6, PushedConcat, Zenon
<1>9. decoder.line = Unfinished(c) /\ lines = LinesOf(c)
  BY <1>0, <1>7 DEF Decoded
<1>10. PICK q : q = PushText(decoder.line, text)
  OBVIOUS
<1>11. fed' \in Bytes /\ Len(fed') <= MaxBytes /\ fed' = all
  <2>1. Len(fed \o chunk) = Len(fed) + Len(chunk)
    BY <1>0 DEF DecoderTypeOK, Bytes
  <2> QED  BY <1>0, <1>2, <1>6, <2>1
<1>12. \/ Reject
       \/ /\ m = "multiplexed" => Frames[b].ok
          /\ decoder' = [mode |-> m, pending |-> rest, line |-> q.line]
          /\ lines' = lines \o q.out /\ result' = result
  <2>1. m = IF decoder.mode = "unknown" THEN ModeOf(b) ELSE decoder.mode
    BY <1>1, <1>3 DEF ModeWith
  <2>2. Decode(m, b) = [decoder |-> [mode |-> m, pending |-> rest, line |-> q.line],
                        out |-> q.out, ok |-> m = "multiplexed" => Frames[b].ok]
    BY <1>4, <1>5, <1>10, Zenon DEF Decode, TextIn, RestIn
  <2>3. PICK d, dd, o : d = Decode(m, b) /\ o = q.out
                        /\ dd = [mode |-> m, pending |-> rest, line |-> q.line]
    OBVIOUS
  <2>4. d = [decoder |-> dd, out |-> o, ok |-> m = "multiplexed" => Frames[b].ok]
    BY <2>2, <2>3, Zenon
  <2>5. d.decoder = dd /\ d.out = o /\ (d.ok = (m = "multiplexed" => Frames[b].ok))
    BY <2>4
  <2>6. \/ Reject
        \/ d.ok /\ decoder' = d.decoder /\ lines' = lines \o d.out /\ UNCHANGED result
    BY <1>1, <2>1, <2>3, Zenon DEF Push
  <2> QED  BY <2>3, <2>5, <2>6, Zenon
<1>13. CASE Reject
  <2>1. result' = "error" /\ decoder' = decoder /\ lines' = lines
    BY <1>13 DEF Reject
  <2>2. DecoderTypeOK'
    BY <1>0, <1>11, <2>1 DEF DecoderTypeOK
  <2>3. Seqs!IsPrefix(lines, LinesOf(TextOf(all)))
    <3>1. PICK u \in Bytes : TextOf(all) = c \o u
      <4>1. CASE m = "unknown"
        <5>1. c = <<>>
          BY <1>0, <1>3, <1>7, <4>1 DEF ModeWith, Carried
        <5>2. TextOf(all) \in Bytes
          BY <1>6, TextOfType
        <5>3. c \o TextOf(all) = TextOf(all)
          BY <5>1, <5>2, ConcatEmptySeq DEF Bytes
        <5> QED  BY <5>2, <5>3
      <4>2. CASE m # "unknown"
        <5>1. TextOf(all) = c \o text
          BY <1>6, <1>7, <4>2
        <5> QED  BY <1>6, <5>1
      <4> QED  BY <4>1, <4>2
    <3>2. Seqs!IsPrefix(LinesOf(c), LinesOf(c \o u))
      BY LinesArePrefix
    <3> QED  BY <1>9, <3>1, <3>2
  <2>4. LinesAreWhole'
    BY <1>11, <2>1, <2>3 DEF LinesAreWhole
  <2> QED  BY <2>1, <2>2, <2>4 DEF DecoderIInv
<1>14. CASE /\ m = "multiplexed" => Frames[b].ok
            /\ decoder' = [mode |-> m, pending |-> rest, line |-> q.line]
            /\ lines' = lines \o q.out /\ result' = result
  <2>1. q \in States /\ q.line \in Lines /\ q.out \in Seq(Lines)
    BY <1>8, <1>9, <1>10 DEF States
  <2>2. decoder'.mode = m /\ decoder'.pending = rest /\ decoder'.line = q.line
        /\ decoder' \in [mode : {"unknown", "raw", "multiplexed"}, pending : Bytes, line : Lines]
    BY <1>6, <1>14, <2>1
  <2>3. DecoderTypeOK'
    BY <1>0, <1>8, <1>9, <1>11, <1>14, <2>1, <2>2 DEF DecoderTypeOK
  <2>4. Carried' = c \o text
    BY <1>6, <1>7, <1>11, <2>2 DEF Carried
  <2>5. decoder'.line = Unfinished(Carried') /\ lines' = LinesOf(Carried')
    BY <1>8, <1>9, <1>10, <1>14, <2>2, <2>4, Zenon
  <2>6. m = "unknown" => rest = b
    BY <1>5 DEF RestIn
  <2>7. m = "raw" => rest = <<>>
    BY <1>5 DEF RestIn
  <2>8. m = "multiplexed" => rest = Frames[b].rest
    BY <1>5 DEF RestIn
  <2>9. Decoded'
    BY <1>6, <1>11, <1>14, <2>2, <2>5, <2>6, <2>7, <2>8, Zenon DEF Decoded
  <2> QED  BY <1>0, <1>14, <2>3, <2>9 DEF DecoderIInv
<1> QED  BY <1>12, <1>13, <1>14

\* The end of the body.
LEMMA FinishPreserves ==
    ASSUME DecoderIInv, FinishDecoding
    PROVE  DecoderIInv'
<1>0. DecoderTypeOK /\ Decoded /\ result = "ok" /\ fed' = fed
  BY DEF DecoderIInv, FinishDecoding
<1>1. fed \in Bytes /\ Len(fed) \in Nat /\ Len(fed) <= MaxBytes
  BY <1>0 DEF DecoderTypeOK, Bytes
<1>2. PICK p \in Bytes : p = decoder.pending
  BY <1>0 DEF DecoderTypeOK
<1>3. PICK c \in Bytes : c = Carried
  BY <1>0, CarriedType
<1>4. decoder.line = Unfinished(c) /\ lines = LinesOf(c)
  BY <1>0, <1>3 DEF Decoded
<1>5. PICK q : q = PushText(decoder.line, p)
  OBVIOUS
<1>6. Unfinished(c) \in Lines /\ LinesOf(c) \in Seq(Lines)
      /\ PushText(Unfinished(c), p) \in States
      /\ Unfinished(c \o p) = PushText(Unfinished(c), p).line
      /\ LinesOf(c \o p) = LinesOf(c) \o PushText(Unfinished(c), p).out
  BY PushedConcat, Zenon
<1>7. q \in States /\ q.line \in Lines /\ q.out \in Seq(Lines)
  BY <1>4, <1>5, <1>6 DEF States
<1>8. CASE decoder.mode = "multiplexed" /\ p # <<>>
  <2>1. result' = "error" /\ decoder' = decoder /\ lines' = lines
    BY <1>2, <1>8 DEF FinishDecoding, Reject
  <2>2. DecoderTypeOK'
    BY <1>0, <2>1 DEF DecoderTypeOK
  <2>3. TextOf(fed) = c \o <<>>
    BY <1>3, <1>8, ConcatEmptySeq DEF Carried, Bytes
  <2>4. Seqs!IsPrefix(LinesOf(c), LinesOf(c \o <<>>))
    <3>1. <<>> \in Bytes
      BY DEF Bytes
    <3> QED  BY <3>1, LinesArePrefix
  <2>5. LinesAreWhole'
    BY <1>0, <1>4, <2>1, <2>3, <2>4 DEF LinesAreWhole
  <2> QED  BY <2>1, <2>2, <2>5 DEF DecoderIInv
<1>9. CASE ~(decoder.mode = "multiplexed" /\ p # <<>>)
  <2>1. Decode("raw", p) = [decoder |-> [mode |-> "raw", pending |-> <<>>, line |-> q.line],
                            out |-> q.out, ok |-> TRUE]
    BY <1>5 DEF Decode
  <2>2. PICK d, dd, o : d = Decode("raw", p) /\ o = q.out
                        /\ dd = [mode |-> "raw", pending |-> <<>>, line |-> q.line]
    OBVIOUS
  <2>3. d.decoder = dd /\ d.out = o
    BY <2>1, <2>2
  <2>4. dd.line = q.line /\ [dd EXCEPT !.line = EmptyLine] = [mode |-> "raw", pending |-> <<>>, line |-> EmptyLine]
    BY <2>2
  <2>5. /\ decoder' = [d.decoder EXCEPT !.line = EmptyLine]
        /\ lines' = lines \o d.out \o
              (IF d.decoder.line = EmptyLine THEN <<>> ELSE <<d.decoder.line>>)
        /\ result' = "end"
    BY <1>2, <1>9, <2>2, Zenon DEF FinishDecoding
  <2>6. /\ decoder' = [mode |-> "raw", pending |-> <<>>, line |-> EmptyLine]
        /\ lines' = lines \o q.out \o (IF q.line = EmptyLine THEN <<>> ELSE <<q.line>>)
        /\ result' = "end"
    BY <2>2, <2>3, <2>4, <2>5, Zenon
  <2>7. PICK last : last = IF q.line = EmptyLine THEN <<>> ELSE <<q.line>>
    OBVIOUS
  <2>8. last \in Seq(Lines)
    BY <1>7, <2>7
  <2>9. DecoderTypeOK'
    <3>1. EmptyLine \in Lines /\ <<>> \in Bytes
      BY DEF EmptyLine, Lines, Bytes
    <3>2. decoder' \in [mode : {"unknown", "raw", "multiplexed"}, pending : Bytes, line : Lines]
      BY <2>6, <3>1
    <3>3. lines' \in Seq(Lines)
      BY <1>4, <1>6, <1>7, <2>6, <2>7, <2>8
    <3> QED  BY <1>0, <1>1, <2>6, <3>2, <3>3 DEF DecoderTypeOK
  <2>10. c \o p = TextOf(fed)
    <3>1. CASE decoder.mode = "unknown"
      <4>1. c = <<>> /\ p = fed /\ Len(fed) < HeaderSize
        BY <1>0, <1>2, <1>3, <3>1 DEF Decoded, Carried
      <4>2. TextOf(fed) = fed
        BY <1>1, <4>1 DEF TextOf, IsHeader, HeaderSize
      <4> QED  BY <1>1, <4>1, <4>2, ConcatEmptySeq DEF Bytes
    <3>2. CASE decoder.mode # "unknown"
      <4>1. c = TextOf(fed)
        BY <1>3, <3>2 DEF Carried
      <4>2. p = <<>>
        BY <1>0, <1>2, <1>9, <3>2 DEF Decoded, DecoderTypeOK
      <4> QED  BY <4>1, <4>2, ConcatEmptySeq DEF Bytes
    <3> QED  BY <3>1, <3>2
  <2>11. PICK t \in Bytes : t = TextOf(fed)
    BY <1>1, TextOfType
  <2>12. q.line = Unfinished(t) /\ lines \o q.out = LinesOf(t)
    BY <1>4, <1>5, <1>6, <2>10, <2>11, Zenon
  <2>13. last = UnfinishedOf(t)
    BY <2>7, <2>12, UnfinishedIs, Zenon
  <2>14. lines' = LinesOf(t) \o UnfinishedOf(t)
    BY <2>6, <2>7, <2>12, <2>13, Zenon
  <2>15. LinesAreWhole'
    BY <1>0, <2>6, <2>11, <2>14 DEF LinesAreWhole
  <2> QED  BY <2>6, <2>9, <2>15 DEF DecoderIInv
<1> QED  BY <1>8, <1>9

LEMMA DecoderInitial == DecoderInit => DecoderIInv
<1> SUFFICES ASSUME DecoderInit PROVE DecoderIInv
  OBVIOUS
<1>1. <<>> \in Bytes /\ Len(<<>>) = 0 /\ <<>> \in Seq(Lines) /\ EmptyLine \in Lines /\ MaxBytes \in Nat
  BY DecoderAssumption DEF Bytes, EmptyLine, Lines
<1>2. decoder.mode = "unknown" /\ decoder.pending = <<>> /\ decoder.line = EmptyLine
      /\ decoder \in [mode : {"unknown", "raw", "multiplexed"}, pending : Bytes, line : Lines]
  BY <1>1 DEF DecoderInit
<1>3. DecoderTypeOK
  BY <1>1, <1>2 DEF DecoderInit, DecoderTypeOK
<1>4. Carried = <<>>
  BY <1>2 DEF Carried
<1>5. PushText(EmptyLine, <<>>) = [line |-> EmptyLine, out |-> <<>>]
  BY PushTextEmpty
<1>6. [line |-> Unfinished(<<>>), out |-> LinesOf(<<>>)] = [line |-> EmptyLine, out |-> <<>>]
  BY <1>1, <1>5, PushedLines DEF Pushed
<1>7. Unfinished(<<>>) = EmptyLine /\ LinesOf(<<>>) = <<>>
  BY <1>6
<1>8. Decoded
  BY <1>1, <1>2, <1>4, <1>7 DEF DecoderInit, Decoded, HeaderSize
<1> QED  BY <1>3, <1>8 DEF DecoderInit, DecoderIInv

LEMMA DecoderPreserved ==
    ASSUME DecoderIInv, [DecoderNext]_decoderVars
    PROVE  DecoderIInv'
<1>1. ASSUME NEW n \in 1 .. MaxChunk, NEW chunk \in [1 .. n -> Alphabet],
             Len(fed) + n <= MaxBytes, Push(chunk)
      PROVE  DecoderIInv'
  <2>1. n \in Nat
    BY <1>1
  <2>2. chunk \in Bytes /\ Len(chunk) = n
    BY <2>1 DEF Bytes
  <2> QED  BY <1>1, <2>2, PushPreserves
<1>2. CASE FinishDecoding
  BY <1>2, FinishPreserves
<1>3. CASE UNCHANGED decoderVars
  BY <1>3 DEF decoderVars, DecoderIInv, DecoderTypeOK, Decoded, Carried, LinesAreWhole
<1> QED  BY <1>1, <1>2, <1>3 DEF DecoderNext

LEMMA DecoderTells == ASSUME DecoderIInv PROVE DecoderTypeOK /\ LinesAreWhole
<1>1. CASE result = "ok"
  <2>1. Decoded /\ DecoderTypeOK
    BY <1>1 DEF DecoderIInv
  <2>2. fed \in Bytes /\ Len(fed) \in Nat
    BY <2>1 DEF DecoderTypeOK, Bytes
  <2>3. CASE decoder.mode = "unknown"
    <3>1. Carried = <<>> /\ lines = LinesOf(<<>>) /\ Len(fed) < HeaderSize
      BY <2>1, <2>3 DEF Decoded, Carried
    <3>2. PushText(EmptyLine, <<>>) = [line |-> EmptyLine, out |-> <<>>] /\ <<>> \in Bytes
      BY PushTextEmpty DEF Bytes
    <3>3. [line |-> Unfinished(<<>>), out |-> LinesOf(<<>>)] = [line |-> EmptyLine, out |-> <<>>]
      BY <3>2, PushedLines DEF Pushed
    <3>4. LinesOf(<<>>) = <<>>
      BY <3>3
    <3> QED  BY <1>1, <2>1, <3>1, <3>4 DEF LinesAreWhole
  <2>4. CASE decoder.mode # "unknown"
    <3>1. lines = LinesOf(TextOf(fed))
      BY <2>1, <2>4 DEF Decoded, Carried
    <3>2. ~(Len(fed) < HeaderSize)
      BY <2>1, <2>2, <2>4 DEF Decoded, DecoderTypeOK, IsHeader, HeaderSize
    <3> QED  BY <1>1, <2>1, <3>1, <3>2 DEF LinesAreWhole
  <2> QED  BY <2>3, <2>4
<1>2. CASE result # "ok"
  BY <1>2 DEF DecoderIInv
<1> QED  BY <1>1, <1>2

================================================================================
