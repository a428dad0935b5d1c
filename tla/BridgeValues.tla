------------------------------ MODULE BridgeValues ------------------------------
(***************************************************************************)
(* The bridge's computations on text: the window of fs/read_text_file       *)
(* (fs.rs), the tail that terminal/output keeps and the base64 of the        *)
(* display (terminal.rs), over a file or an output that grows by a character *)
(* at a time.                                                               *)
(***************************************************************************)
EXTENDS Integers, SequencesExt

CONSTANTS
    Characters,     \* the UTF-8 encodings of the characters that are written
    MaxCharacters   \* bound: characters written

Continuation(byte) == byte \div 64 = 2

\* UTF-8: a character is one byte or more, and its first byte alone is none of
\* the continuation bytes.
ASSUME CharactersAssumption ==
    \A c \in Characters :
        /\ c \in Seq(0 .. 255) /\ c # <<>>
        /\ \A i \in DOMAIN c : Continuation(c[i]) <=> i # 1

VARIABLE text       \* what was written, a sequence of characters

Newline == <<10>>
Return  == <<13>>

Bytes(characters) == FlattenSeq(characters)

ValuesInit == text = <<>>
Write(c) == Len(text) < MaxCharacters /\ text' = Append(text, c)
ValuesNext == \E c \in Characters : Write(c)
ValuesSpec == ValuesInit /\ [][ValuesNext]_text

-----------------------------------------------------------------------------
(* window_lines.                                                            *)

Absent == -1

\* str::lines: the pieces between newlines, without a last one that is empty,
\* and without a carriage return at the end of one that was ended.
Ends(t) == {i \in DOMAIN t : t[i] = Newline}
Piece(t, from, end) ==
    IF end > from /\ t[end - 1] = Return
    THEN SubSeq(t, from, end - 2) ELSE SubSeq(t, from, end - 1)
StartOf(t, end) == 1 + Max({0} \cup {i \in Ends(t) : i < end})
EndedAt(t, i) == IF i \in Ends(t) THEN <<Piece(t, StartOf(t, i), i)>> ELSE <<>>
Ended(t) == FlattenSeq([i \in DOMAIN t |-> EndedAt(t, i)])
Lines(t) ==
    LET last == StartOf(t, Len(t) + 1) IN
    Ended(t) \o IF last > Len(t) THEN <<>> ELSE <<SubSeq(t, last, Len(t))>>

Joined(lines) ==
    FlattenSeq([n \in DOMAIN lines |->
        IF n = Len(lines) THEN lines[n] ELSE Append(lines[n], Newline)])

\* mutant: lines counted from 0
SkipAll(line) == IF line = Absent THEN 0 ELSE line

\* line is an u32: 0 and 1 are the first line.
Skip(line) == IF line \in {Absent, 0} THEN 0 ELSE line - 1

Window(t, line, limit) ==
    IF line = Absent /\ limit = Absent THEN t
    ELSE LET rest == SubSeq(Lines(t), Skip(line) + 1, Len(Lines(t))) IN
         Joined(IF limit = Absent THEN rest ELSE SubSeq(rest, 1, Min({limit, Len(rest)})))

-----------------------------------------------------------------------------
(* view_within_limit, on bytes; what from_utf8_lossy does to invalid ones is *)
(* left out.                                                                 *)

\* mutant: cut anywhere
TailAnywhere(bytes, limit) == Len(bytes) - limit + 1

TailStart(bytes, limit) ==
    LET cut == Len(bytes) - limit + 1 IN
    Min({i \in cut .. Len(bytes) + 1 : i = Len(bytes) + 1 \/ ~Continuation(bytes[i])})

ViewWithinLimit(bytes, limit) ==
    IF limit = Absent \/ Len(bytes) <= limit
    THEN [output |-> bytes, truncated |-> FALSE]
    ELSE [output |-> SubSeq(bytes, TailStart(bytes, limit), Len(bytes)), truncated |-> TRUE]

-----------------------------------------------------------------------------
(* base64_encode, to sextets; 64 is the padding.                             *)

At(bytes, i) == IF i \in DOMAIN bytes THEN bytes[i] ELSE 0
Padding == 64
Triple(bytes, i) == 65536 * At(bytes, i) + 256 * At(bytes, i + 1) + At(bytes, i + 2)

\* mutant: the third place is padded unless the triple is whole
SextetPadded(bytes, i, place) ==
    LET triple == Triple(bytes, i) IN
    CASE place = 1 -> (triple \div 262144) % 64
      [] place = 2 -> (triple \div 4096) % 64
      [] place = 3 -> IF i + 2 \in DOMAIN bytes THEN (triple \div 64) % 64 ELSE Padding
      [] place = 4 -> IF i + 2 \in DOMAIN bytes THEN triple % 64 ELSE Padding

Sextet(bytes, i, place) ==
    LET triple == Triple(bytes, i) IN
    CASE place = 1 -> (triple \div 262144) % 64
      [] place = 2 -> (triple \div 4096) % 64
      [] place = 3 -> IF i + 1 \in DOMAIN bytes THEN (triple \div 64) % 64 ELSE Padding
      [] place = 4 -> IF i + 2 \in DOMAIN bytes THEN triple % 64 ELSE Padding

Base64(bytes) ==
    [k \in 1 .. 4 * ((Len(bytes) + 2) \div 3) |->
        Sextet(bytes, 3 * ((k - 1) \div 4) + 1, ((k - 1) % 4) + 1)]

-----------------------------------------------------------------------------
(* Properties.                                                              *)

\* The file without what lines() drops: the return of a line's end, and the
\* newline at the end of the file.
Returns(t, i) == t[i] = Return /\ i < Len(t) /\ t[i + 1] = Newline
Dropped(t, i) == (i = Len(t) /\ t[i] = Newline) \/ Returns(t, i)
Plain(t) == FlattenSeq([i \in DOMAIN t |-> IF Dropped(t, i) THEN <<>> ELSE <<t[i]>>])

\* fs.rs:144-160: an agent that reads a file a page at a time, each page from
\* the line after the last one's, reads all of it, and nothing twice; line 0
\* is line 1.
Page(t, size, n) == Window(t, size * (n - 1) + 1, size)
Pages(t, size) == [n \in 1 .. (Len(Lines(t)) + size - 1) \div size |-> Page(t, size, n)]
PagesMakeTheFile ==
    /\ \A size \in 1 .. MaxCharacters : Joined(Pages(text, size)) = Plain(text)
    /\ \A limit \in -1 .. MaxCharacters :
          limit # Absent => Window(text, 0, limit) = Window(text, 1, limit)
    /\ Window(text, Absent, Absent) = text

\* terminal.rs:190-205 and docs/protocol/v1/terminals.mdx:78-87: what is kept
\* is the longest end of the output that fits and begins with a whole
\* character; truncated says whether anything is missing.
Fitting(limit) == {k \in 0 .. Len(text) :
                      Len(Bytes(SubSeq(text, k + 1, Len(text)))) <= limit}
TailIsLongestFit == \A limit \in 0 .. Len(Bytes(text)) :
    LET view == ViewWithinLimit(Bytes(text), limit) IN
    /\ view.output = Bytes(SubSeq(text, Min(Fitting(limit)) + 1, Len(text)))
    /\ view.truncated <=> view.output # Bytes(text)

\* docs/protocol/v2/migration.mdx:415: every chunk of the display decodes by
\* itself, and the chunks, in order, are the output, wherever it was cut.
Number(p, q, r, s) == 262144 * p + 4096 * q + 64 * r + s
ThreeBytes(n) == <<n \div 65536, (n \div 256) % 256, n % 256>>
DecodedGroup(s, g) ==
    LET four == [k \in 1 .. 4 |-> s[4 * (g - 1) + k]] IN
    SubSeq(ThreeBytes(Number(four[1], four[2], four[3] % 64, four[4] % 64)), 1,
           3 - Cardinality({k \in 1 .. 4 : four[k] = Padding}))
Decoded(s) == FlattenSeq([g \in 1 .. Len(s) \div 4 |-> DecodedGroup(s, g)])
ChunksDecode == \A cut \in 0 .. Len(Bytes(text)) :
    LET bytes == Bytes(text) IN
    Decoded(Base64(SubSeq(bytes, 1, cut)))
        \o Decoded(Base64(SubSeq(bytes, cut + 1, Len(bytes)))) = bytes

=============================================================================
