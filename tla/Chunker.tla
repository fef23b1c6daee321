------------------------------ MODULE Chunker ------------------------------
(***************************************************************************)
(* How a file is cut into the chunks that are embedded and searched        *)
(* (semantic_search/chunker.py), with the numbers of the lines a result    *)
(* shows.                                                                  *)
(*                                                                         *)
(* A line is its length and a mark: "start" for a heading, a JavaScript    *)
(* boundary or the first line of a Python definition, "body" for the rest  *)
(* of a definition, "text" for anything else.  A chunk is the lines its    *)
(* text holds (0 for a blank line put in between), the first and the last  *)
(* number recorded for it, and its length.  Lines are not blank, and a text   *)
(* does not end with a newline.                                            *)
(***************************************************************************)
EXTENDS Integers, FiniteSets, Sequences, SequencesExt

CONSTANTS
    WholeLines, WholeChars,           \* WHOLE_FILE_MAX_LINES, WHOLE_FILE_MAX_CHARS
    TargetChars, MaxChars, MinChars,  \* TARGET_, MAX_ and MIN_CHUNK_CHARS
    OverlapLines,                     \* CHUNK_OVERLAP_LINES
    Lengths,                          \* bound: the lengths of lines
    MaxLines                          \* bound: lines of a file

ASSUME ChunkAssumption ==
    /\ {WholeLines, OverlapLines, MinChars} \subseteq Nat
    /\ MinChars < TargetChars /\ TargetChars < MaxChars /\ MaxChars < WholeChars
    /\ Lengths \subseteq Nat \ {0} /\ MaxLines \in Nat

VARIABLES source, suffix       \* the file that is read

chunkVars == <<source, suffix>>

Languages == {"py", "md", "js", "txt"}
Marks == [py |-> {"start", "body", "text"}, md |-> {"start", "text"},
          js |-> {"start", "text"}, txt |-> {"text"}]

ChunkInit == source = <<>> /\ suffix \in Languages

\* The files: a line more.
AddLine ==
    /\ Len(source) < MaxLines
    /\ \E n \in Lengths, m \in Marks[suffix] :
        /\ m = "body" => source # <<>> /\ Last(source).mark # "text"
        /\ source' = Append(source, [len |-> n, mark |-> m])
    /\ UNCHANGED suffix

\* ------------------------------------------------------------------ lengths
Min2(i, j) == IF i < j THEN i ELSE j

\* The length of lines joined with newlines; 0 stands for a blank line.
LineLen(i) == IF i = 0 THEN 0 ELSE source[i].len
Joined(lines) == FoldLeft(LAMBDA n, i : n + LineLen(i) + 1, 0, lines) - 1
Lines(first, last) == [n \in 1..(last - first + 1) |-> first + n - 1]

Chunk(first, last, lines) ==
    [first |-> first, last |-> last, lines |-> lines, chars |-> Joined(lines), recut |-> FALSE]

Whole == Chunk(1, Len(source), Lines(1, Len(source)))
IsSmall == Len(source) <= WholeLines /\ Joined(Lines(1, Len(source))) <= WholeChars

\* -------------------------------------------------------------------- plain
\* The operators here take the lines of a text, which may be part of a file.

\* _hard_split_line: pieces of TARGET_CHUNK_CHARS.
HardSplit(n, i) ==
    [k \in 1..((LineLen(i) + TargetChars - 1) \div TargetChars) |->
        [Chunk(n, n, <<i>>) EXCEPT !.chars = Min2(TargetChars, LineLen(i) - (k - 1) * TargetChars)]]

\* What is held back goes out with the line before line n as its last.
Flushed(s, n) == IF s.buf = <<>> THEN s.out ELSE Append(s.out, Chunk(s.start, n - 1, s.buf))

\* The end of a chunk is said again at the beginning of the next.
Overlap(s) == SubSeq(s.buf, Len(s.buf) - Min2(OverlapLines, Len(s.buf)) + 1, Len(s.buf))

\* One turn of the loop of _chunk_plain: line n of the text, line i of the file.
PlainStep(s, n, i) ==
    LET add == LineLen(i) + IF s.buf = <<>> THEN 0 ELSE 1
        again == Append(Overlap(s), i) IN
    IF LineLen(i) > MaxChars
    THEN [out |-> Flushed(s, n) \o HardSplit(n, i), buf |-> <<>>, chars |-> 0, start |-> n + 1]
    ELSE IF s.buf # <<>> /\ s.chars + add > TargetChars
    THEN [out |-> Flushed(s, n), buf |-> again, chars |-> Joined(again) + 1, start |-> n - Len(Overlap(s))]
    ELSE [s EXCEPT !.buf = Append(@, i), !.chars = @ + add]

\* _chunk_plain without its last step: a short text stays in one piece.
PlainChunks(text) ==
    LET s == FoldLeft(LAMBDA t, n : PlainStep(t, n, text[n]),
                      [out |-> <<>>, buf |-> <<>>, chars |-> 0, start |-> 1], Lines(1, Len(text))) IN
    IF Joined(text) <= WholeChars THEN <<Chunk(1, Len(text), text)>>
    ELSE IF s.buf = <<>> THEN s.out ELSE Append(s.out, Chunk(s.start, s.start + Len(s.buf) - 1, s.buf))

\* _split_oversized hands the text of a long chunk back to _chunk_plain, which
\* numbers its lines from 1.
SplitOversized(chunks) ==
    FlattenSeq([n \in DOMAIN chunks |->
        IF chunks[n].chars <= MaxChars THEN <<chunks[n]>>
        ELSE LET again == PlainChunks(chunks[n].lines) IN
             [k \in DOMAIN again |-> [again[k] EXCEPT !.recut = TRUE]]])

ChunkPlain ==
    IF Joined(Lines(1, Len(source))) <= WholeChars THEN <<Whole>>
    ELSE SplitOversized(PlainChunks(Lines(1, Len(source))))

\* -------------------------------------------------------------------- spans
\* From each start to the line before the next.
StartsAt(i) == source[i].mark = "start"
Sections ==
    LET starts == {1} \cup {i \in 2..Len(source) : StartsAt(i)}
        EndOf(i) == CHOOSE j \in i..Len(source) :
                        /\ \A k \in (i + 1)..j : k \notin starts
                        /\ (j = Len(source) \/ j + 1 \in starts) IN
    SetToSortSeq({<<i, EndOf(i)>> : i \in starts}, LAMBDA p, q : p[1] < q[1])

\* A Python definition ends with its body.
Definitions ==
    LET EndOf(i) == CHOOSE j \in i..Len(source) :
                        /\ \A k \in (i + 1)..j : source[k].mark = "body"
                        /\ (j = Len(source) \/ source[j + 1].mark # "body") IN
    SetToSortSeq({<<i, EndOf(i)>> : i \in {k \in DOMAIN source : StartsAt(k)}}, LAMBDA p, q : p[1] < q[1])

\* _merge_small_spans: a span too small for a chunk takes the next one in, with
\* whatever stands between them.  Their lengths are added up without that.
MergeSmall(spans) ==
    LET Size(span) == Joined(Lines(span[1], span[2]))
        Step(s, span) ==
            IF s.chars < MinChars /\ s.chars + Size(span) + 1 <= MaxChars
            THEN [s EXCEPT !.cur = <<@[1], span[2]>>, !.chars = @ + Size(span) + 2]
            ELSE [out |-> Append(s.out, s.cur), cur |-> span, chars |-> Size(span)]
        end == FoldLeft(Step, [out |-> <<>>, cur |-> spans[1], chars |-> Size(spans[1])], Tail(spans)) IN
    Append(end.out, end.cur)

OfSpans(spans) == [n \in DOMAIN spans |-> Chunk(spans[n][1], spans[n][2], Lines(spans[n][1], spans[n][2]))]

\* ---------------------------------------------------------------- languages
\* Mutant: the span that is still open is dropped.
MarkdownAllButLast(s) == s.out

\* The end of the loop of _chunk_markdown_sections.
MarkdownRest(s) == Append(s.out, Chunk(s.start, s.start + Len(s.buf) - 1, s.buf))

\* Sections are put together up to TARGET_CHUNK_CHARS, with a blank line in
\* between, which the recorded last line counts.
ChunkMarkdownSections ==
    LET Step(s, span) ==
            LET lines == Lines(span[1], span[2]) IN
            IF s.buf = <<>> THEN [s EXCEPT !.start = span[1], !.buf = lines]
            ELSE IF Joined(s.buf) + Joined(lines) + 1 <= TargetChars
            THEN [s EXCEPT !.buf = @ \o <<0>> \o lines]
            ELSE [out |-> MarkdownRest(s), start |-> span[1], buf |-> lines] IN
    SplitOversized(MarkdownRest(FoldLeft(Step, [out |-> <<>>, start |-> 1, buf |-> <<>>], Sections)))

ChunkMarkdown ==
    IF Cardinality({i \in DOMAIN source : StartsAt(i)}) < 2 /\ IsSmall THEN <<Whole>>
    ELSE ChunkMarkdownSections

ChunkJsLike == IF IsSmall THEN <<Whole>> ELSE SplitOversized(OfSpans(MergeSmall(Sections)))

\* What is outside of definitions is in no chunk; what is too long stays so.
ChunkPython ==
    IF IsSmall THEN <<Whole>>
    ELSE IF Definitions = <<>> THEN ChunkPlain
    ELSE OfSpans(MergeSmall(Definitions))

\* chunk_file.
ChunkFile ==
    CASE suffix = "py" -> ChunkPython
      [] suffix = "md" -> ChunkMarkdown
      [] suffix = "js" -> ChunkJsLike
      [] suffix = "txt" -> ChunkPlain

\* ------------------------------------------------------------- properties
\* Every line is in a chunk, except Python outside of definitions.
NothingUnread ==
    LET read == UNION {ToSet(c.lines) : c \in ToSet(ChunkFile)} IN
    \A i \in DOMAIN source : i \in read \/ (suffix = "py" /\ source[i].mark = "text")

\* The lines of a chunk stand together, and begin at the line recorded, unless
\* the chunk was cut again; the last line is off by the blank lines put in.
LinesTrue == \A c \in ToSet(ChunkFile) :
    LET own == SelectSeq(c.lines, LAMBDA i : i # 0) IN
    own # <<>> =>
    /\ own = Lines(own[1], Last(own))
    /\ ~ c.recut => c.first = own[1] /\ c.last = Last(own) + Len(c.lines) - Len(own)

\* No chunk is longer than a small file or than an overlap and a line together,
\* except a Python definition.
NoneTooLong == \A c \in ToSet(ChunkFile) :
    c.chars <= WholeChars \/ c.chars <= (OverlapLines + 1) * (MaxChars + 1) \/ suffix = "py"

\* A search can find every line, and shows where it is.
ChunksTrue == source # <<>> => NothingUnread /\ LinesTrue /\ NoneTooLong
=============================================================================
