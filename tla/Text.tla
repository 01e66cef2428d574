-------------------------------- MODULE Text --------------------------------
(***************************************************************************)
(* chunk_text of crates/silta/src/text.rs: a long reply is cut into        *)
(* messages that fit the cap.                                              *)
(*                                                                         *)
(* A text is a sequence of lines; a line is whether it opens or closes a   *)
(* fence, and the widths of its characters in UTF-8.  A line without       *)
(* characters is blank.  What is cut out of a text is known by its place:  *)
(* a span is the characters from..to of a line, with the newlines that     *)
(* were put before it; a chunk is a sequence of spans.                     *)
(***************************************************************************)
EXTENDS Integers, FiniteSets, SequencesExt

\* A line that opens or closes a fence is never blank.
Line == {line \in [fence : BOOLEAN, chars : Seq(1..4)] : line.fence => line.chars # <<>>}

blank(line) == line.chars = <<>>

\* The sum of the first i numbers, for every i.
Sums(numbers) ==
    LET at[i \in 0..Len(numbers)] == IF i = 0 THEN 0 ELSE at[i - 1] + numbers[i]
    IN at

Span(gap, l, from, to) == [gap |-> gap, line |-> l, from |-> from, to |-> to]

Whole(text, gap, l) == Span(gap, l, 1, Len(text[l].chars))

width(text, span) ==
    LET at == Sums(text[span.line].chars)
    IN span.gap + (at[span.to] - at[span.from - 1])

len(text, spans) == Sums([i \in DOMAIN spans |-> width(text, spans[i])])[Len(spans)]

\* The lines first..last as they are.
slice(text, first, last) ==
    [i \in 1..(last - first + 1) |-> Whole(text, IF i = 1 THEN 0 ELSE 1, first + i - 1)]

\* str::trim_end, for the blank lines at the end.
trim_end(text) ==
    LET full == {l \in DOMAIN text : ~blank(text[l])}
    IN SubSeq(text, 1, IF full = {} THEN 0 ELSE Max(full))

\* paragraphs: the first and the last line of each.  A blank line ends one, unless
\* it is in a fence.
paragraphs(text) ==
    LET step(s, l) ==
            LET fence == IF text[l].fence THEN ~s.in_fence ELSE s.in_fence
                ends == blank(text[l]) /\ ~fence
            IN [in_fence |-> fence,
                out |-> IF ends /\ l > s.start THEN Append(s.out, <<s.start, l - 1>>) ELSE s.out,
                start |-> IF ends THEN l + 1 ELSE s.start]
        after_line[l \in 0..Len(text)] ==
            IF l = 0 THEN [in_fence |-> FALSE, out |-> <<>>, start |-> 1]
            ELSE step(after_line[l - 1], l)
        end == after_line[Len(text)]
    IN IF Len(text) >= end.start THEN Append(end.out, <<end.start, Len(text)>>) ELSE end.out

\* Mutation: a character that straddles the cap stays with the piece before it.
split_charsLate(text, l, max) ==
    LET chars == text[l].chars
        at == Sums(chars)
        step(s, i) ==
            IF at[i - 1] - at[s.start - 1] >= max
            THEN [out |-> Append(s.out, Span(0, l, s.start, i - 1)), start |-> i]
            ELSE s
        after_char[i \in 0..Len(chars)] ==
            IF i = 0 THEN [out |-> <<>>, start |-> 1] ELSE step(after_char[i - 1], i)
        end == after_char[Len(chars)]
    IN Append(end.out, Span(0, l, end.start, Len(chars)))

\* split_chars: pieces of a line that is longer than the cap.
split_chars(text, l, max) ==
    LET chars == text[l].chars
        at == Sums(chars)
        step(s, i) ==
            IF at[i] - at[s.start - 1] > max
            THEN [out |-> Append(s.out, Span(0, l, s.start, i - 1)), start |-> i]
            ELSE s
        after_char[i \in 0..Len(chars)] ==
            IF i = 0 THEN [out |-> <<>>, start |-> 1] ELSE step(after_char[i - 1], i)
        end == after_char[Len(chars)]
    IN Append(end.out, Span(0, l, end.start, Len(chars)))

split_lines(text, p, max) ==
    FlattenSeq([i \in 1..(p[2] - p[1] + 1) |->
        LET l == p[1] + i - 1
        IN IF width(text, Whole(text, 0, l)) <= max THEN <<Whole(text, 0, l)>>
           ELSE split_chars(text, l, max)])

\* A piece of a text is a sequence of spans; the separator goes before its first.
after(sep, piece) == <<[Head(piece) EXCEPT !.gap = sep]>> \o Tail(piece)

flush(text, s) ==
    IF len(text, s.current) = 0 THEN s
    ELSE [chunks |-> Append(s.chunks, s.current), current |-> <<>>]

append(text, s, piece, sep, max) ==
    IF len(text, s.current) = 0 THEN [s EXCEPT !.current = piece]
    ELSE IF len(text, s.current) + sep + len(text, piece) <= max
         THEN [s EXCEPT !.current = @ \o after(sep, piece)]
         ELSE [flush(text, s) EXCEPT !.current = piece]

\* The pieces of a paragraph that does not fit, joined as far as they do.
append_lines(text, s, spans, max) ==
    LET after_span[i \in 0..Len(spans)] ==
            IF i = 0 THEN s ELSE append(text, after_span[i - 1], <<spans[i]>>, 1, max)
    IN after_span[Len(spans)]

append_paragraph(text, s, p, max) ==
    LET piece == slice(text, p[1], p[2])
    IN IF len(text, piece) > max
       THEN append_lines(text, flush(text, s), split_lines(text, p, max), max)
       ELSE append(text, s, piece, 2, max)

chunk_text(whole, max) ==
    LET text == trim_end(whole)
        all == slice(text, 1, Len(text))
        ps == paragraphs(text)
        after_paragraph[k \in 0..Len(ps)] ==
            IF k = 0 THEN [chunks |-> <<>>, current |-> <<>>]
            ELSE append_paragraph(text, after_paragraph[k - 1], ps[k], max)
    IN IF text = <<>> THEN <<>>
       ELSE IF len(text, all) <= max THEN <<all>>
       ELSE flush(text, after_paragraph[Len(ps)]).chunks
-----------------------------------------------------------------------------
(* What the pieces are to be, stated without a word about how they are cut.*)

\* The characters of a span, of spans, of a text and of its chunks, in order.
Covers(span) ==
    [i \in 1..(span.to + 1 - span.from) |-> <<span.line, span.from + i - 1>>]
Reads(spans) == FlattenSeq([s \in DOMAIN spans |-> Covers(spans[s])])
Characters(text) ==
    FlattenSeq([l \in DOMAIN text |-> [i \in DOMAIN text[l].chars |-> <<l, i>>]])
Shown(chunks) == Reads(FlattenSeq(chunks))

\* Every message fits and says something, and together they say what the text says:
\* each character once, in order.
SaysAll(text, max) ==
    LET chunks == chunk_text(text, max)
    IN /\ \A c \in DOMAIN chunks : len(text, chunks[c]) \in 1..max
       /\ Shown(chunks) = Characters(text)

\* No newline is put into a line of the text, and none between two lines that has
\* not been there: a line that had to be cut continues in another message.
LinesStayWhole(text, max) ==
    LET chunks == chunk_text(text, max)
    IN \A c \in DOMAIN chunks : \A i \in 2..Len(chunks[c]) :
          LET a == chunks[c][i - 1]
              b == chunks[c][i]
          IN /\ a.to = Len(text[a.line].chars) /\ b.from = 1
             /\ b.gap \in 1..(b.line - a.line)

\* The blank lines that are not in a fence, and the lines between two of them.
Separates(text, l) ==
    blank(text[l]) /\ Cardinality({k \in 1..l : text[k].fence}) % 2 = 0
Paragraphs(text) ==
    {p \in (1..Len(text)) \X (1..Len(text)) :
        /\ p[1] <= p[2]
        /\ \A l \in p[1]..p[2] : ~Separates(text, l)
        /\ p[1] > 1 => Separates(text, p[1] - 1)
        /\ p[2] < Len(text) => Separates(text, p[2] + 1)}

\* A paragraph that fits into a message is in one, a fence with its blank lines too.
\* (A fence that shares its paragraph with other text is cut with it.)
ParagraphsStayWhole(text, max) ==
    LET chunks == chunk_text(text, max)
        Lines(c) == {s.line : s \in ToSet(chunks[c])}
    IN \A p \in Paragraphs(trim_end(text)) :
          len(text, slice(text, p[1], p[2])) <= max =>
              \E c \in DOMAIN chunks : p[1]..p[2] \subseteq Lines(c)
=============================================================================
