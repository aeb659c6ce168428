------------------------------ MODULE Chunking ------------------------------
(***************************************************************************)
(* rag/chunking.py: a document's headings and blocks to the chunks that    *)
(* are embedded.  A text is a sequence of characters; of the separators,   *)
(* a paragraph break and a space are kept, each one character long.        *)
(***************************************************************************)
EXTENDS Orders

CONSTANTS
    Break, Space,
    Size, Overlap,  \* prose_chunk_size, prose_overlap
    MaxCaption,     \* max_caption_chars
    KeyShaped       \* what lookup_key_pattern matches of a table's first cells

ASSUME ChunkingAssumption ==
    /\ Break # Space
    /\ Size \in Nat \ {0} /\ Overlap \in Nat /\ MaxCaption \in Nat

\* A document is a sequence of headings [kind, level, name] and of blocks
\* [kind, text, keys]; keys are the first cells of a table's rows.
IsHeading(e) == e.kind = "heading"

IsDocument(doc) ==
    /\ doc \in Seq(ToSet(doc))
    /\ \A e \in ToSet(doc) :
        IF IsHeading(e) THEN e.level \in Nat
        ELSE /\ e.kind \in {"paragraph", "list", "code", "table"}
             /\ e.text \in Seq(ToSet(e.text)) /\ e.keys \in Seq(ToSet(e.keys))

-----------------------------------------------------------------------------
(* parse_structure *)

\* Mutant: a heading leaves the ones of its own level open.
MutUnderSibling(stack, heading) ==
    Append(Kept(stack, {h \in ToSet(stack) : h.level <= heading.level}), heading)

Under(stack, heading) ==
    Append(Kept(stack, {h \in ToSet(stack) : h.level < heading.level}), heading)

Names(stack) == [i \in 1..Len(stack) |-> stack[i].name]

\* The headings a place stands under, and the blocks so far, each with its
\* heading path.
WithElement(acc, e) ==
    IF IsHeading(e) THEN [acc EXCEPT !.stack = Under(@, e)]
    ELSE [acc EXCEPT !.blocks = Append(@, [kind |-> e.kind, text |-> e.text, keys |-> e.keys,
                                           section |-> Names(acc.stack)])]

Parsed(doc) ==
    LET after[n \in 0..Len(doc)] ==
            IF n = 0 THEN [stack |-> <<>>, blocks |-> <<>>] ELSE WithElement(after[n - 1], doc[n])
    IN  after

Blocks(doc) == Parsed(doc)[Len(doc)].blocks

-----------------------------------------------------------------------------
(* Prose: what is put together from its parts is what is out already, and    *)
(* what is current.                                                          *)

Nothing == [out |-> <<>>, current |-> <<>>]

\* str.split.
WithChar(acc, ch, sep) ==
    IF ch = sep THEN [out |-> Append(acc.out, acc.current), current |-> <<>>]
    ELSE [acc EXCEPT !.current = Append(@, ch)]

Scanned(text, sep) ==
    LET after[n \in 0..Len(text)] == IF n = 0 THEN Nothing ELSE WithChar(after[n - 1], text[n], sep)
    IN  after

SplitBy(text, sep) ==
    LET all == Scanned(text, sep)[Len(text)] IN Append(all.out, all.current)

Cut(text) ==
    [k \in 1..(Len(text) + Size - 1) \div Size |-> SubSeq(text, Size * (k - 1) + 1, Min({Size * k, Len(text)}))]

Beside(current, sep, part) == IF current = <<>> THEN part ELSE current \o <<sep>> \o part

Done(acc) == IF acc.current = <<>> THEN acc.out ELSE Append(acc.out, acc.current)

\* One more part, pieces being what it is split into if it is too long.
WithPart(acc, part, sep, pieces) ==
    IF Len(Beside(acc.current, sep, part)) <= Size THEN [acc EXCEPT !.current = Beside(@, sep, part)]
    ELSE IF Len(part) > Size THEN [out |-> Done(acc) \o pieces, current |-> <<>>]
    ELSE [out |-> Done(acc), current |-> part]

Regrouped(parts, sep, pieces) ==
    LET after[n \in 0..Len(parts)] ==
            IF n = 0 THEN Nothing ELSE WithPart(after[n - 1], parts[n], sep, pieces[n])
    IN  after

\* _split_recursive, with one separator tried after the other.
SplitAt(text, sep, Finer(_)) ==
    LET parts == SplitBy(text, sep)
        pieces == [k \in 1..Len(parts) |-> Finer(parts[k])]
    IN  IF Len(text) <= Size THEN <<text>>
        ELSE IF Len(parts) = 1 THEN Finer(text)
        ELSE Done(Regrouped(parts, sep, pieces)[Len(parts)])

SplitWords(text) == SplitAt(text, Space, Cut)

Split(text) == SplitAt(text, Break, SplitWords)

PartsOf(b) == [k \in 1..Len(Split(b.text)) |-> [text |-> Split(b.text)[k], list |-> b.kind = "list"]]

Closed(acc) ==
    IF acc.text = <<>> THEN acc.out ELSE Append(acc.out, [text |-> acc.text, lists |-> acc.lists])

\* The greedy packing of one section's parts into pieces.
WithText(acc, part) ==
    IF acc.text # <<>> /\ Len(Beside(acc.text, Break, part.text)) > Size
    THEN [out |-> Closed(acc), text |-> part.text, lists |-> part.list]
    ELSE [acc EXCEPT !.text = Beside(@, Break, part.text), !.lists = @ /\ part.list]

Packings(parts) ==
    LET after[n \in 0..Len(parts)] ==
            IF n = 0 THEN [out |-> <<>>, text |-> <<>>, lists |-> TRUE] ELSE WithText(after[n - 1], parts[n])
    IN  after

Packed(blocks) ==
    LET parts == FlattenSeq([i \in 1..Len(blocks) |-> PartsOf(blocks[i])])
    IN  Closed(Packings(parts)[Len(parts)])

\* _tail: from a word's start, if there is one before its last character.
LastOf(text) ==
    LET tail == SubSeq(text, Len(text) - Overlap + 1, Len(text))
        spaces == {i \in 1..Len(tail) : tail[i] = Space}
    IN  IF Len(text) <= Overlap THEN text
        ELSE IF spaces # {} /\ Min(spaces) < Len(tail) THEN SubSeq(tail, Min(spaces) + 1, Len(tail))
        ELSE tail

Chunk(kind, section, lead, text) == [kind |-> kind, section |-> section, lead |-> lead, text |-> text]

\* _prose_chunks.
InChunks(pieces, section) ==
    [k \in 1..Len(pieces) |->
        Chunk(IF pieces[k].lists THEN "list" ELSE "prose", section,
              IF k = 1 \/ Overlap = 0 THEN <<>> ELSE LastOf(pieces[k - 1].text), pieces[k].text)]

ProseChunks(blocks) == InChunks(Packed(blocks), blocks[1].section)

-----------------------------------------------------------------------------
(* Tables, and the whole document *)

\* is_lookup_table.
IsLookup(b) ==
    b.keys # <<>> /\ ToSet(b.keys) \subseteq KeyShaped /\ Cardinality(ToSet(b.keys)) = Len(b.keys)

\* _table_chunks: the table whole, behind its caption, and its rows.
TableChunks(b, caption) ==
    <<Chunk("table", b.section, caption, b.text)>> \o
    (IF IsLookup(b) THEN [k \in 1..Len(b.keys) |-> Chunk("table_row", b.section, <<>>, <<b.keys[k]>>)]
     ELSE <<>>)

Flushed(acc) ==
    IF acc.pending = <<>> THEN acc
    ELSE [chunks |-> acc.chunks \o ProseChunks(acc.pending), pending |-> <<>>]

\* A paragraph right above the table, in its section and short.
IsCaption(pending, b) ==
    /\ pending # <<>>
    /\ Last(pending).kind = "paragraph" /\ Last(pending).section = b.section
    /\ Len(Last(pending).text) <= MaxCaption

\* Mutant: the caption stays with the prose, too.
MutWithTableTwice(acc, b) ==
    LET caption == IF IsCaption(acc.pending, b) THEN Last(acc.pending).text ELSE <<>>
    IN  [Flushed(acc) EXCEPT !.chunks = @ \o TableChunks(b, caption)]

WithTable(acc, b) ==
    LET captioned == IsCaption(acc.pending, b)
        caption == IF captioned THEN Last(acc.pending).text ELSE <<>>
        rest == IF captioned THEN Front(acc.pending) ELSE acc.pending
    IN  [Flushed([acc EXCEPT !.pending = rest]) EXCEPT !.chunks = @ \o TableChunks(b, caption)]

WithBlock(acc, b) ==
    IF b.kind = "table" THEN WithTable(acc, b) ELSE [acc EXCEPT !.pending = Append(@, b)]

\* A section's prose ends with it.
Entered(acc, b) ==
    WithBlock(IF acc.pending # <<>> /\ acc.pending[1].section # b.section THEN Flushed(acc) ELSE acc, b)

\* chunk_blocks.
Chunked(blocks) ==
    LET after[n \in 0..Len(blocks)] ==
            IF n = 0 THEN [chunks |-> <<>>, pending |-> <<>>] ELSE Entered(after[n - 1], blocks[n])
    IN  after

ChunkBlocks(blocks) == Flushed(Chunked(blocks)[Len(blocks)]).chunks

-----------------------------------------------------------------------------
(* Properties of one document *)

Letters(text) == Kept(text, ToSet(text) \ {Break, Space})

\* The headings a block stands under: those no later heading of their level
\* or above has closed.
PathOf(doc, i) ==
    LET open == Kept([j \in 1..i - 1 |-> j], {j \in 1..i - 1 :
                    IsHeading(doc[j]) /\ \A k \in j + 1..i - 1 : IsHeading(doc[k]) => doc[k].level > doc[j].level})
    IN  [k \in 1..Len(open) |-> doc[open[k]].name]

\* What a chunk has of the document itself; the overlap comes on top.
Own(c) ==
    Letters(IF c.kind = "table" THEN c.lead \o c.text ELSE IF c.kind = "table_row" THEN <<>> ELSE c.text)

\* Every word of the document is in one chunk, in order (chunk_blocks: a
\* caption "is not emitted twice").
NothingLostOrTwice(doc, chunks) ==
    FlattenSeq([k \in 1..Len(chunks) |-> Own(chunks[k])]) =
        FlattenSeq([i \in 1..Len(doc) |-> IF IsHeading(doc[i]) THEN <<>> ELSE Letters(doc[i].text)])

\* A chunk holds text of the section it is filed under and of no other, and
\* fits its size; a table is never split (the rules the module lists).
SectionsKeptApart(doc, chunks) ==
    LET at == {i \in 1..Len(doc) : ~IsHeading(doc[i])}
    IN  /\ \A c \in ToSet(chunks) :
            /\ c.kind \in {"prose", "list"} => Len(c.text) <= Size
            /\ c.kind # "table_row" => \A ch \in ToSet(Letters(c.lead \o c.text)) :
                \E i \in at : ch \in ToSet(doc[i].text) /\ PathOf(doc, i) = c.section
        /\ \A i \in at : doc[i].kind = "table" =>
            \E c \in ToSet(chunks) : c.kind = "table" /\ c.text = doc[i].text

WellChunked(doc, chunks) == NothingLostOrTwice(doc, chunks) /\ SectionsKeptApart(doc, chunks)
=============================================================================
