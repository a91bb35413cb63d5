------------------------------- MODULE Chunks -------------------------------
(***************************************************************************)
(* chunkTelegramMessage (adapters/telegram/message-sender.ts): how a text  *)
(* that is longer than a Telegram message is divided.                      *)
(*                                                                         *)
(* A text is a sequence of paragraphs, a paragraph the sequence of the     *)
(* sizes of its lines.  Markup that reaches over paragraphs is one pair of *)
(* tags, such as <pre> and </pre>: "open" and "close" are the paragraphs   *)
(* they stand in, 0 if the text has none.                                  *)
(***************************************************************************)
EXTENDS Integers, SequencesExt

CONSTANTS MaxMessage,    \* TELEGRAM_MAX_MESSAGE_LENGTH
          SafeChunk,     \* TELEGRAM_SAFE_CHUNK_LENGTH
          Numbering,     \* the length of "(i/n)\n", at most
          SmallTexts     \* the texts that the division is checked for

ASSUME SizesAssumption ==
    /\ MaxMessage \in Nat /\ SafeChunk \in Nat /\ Numbering \in Nat
    /\ SafeChunk + 2 * Numbering <= MaxMessage

\* A piece of a text: the lines it carries, each <<paragraph, line>> with
\* "cut" if its end is replaced by the notice that it was.
NoPiece == [lines |-> <<>>, size |-> 0]
Line(p, l, size, cut) == [lines |-> <<[at |-> <<p, l>>, cut |-> cut]>>, size |-> size]

Joined(a, b, separator) ==
    IF a = NoPiece THEN b
    ELSE [lines |-> a.lines \o b.lines, size |-> a.size + separator + b.size]

Pieces(acc) == IF acc.current = NoPiece THEN acc.done ELSE Append(acc.done, acc.current)

\* A mutant: the piece at hand is not kept when the next does not fit.
PackForgets(pieces, separator) ==
    LET Add(acc, piece) ==
            IF Joined(acc.current, piece, separator).size <= SafeChunk
            THEN [acc EXCEPT !.current = Joined(@, piece, separator)]
            ELSE [acc EXCEPT !.current = piece]
    IN Pieces(FoldLeft(Add, [done |-> <<>>, current |-> NoPiece], pieces))

\* Pieces are put together for as long as the whole is safe to send.
Pack(pieces, separator) ==
    LET Add(acc, piece) ==
            IF Joined(acc.current, piece, separator).size <= SafeChunk
            THEN [acc EXCEPT !.current = Joined(@, piece, separator)]
            ELSE [done |-> Pieces(acc), current |-> piece]
    IN Pieces(FoldLeft(Add, [done |-> <<>>, current |-> NoPiece], pieces))

\* truncateFragment: a line that does not fit any chunk fills one.
Fragment(p, l, size) ==
    IF size <= SafeChunk THEN Line(p, l, size, FALSE) ELSE Line(p, l, SafeChunk, TRUE)

\* The size of parts with separators between them.
Sized(sizes, separator) ==
    FoldLeft(LAMBDA sum, size : IF sum = 0 THEN size ELSE sum + separator + size, 0, sizes)

ParagraphSize(paragraph) == Sized(paragraph, 1)
TextSize(text) ==
    Sized([p \in DOMAIN text.paragraphs |-> ParagraphSize(text.paragraphs[p])], 2)

Lines(paragraph, p) == [l \in DOMAIN paragraph |-> Line(p, l, paragraph[l], FALSE)]

\* splitParagraphIntoSafeSegments
Segments(paragraph, p) ==
    Pack([l \in DOMAIN paragraph |-> Fragment(p, l, paragraph[l])], 1)

AllLines(text) ==
    FlattenSeq([p \in DOMAIN text.paragraphs |-> Lines(text.paragraphs[p], p)])

Whole(text) ==
    [lines |-> FlattenSeq([i \in DOMAIN AllLines(text) |-> AllLines(text)[i].lines]),
     size |-> TextSize(text)]

\* chunkTelegramMessage
ChunksOf(text) ==
    IF TextSize(text) <= MaxMessage
    THEN <<Whole(text)>>
    ELSE Pack(FlattenSeq([p \in DOMAIN text.paragraphs |-> Segments(text.paragraphs[p], p)]), 2)

\* A paragraph that is too long for a chunk loses its tags, and a chunk that
\* has one tag of the two is no HTML that Telegram takes.
HasTag(text, chunk, p) ==
    /\ p # 0 /\ ParagraphSize(text.paragraphs[p]) <= SafeChunk
    /\ \E i \in DOMAIN chunk.lines : chunk.lines[i].at[1] = p

Unbalanced(text, chunks, i) ==
    /\ Len(chunks) > 1
    /\ HasTag(text, chunks[i], text.open) # HasTag(text, chunks[i], text.close)

-----------------------------------------------------------------------------
\* The chunks of a text carry its lines in their order, each once; a line is
\* cut only if it fits no chunk; and a chunk leaves room for its number, twice,
\* as a chunk that is sent as plain text is numbered a second time.
Carried(text) ==
    LET chunks == ChunksOf(text)
        carried == FlattenSeq([i \in DOMAIN chunks |-> chunks[i].lines])
        all == AllLines(text)
    IN /\ Len(carried) = Len(all)
       /\ \A k \in DOMAIN all :
            /\ carried[k].at = all[k].lines[1].at
            /\ carried[k].cut => all[k].size > SafeChunk
       /\ \A i \in DOMAIN chunks :
            chunks[i].size + (IF Len(chunks) = 1 THEN 0 ELSE 2 * Numbering) <= MaxMessage

SmallTextsCarried == \A text \in SmallTexts : Carried(text)
=============================================================================
