----------------------------- MODULE MCChunking -----------------------------
(* All texts of up to three short paragraphs out of twelve. *)
EXTENDS Chunking, SequencesExt

Paragraph(words, extra) ==
    [words |-> words, length |-> FoldLeft(+, Len(words) - 1 + extra, words)]

MCParagraphs ==
    {Paragraph(<<a>>, 0) : a \in {1, 2, 6}}
        \cup {Paragraph(<<a, b>>, x) : a \in {1, 3}, b \in {1, 3}, x \in {0, 1}}
        \cup {Paragraph(<<2, 3, 1>>, 0)}

MCTexts == BoundedSeq(MCParagraphs, 3)
=============================================================================
