------------------------------ MODULE Chunking ------------------------------
(***************************************************************************)
(* chunk_document: a text is cut into units, its paragraphs or, where they *)
(* are too long, runs of their words; and the units are packed into chunks *)
(* of at most max_chars characters.                                        *)
(*                                                                         *)
(* A text is a sequence of paragraphs, a paragraph its length and the      *)
(* lengths of its words; white space inside a paragraph may be longer than *)
(* one character.  Units and chunks are pieces of the text, from one word  *)
(* to another in the order of reading, with the length they have.          *)
(***************************************************************************)
EXTENDS Naturals, Sequences, FiniteSets

CONSTANTS
    Texts,      \* the texts that may be chunked
    Limits      \* the values of max_chars

Paragraphs == {p \in [words : Seq(Nat \ {0}), length : Nat] : Len(p.words) > 0}

ASSUME ChunkingAssumption ==
    /\ Texts \subseteq Seq(Paragraphs)
    /\ Limits \subseteq Nat

VARIABLES
    text,
    limit,
    par,        \* the paragraph being cut
    word,       \* the next word of it
    read,       \* words that are in units
    units,
    next,       \* the next unit to pack
    packed

vars == <<text, limit, par, word, read, units, next, packed>>

Piece(from, to, length) == [from |-> from, to |-> to, length |-> length]

LastOf(s) == s[Len(s)]

(* The last piece, continued by another one behind a gap *)
Extend(s, gap, piece) ==
    [s EXCEPT ![Len(s)] =
        Piece(LastOf(s).from, piece.to, LastOf(s).length + gap + piece.length)]

(* Faulty variants: the gap is not counted; a piece is never quite full. *)
FitsTight(s, gap, piece) == LastOf(s).length + piece.length <= limit

FitsLoose(s, gap, piece) == LastOf(s).length + gap + piece.length < limit

Fits(s, gap, piece) == LastOf(s).length + gap + piece.length <= limit

Init ==
    /\ text \in Texts
    /\ limit \in Limits
    /\ par = 1
    /\ word = 1
    /\ read = 0
    /\ units = <<>>
    /\ next = 1
    /\ packed = <<>>

-----------------------------------------------------------------------------
Cutting == par <= Len(text)

KeepParagraph ==
    /\ Cutting
    /\ text[par].length <= limit
    /\ units' = Append(units,
            Piece(read + 1, read + Len(text[par].words), text[par].length))
    /\ read' = read + Len(text[par].words)
    /\ par' = par + 1
    /\ UNCHANGED <<text, limit, word, next, packed>>

(* The next word, of the next paragraph if there is none left *)
MoveOn ==
    IF word = Len(text[par].words)
    THEN par' = par + 1 /\ word' = 1
    ELSE word' = word + 1 /\ par' = par

(* One turn of the loop of _split_oversized_paragraph *)
TakeWord ==
    /\ Cutting
    /\ text[par].length > limit
    /\ LET piece == Piece(read + 1, read + 1, text[par].words[word])
       IN units' = IF word > 1 /\ Fits(units, 1, piece)
                   THEN Extend(units, 1, piece)
                   ELSE Append(units, piece)
    /\ read' = read + 1
    /\ MoveOn
    /\ UNCHANGED <<text, limit, next, packed>>

(* Faulty variant: what is current when a chunk is full is forgotten. *)
PackUnitOver ==
    /\ ~ Cutting
    /\ next <= Len(units)
    /\ packed' = IF packed # <<>> /\ Fits(packed, 2, units[next])
                 THEN Extend(packed, 2, units[next])
                 ELSE IF packed = <<>> THEN <<units[next]>>
                 ELSE [packed EXCEPT ![Len(packed)] = units[next]]
    /\ next' = next + 1
    /\ UNCHANGED <<text, limit, par, word, read, units>>

(* One turn of the loop of chunk_document over the units *)
PackUnit ==
    /\ ~ Cutting
    /\ next <= Len(units)
    /\ packed' = IF packed # <<>> /\ Fits(packed, 2, units[next])
                 THEN Extend(packed, 2, units[next])
                 ELSE Append(packed, units[next])
    /\ next' = next + 1
    /\ UNCHANGED <<text, limit, par, word, read, units>>

Next == KeepParagraph \/ TakeWord \/ PackUnit

Spec == Init /\ [][Next]_vars

-----------------------------------------------------------------------------
(* Properties *)

Pieces == [from : Nat, to : Nat, length : Nat]

(* Types.  The next word is one of the paragraph that is being cut         *)
(* (chunking.py:9-25), the next unit one of those there are.               *)
TypeOK ==
    /\ text \in Texts
    /\ limit \in Limits
    /\ par \in 1..(Len(text) + 1)
    /\ word \in Nat \ {0}
    /\ Cutting => word \in 1..Len(text[par].words)
    /\ read \in Nat
    /\ units \in Seq(Pieces)
    /\ next \in 1..(Len(units) + 1)
    /\ packed \in Seq(Pieces)

(* A sequence of pieces covers the words up to the n-th, in order and      *)
(* without a gap.                                                          *)
Covers(s, n) ==
    /\ \A k \in 1..Len(s) : s[k].from <= s[k].to
    /\ \A k \in 1..(Len(s) - 1) : s[k + 1].from = s[k].to + 1
    /\ IF s = <<>> THEN n = 0 ELSE s[1].from = 1 /\ LastOf(s).to = n

(* No word is lost, repeated or moved when paragraphs are cut and units    *)
(* are packed: so far, the units cover what was read, and the chunks what  *)
(* was taken from the units (chunking.py:9-50).                            *)
NothingLost ==
    /\ Covers(units, read)
    /\ Covers(packed, IF next = 1 THEN 0 ELSE units[next - 1].to)

(* A chunk is longer than the limit only if it is a single word that is    *)
(* (chunking.py:16, 35, 44).                                               *)
WithinLimit ==
    \A k \in 1..Len(packed) :
        packed[k].length > limit => packed[k].from = packed[k].to

(* How long the units of a sequence are together, from one to another *)
Stretch(s, from, to) ==
    LET upTo[k \in from..to] ==
            s[k].length + (IF k = from THEN 0 ELSE 2 + upTo[k - 1])
    IN upTo[to]

(* Reference: cutting the units behind the given places keeps a limit.     *)
Allowed(s, cuts, most) ==
    \A from \in {1} \cup {c + 1 : c \in cuts}, to \in cuts \cup {Len(s)} :
        from < to /\ (\A c \in cuts : ~ (from <= c /\ c < to)) =>
            Stretch(s, from, to) <= most

(* When all units are packed, there is no other way to cut between them    *)
(* that needs fewer chunks, although each chunk was closed without looking *)
(* ahead (chunking.py:40-50).                                              *)
FewestChunks ==
    ~ Cutting /\ next > Len(units) =>
        \A cuts \in SUBSET (1..(Len(units) - 1)) :
            Allowed(units, cuts, limit) => Len(packed) <= Cardinality(cuts) + 1
=============================================================================
