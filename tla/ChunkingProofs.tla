--------------------------- MODULE ChunkingProofs ---------------------------
(***************************************************************************)
(* Proofs about Chunking, for all texts and limits: the type invariant,    *)
(* that no word is lost or moved, that only a chunk of a single word may   *)
(* be longer than the limit, and that no other way to cut between the      *)
(* units needs fewer chunks; and about Retrieval, for all finite indexes:  *)
(* a search returns what is nearest.                                       *)
(***************************************************************************)
EXTENDS Chunking, Retrieval, SequenceTheorems, FiniteSetTheorems, WellFoundedInduction,
        TLAPS

-----------------------------------------------------------------------------
(* The inductive invariant *)

(* Packing starts when all units are there; only a paragraph that is too   *)
(* long is ever half cut, and then there is a unit of it.                  *)
Phases ==
    /\ Cutting => next = 1 /\ packed = <<>>
    /\ word > 1 => Cutting /\ text[par].length > limit /\ units # <<>>

(* Units obey the limit too. *)
UnitsWithinLimit ==
    \A k \in 1..Len(units) : units[k].length > limit => units[k].from = units[k].to

CutInv ==
    /\ TypeOK
    /\ Phases
    /\ NothingLost
    /\ UnitsWithinLimit
    /\ WithinLimit

-----------------------------------------------------------------------------
(* Pieces and the sequences of them *)

(* A sequence that covers n words, and a piece that starts with the next,  *)
(* cover what the piece ends with.                                         *)
LEMMA AppendCovers ==
    ASSUME NEW s \in Seq(Pieces), NEW n \in Nat, Covers(s, n),
           NEW p \in Pieces, p.from = n + 1, p.from <= p.to
    PROVE  /\ Append(s, p) \in Seq(Pieces)
           /\ Len(Append(s, p)) = Len(s) + 1
           /\ \A k \in 1..Len(s) : Append(s, p)[k] = s[k]
           /\ Append(s, p)[Len(s) + 1] = p
           /\ Covers(Append(s, p), p.to)
<1> DEFINE t == Append(s, p)
<1>1. /\ t \in Seq(Pieces) /\ Len(t) = Len(s) + 1 /\ Len(s) \in Nat
      /\ \A k \in 1..Len(s) : t[k] = s[k]
      /\ t[Len(s) + 1] = p
    OBVIOUS
<1>2. t # <<>> /\ LastOf(t) = p
    BY <1>1 DEF LastOf
<1>3. s = <<>> <=> Len(s) = 0
    OBVIOUS
<1> HIDE DEF t
<1>4. \A k \in 1..Len(t) : t[k].from <= t[k].to
    BY <1>1 DEF Covers
<1>5. ASSUME NEW k \in 1..(Len(t) - 1) PROVE t[k + 1].from = t[k].to + 1
    <2>1. CASE k = Len(s)
        BY <1>1, <1>3, <2>1 DEF Covers, LastOf
    <2>2. CASE k < Len(s)
        BY <1>1, <2>2 DEF Covers
    <2> QED
        BY <1>1, <2>1, <2>2
<1>6. t[1].from = 1
    BY <1>1, <1>3 DEF Covers
<1>7. Covers(t, p.to)
    BY <1>2, <1>4, <1>5, <1>6 DEF Covers
<1> QED
    BY <1>1, <1>7 DEF t

(* The same when the piece becomes part of the last one. *)
LEMMA ExtendCovers ==
    ASSUME NEW s \in Seq(Pieces), s # <<>>, NEW n \in Nat, Covers(s, n),
           NEW gap \in Nat, NEW p \in Pieces, p.from = n + 1, p.from <= p.to
    PROVE  /\ Extend(s, gap, p) \in Seq(Pieces)
           /\ Len(Extend(s, gap, p)) = Len(s)
           /\ \A k \in 1..(Len(s) - 1) : Extend(s, gap, p)[k] = s[k]
           /\ Extend(s, gap, p)[Len(s)].length = LastOf(s).length + gap + p.length
           /\ Covers(Extend(s, gap, p), p.to)
<1> DEFINE t == Extend(s, gap, p)
<1>1. Len(s) \in Nat \ {0} /\ s[Len(s)] \in Pieces /\ LastOf(s) = s[Len(s)]
    BY DEF LastOf
<1> DEFINE x == Piece(LastOf(s).from, p.to, LastOf(s).length + gap + p.length)
<1>2. /\ x \in Pieces /\ x.from = s[Len(s)].from /\ x.to = p.to
      /\ x.length = s[Len(s)].length + gap + p.length
    BY <1>1, SMTT(30) DEF Piece, Pieces
<1>3. t = [s EXCEPT ![Len(s)] = x]
    BY DEF Extend
<1> HIDE DEF x, t
<1>4. /\ t \in Seq(Pieces) /\ Len(t) = Len(s) /\ t[Len(s)] = x
      /\ \A k \in 1..(Len(s) - 1) : t[k] = s[k]
    BY <1>1, <1>2, <1>3
<1>5. t # <<>> /\ LastOf(t) = x
    BY <1>1, <1>4 DEF LastOf
<1>6. n = s[Len(s)].to /\ s[Len(s)].from <= n /\ s[1].from = 1
    BY <1>1 DEF Covers
<1>7. \A k \in 1..Len(t) : t[k].from <= t[k].to
    <2>1. s[Len(s)].from \in Nat /\ p.from \in Nat /\ p.to \in Nat
        BY <1>1 DEF Pieces
    <2>2. t[Len(t)].from <= t[Len(t)].to
        BY <1>2, <1>4, <1>6, <2>1
    <2>3. \A k \in 1..(Len(s) - 1) : t[k].from <= t[k].to
        BY <1>1, <1>4 DEF Covers
    <2> QED
        BY <1>1, <1>4, <2>2, <2>3
<1>8. ASSUME NEW k \in 1..(Len(t) - 1) PROVE t[k + 1].from = t[k].to + 1
    <2>1. s[k + 1].from = s[k].to + 1 /\ t[k] = s[k]
        BY <1>1, <1>4 DEF Covers
    <2>2. t[k + 1].from = s[k + 1].from
        BY <1>1, <1>2, <1>4
    <2> QED
        BY <2>1, <2>2
<1>9. t[1].from = 1
    BY <1>1, <1>2, <1>4, <1>6
<1>10. Covers(t, p.to)
    BY <1>2, <1>5, <1>7, <1>8, <1>9 DEF Covers
<1> QED
    BY <1>1, <1>2, <1>4, <1>10 DEF t

(* There is a first word wherever cutting may go on. *)
LEMMA EveryParagraphHasWords ==
    ASSUME text \in Seq(Paragraphs), NEW k \in 1..Len(text)
    PROVE  Len(text[k].words) \in Nat \ {0} /\ 1 \in 1..Len(text[k].words)
<1>1. text[k] \in Paragraphs
    OBVIOUS
<1>2. text[k].words \in Seq(Nat \ {0}) /\ Len(text[k].words) > 0
    BY <1>1 DEF Paragraphs
<1> QED
    BY <1>2

(* What the paragraph that is being cut is made of. *)
LEMMA ParagraphOfText ==
    ASSUME TypeOK, Cutting
    PROVE  /\ par \in 1..Len(text)
           /\ text[par].length \in Nat
           /\ Len(text[par].words) \in Nat \ {0}
           /\ text[par].words[word] \in Nat
           /\ limit \in Nat
<1>1. text \in Seq(Paragraphs) /\ limit \in Nat
    BY ChunkingAssumption DEF TypeOK
<1>2. par \in 1..Len(text)
    BY <1>1 DEF TypeOK, Cutting
<1>3. text[par] \in Paragraphs
    BY <1>1, <1>2
<1>4. text[par].words \in Seq(Nat \ {0}) /\ text[par].length \in Nat
      /\ Len(text[par].words) > 0
    BY <1>3 DEF Paragraphs
<1> QED
    BY <1>1, <1>2, <1>4, SMTT(30) DEF TypeOK

-----------------------------------------------------------------------------
(* Nothing is cut at first. *)
LEMMA InitCutInv == Init => CutInv
<1> SUFFICES ASSUME Init PROVE CutInv
    OBVIOUS
<1>1. text \in Seq(Paragraphs) /\ limit \in Nat
    BY ChunkingAssumption DEF Init
<1>2. /\ units \in Seq(Pieces) /\ packed \in Seq(Pieces)
      /\ Len(units) = 0 /\ Len(packed) = 0
    BY DEF Init
<1>3. Cutting => 1 \in 1..Len(text[1].words)
    BY <1>1, EveryParagraphHasWords DEF Cutting, Init
<1>4. Len(text) \in Nat
    BY <1>1
<1>5. TypeOK
    BY <1>1, <1>2, <1>3, <1>4 DEF Init, TypeOK
<1>6. NothingLost
    BY <1>2 DEF Init, NothingLost, Covers
<1> QED
    BY <1>2, <1>5, <1>6 DEF Init, CutInv, Phases, UnitsWithinLimit, WithinLimit

(* While units are made, nothing is packed: it is enough to know that the  *)
(* new units cover what is read and obey the limit.                        *)
LEMMA UnitsStep ==
    ASSUME CutInv, Cutting, UNCHANGED <<text, limit, next, packed>>, TypeOK',
           Covers(units', read'), UnitsWithinLimit',
           word' > 1 => Cutting' /\ text'[par'].length > limit' /\ units' # <<>>
    PROVE  CutInv'
<1>1. next = 1 /\ packed = <<>>
    BY DEF CutInv, Phases
<1>2. Covers(packed, 0)
    BY <1>1 DEF CutInv, NothingLost
<1>3. NothingLost'
    BY <1>1, <1>2 DEF NothingLost, Covers, LastOf
<1>4. WithinLimit'
    BY DEF CutInv, WithinLimit
<1>5. Phases'
    BY <1>1 DEF Phases
<1> QED
    BY <1>3, <1>4, <1>5 DEF CutInv

(* A paragraph becomes a unit of its own. *)
LEMMA KeepParagraphStep == CutInv /\ KeepParagraph => CutInv'
<1> SUFFICES ASSUME CutInv, KeepParagraph PROVE CutInv'
    OBVIOUS
<1> DEFINE p == Piece(read + 1, read + Len(text[par].words), text[par].length)
<1>1. TypeOK /\ Cutting /\ Phases
    BY DEF CutInv, KeepParagraph
<1>2. /\ par \in 1..Len(text) /\ text[par].length \in Nat
      /\ Len(text[par].words) \in Nat \ {0} /\ limit \in Nat
      /\ read \in Nat
    BY <1>1, ParagraphOfText DEF TypeOK
<1>3. /\ p \in Pieces /\ p.from = read + 1 /\ p.from <= p.to
      /\ p.to = read + Len(text[par].words) /\ p.length = text[par].length
    BY <1>2 DEF Piece, Pieces
<1>4. units' = Append(units, p) /\ read' = p.to
    BY <1>3 DEF KeepParagraph
<1> HIDE DEF p
<1>5. /\ units \in Seq(Pieces) /\ Len(units) \in Nat
      /\ units' \in Seq(Pieces) /\ Len(units') = Len(units) + 1
      /\ \A k \in 1..Len(units) : units'[k] = units[k]
      /\ units'[Len(units) + 1] = p
      /\ Covers(units', read')
    BY <1>1, <1>2, <1>3, <1>4, AppendCovers, SMTT(30) DEF CutInv, NothingLost, TypeOK
<1>6. UnitsWithinLimit'
    BY <1>2, <1>3, <1>5 DEF CutInv, UnitsWithinLimit, KeepParagraph
<1>7. TypeOK'
    <2>1. word = 1 /\ text \in Seq(Paragraphs)
        BY <1>1, <1>2, ChunkingAssumption DEF Phases, KeepParagraph, TypeOK
    <2>2. Cutting' => par + 1 \in 1..Len(text)
        BY <1>2, <2>1 DEF Cutting, KeepParagraph
    <2>3. Cutting' => 1 \in 1..Len(text[par + 1].words)
        BY <2>1, <2>2, EveryParagraphHasWords
    <2> QED
        BY <1>1, <1>2, <1>3, <1>4, <1>5, <2>1, <2>3, SMTT(30) DEF TypeOK, KeepParagraph
<1>8. word' = 1
    BY <1>1, <1>2 DEF Phases, KeepParagraph, TypeOK
<1> QED
    BY <1>1, <1>5, <1>6, <1>7, <1>8, UnitsStep DEF KeepParagraph

(* A word of a paragraph that is too long continues the unit before it or  *)
(* starts a new one.                                                       *)
LEMMA TakeWordStep == CutInv /\ TakeWord => CutInv'
<1> SUFFICES ASSUME CutInv, TakeWord PROVE CutInv'
    OBVIOUS
<1> DEFINE p == Piece(read + 1, read + 1, text[par].words[word])
<1>1. TypeOK /\ Cutting /\ Phases
    BY DEF CutInv, TakeWord
<1>2. /\ par \in 1..Len(text) /\ text \in Seq(Paragraphs)
      /\ text[par].words[word] \in Nat /\ limit \in Nat /\ read \in Nat
      /\ word \in 1..Len(text[par].words) /\ Len(text[par].words) \in Nat
    BY <1>1, ParagraphOfText, ChunkingAssumption DEF TypeOK
<1>3. /\ p \in Pieces /\ p.from = read + 1 /\ p.to = read + 1 /\ p.from <= p.to
    BY <1>2 DEF Piece, Pieces
<1>4. /\ units' = IF word > 1 /\ Fits(units, 1, p)
                  THEN Extend(units, 1, p)
                  ELSE Append(units, p)
      /\ read' = p.to
    BY <1>3 DEF TakeWord
<1> HIDE DEF p
<1>5. units \in Seq(Pieces) /\ Len(units) \in Nat /\ Covers(units, read)
    BY <1>1 DEF CutInv, NothingLost, TypeOK
<1>6. limit' = limit /\ limit \in Nat /\ read \in Nat
    BY <1>2 DEF TakeWord
<1>7. /\ units' \in Seq(Pieces) /\ Covers(units', read') /\ UnitsWithinLimit'
      /\ Len(units') \in Nat \ {0}
    <2>1. CASE word > 1 /\ Fits(units, 1, p)
        <3>1. units # <<>>
            BY <1>1, <2>1 DEF Phases
        <3>2. /\ units' \in Seq(Pieces) /\ Len(units') = Len(units)
              /\ \A k \in 1..(Len(units) - 1) : units'[k] = units[k]
              /\ units'[Len(units)].length = LastOf(units).length + 1 + p.length
              /\ Covers(units', read')
            <4>1. units' = Extend(units, 1, p) /\ read' = p.to
                BY <1>4, <2>1
            <4> QED
                BY <1>3, <1>5, <1>6, <3>1, <4>1, ExtendCovers
        <3>3. units'[Len(units)].length <= limit
            BY <2>1, <3>2 DEF Fits
        <3>4. units'[Len(units)].length \in Nat
            <4>1. units'[Len(units)] \in Pieces
                BY <1>5, <3>1, <3>2
            <4> QED
                BY <4>1 DEF Pieces
        <3>5. UnitsWithinLimit'
            <4>1. Len(units) \in Nat \ {0}
                BY <1>5, <3>1
            <4>2. ASSUME NEW k \in 1..(Len(units) - 1), units'[k].length > limit
                  PROVE  units'[k].from = units'[k].to
                BY <1>5, <3>2, <4>1, <4>2 DEF CutInv, UnitsWithinLimit
            <4> QED
                BY <1>6, <3>2, <3>3, <3>4, <4>1, <4>2 DEF UnitsWithinLimit
        <3> QED
            BY <1>5, <3>1, <3>2, <3>5
    <2>2. CASE ~ (word > 1 /\ Fits(units, 1, p))
        <3>1. /\ units' \in Seq(Pieces) /\ Len(units') = Len(units) + 1
              /\ \A k \in 1..Len(units) : units'[k] = units[k]
              /\ units'[Len(units) + 1] = p
              /\ Covers(units', read')
            <4>1. units' = Append(units, p) /\ read' = p.to
                BY <1>4, <2>2
            <4> QED
                BY <1>3, <1>5, <1>6, <4>1, AppendCovers
        <3>2. UnitsWithinLimit'
            BY <1>3, <1>5, <1>6, <3>1 DEF CutInv, UnitsWithinLimit
        <3> QED
            BY <1>5, <3>1, <3>2
    <2> QED
        BY <2>1, <2>2
<1>8. CASE word = Len(text[par].words)
    <2>1. par' = par + 1 /\ word' = 1
        BY <1>8 DEF TakeWord, MoveOn
    <2>2. Cutting' => par + 1 \in 1..Len(text)
        BY <1>2, <2>1 DEF Cutting, TakeWord
    <2>3. Cutting' => 1 \in 1..Len(text[par + 1].words)
        BY <1>2, <2>2, EveryParagraphHasWords
    <2>4. TypeOK'
        BY <1>1, <1>2, <1>3, <1>4, <1>5, <1>7, <2>1, <2>3 DEF TypeOK, Phases, TakeWord
    <2> QED
        BY <1>1, <1>7, <2>1, <2>4, UnitsStep DEF TakeWord
<1>9. CASE word # Len(text[par].words)
    <2>1. par' = par /\ word' = word + 1 /\ Cutting'
        BY <1>1, <1>9 DEF Cutting, TakeWord, MoveOn
    <2>2. TypeOK'
        BY <1>1, <1>2, <1>3, <1>4, <1>5, <1>7, <1>9, <2>1, SMTT(30)
           DEF TypeOK, Phases, TakeWord
    <2>3. text'[par'].length > limit'
        BY <2>1 DEF TakeWord
    <2> QED
        BY <1>1, <1>7, <2>1, <2>2, <2>3, UnitsStep DEF TakeWord
<1> QED
    BY <1>8, <1>9

(* A unit continues the last chunk or starts a new one; it is the next one *)
(* in the order of reading.                                                *)
LEMMA PackUnitStep == CutInv /\ PackUnit => CutInv'
<1> SUFFICES ASSUME CutInv, PackUnit PROVE CutInv'
    OBVIOUS
<1> DEFINE n == IF next = 1 THEN 0 ELSE units[next - 1].to
           p == units[next]
<1>1. /\ TypeOK /\ Phases /\ ~ Cutting /\ next \in 1..Len(units)
      /\ units \in Seq(Pieces) /\ Len(units) \in Nat
      /\ packed \in Seq(Pieces) /\ Len(packed) \in Nat
      /\ limit \in Nat
    BY ChunkingAssumption DEF CutInv, PackUnit, TypeOK
<1>2. /\ p \in Pieces /\ n \in Nat /\ p.from \in Nat /\ p.to \in Nat
      /\ p.length \in Nat
    <2>1. p \in Pieces
        BY <1>1
    <2>2. next # 1 => units[next - 1] \in Pieces
        BY <1>1
    <2> QED
        BY <2>1, <2>2 DEF Pieces
<1>3. p.from = n + 1 /\ p.from <= p.to
    <2>1. units # <<>> /\ Covers(units, read)
        BY <1>1 DEF CutInv, NothingLost
    <2>2. CASE next = 1
        BY <1>1, <2>1, <2>2 DEF Covers
    <2>3. CASE next # 1
        <3>1. next - 1 \in 1..(Len(units) - 1) /\ (next - 1) + 1 = next
            BY <1>1, <2>3
        <3> QED
            BY <1>1, <2>1, <2>3, <3>1 DEF Covers
    <2> QED
        BY <2>2, <2>3
<1>4. Covers(packed, n)
    BY DEF CutInv, NothingLost
<1>5. /\ p.length > limit => p.from = p.to
    BY <1>1 DEF CutInv, UnitsWithinLimit
<1>6. /\ UNCHANGED <<text, limit, par, word, read, units>> /\ next' = next + 1
      /\ packed' = IF packed # <<>> /\ Fits(packed, 2, p)
                   THEN Extend(packed, 2, p)
                   ELSE Append(packed, p)
    BY DEF PackUnit
<1>7. p.to = IF next' = 1 THEN 0 ELSE units'[next' - 1].to
    BY <1>1, <1>6
<1> HIDE DEF n, p
<1>8. packed' \in Seq(Pieces) /\ Covers(packed', p.to) /\ WithinLimit'
    <2>1. CASE packed # <<>> /\ Fits(packed, 2, p)
        <3>1. /\ packed' \in Seq(Pieces) /\ Len(packed') = Len(packed)
              /\ \A k \in 1..(Len(packed) - 1) : packed'[k] = packed[k]
              /\ packed'[Len(packed)].length = LastOf(packed).length + 2 + p.length
              /\ Covers(packed', p.to)
            <4>1. packed' = Extend(packed, 2, p)
                BY <1>6, <2>1
            <4> QED
                BY <1>1, <1>2, <1>3, <1>4, <2>1, <4>1, ExtendCovers
        <3>2. packed'[Len(packed)].length <= limit
            BY <2>1, <3>1, SMTT(30) DEF Fits
        <3>3. packed'[Len(packed)].length \in Nat
            <4>1. packed'[Len(packed)] \in Pieces
                BY <1>1, <2>1, <3>1
            <4> QED
                BY <4>1 DEF Pieces
        <3>4. WithinLimit'
            <4>1. Len(packed) \in Nat \ {0} /\ limit' = limit
                BY <1>1, <1>6, <2>1
            <4>2. ASSUME NEW k \in 1..(Len(packed) - 1), packed'[k].length > limit
                  PROVE  packed'[k].from = packed'[k].to
                BY <1>1, <3>1, <4>1, <4>2 DEF CutInv, WithinLimit
            <4> QED
                BY <1>1, <3>1, <3>2, <3>3, <4>1, <4>2 DEF WithinLimit
        <3> QED
            BY <3>1, <3>4
    <2>2. CASE ~ (packed # <<>> /\ Fits(packed, 2, p))
        <3>1. /\ packed' \in Seq(Pieces) /\ Len(packed') = Len(packed) + 1
              /\ \A k \in 1..Len(packed) : packed'[k] = packed[k]
              /\ packed'[Len(packed) + 1] = p
              /\ Covers(packed', p.to)
            <4>1. packed' = Append(packed, p)
                BY <1>6, <2>2
            <4> QED
                BY <1>1, <1>2, <1>3, <1>4, <4>1, AppendCovers
        <3>2. WithinLimit'
            <4>1. limit' = limit
                BY <1>6
            <4>2. WithinLimit /\ Len(packed) \in Nat
                BY <1>1 DEF CutInv
            <4> QED
                BY <1>5, <3>1, <4>1, <4>2 DEF WithinLimit
        <3> QED
            BY <3>1, <3>2
    <2> QED
        BY <2>1, <2>2
<1>9. TypeOK'
    BY <1>1, <1>6, <1>8 DEF TypeOK, Cutting
<1>10. NothingLost'
    <2>1. Covers(units', read')
        BY <1>6 DEF CutInv, NothingLost, Covers, LastOf
    <2> QED
        BY <1>7, <1>8, <2>1 DEF NothingLost
<1> QED
    BY <1>1, <1>6, <1>8, <1>9, <1>10
       DEF CutInv, Phases, Cutting, UnitsWithinLimit

(* The invariant holds in every reachable state. *)
LEMMA CutInvHolds == Spec => []CutInv
<1>1. CutInv /\ [Next]_vars => CutInv'
    <2> SUFFICES ASSUME CutInv, [Next]_vars PROVE CutInv'
        OBVIOUS
    <2>1. CASE UNCHANGED vars
        BY <2>1 DEF vars, CutInv, TypeOK, Cutting, Phases, NothingLost, Covers,
            LastOf, UnitsWithinLimit, WithinLimit
    <2> QED
        BY <2>1, KeepParagraphStep, TakeWordStep, PackUnitStep DEF Next
<1> QED
    BY <1>1, InitCutInv, PTL DEF Spec

-----------------------------------------------------------------------------
(* The variables stay in their domains: a paragraph is never read behind   *)
(* its last word (chunking.py:9-25).                                       *)
THEOREM TypeCorrect == Spec => []TypeOK
<1>1. CutInv => TypeOK
    BY DEF CutInv
<1> QED
    BY <1>1, CutInvHolds, PTL

(* Units and chunks cover the text they were made of, in its order and     *)
(* without a gap or an overlap (chunking.py:28-50).                        *)
THEOREM NothingLostHolds == Spec => []NothingLost
<1>1. CutInv => NothingLost
    BY DEF CutInv
<1> QED
    BY <1>1, CutInvHolds, PTL

(* Only a chunk of a single word may be longer than the limit              *)
(* (chunking.py:16, 35, 44).                                               *)
THEOREM WithinLimitHolds == Spec => []WithinLimit
<1>1. CutInv => WithinLimit
    BY DEF CutInv
<1> QED
    BY <1>1, CutInvHolds, PTL
-----------------------------------------------------------------------------
(* Induction over numbers, for sets: the library's own theorems about it   *)
(* take a predicate, which the backends cannot instantiate.                *)

(* The numbers are well-founded. *)
LEMMA LeastNatural ==
    ASSUME NEW T \in SUBSET Nat, T # {}
    PROVE  \E x \in T : \A y \in T : x <= y
<1>1. PICK x \in T : \A y \in T : ~ (<<y, x>> \in OpToRel(<, Nat))
    BY NatLessThanWellFounded, WFMin, Zenon
<1>2. \A y \in T : ~ (y < x)
    BY <1>1, Zenon DEF OpToRel
<1>3. x \in Nat /\ \A y \in T : y \in Nat
    OBVIOUS
<1> QED
    BY <1>2, <1>3

(* Induction from a number on, over a set instead of a predicate. *)
LEMMA NaturalsFrom ==
    ASSUME NEW S, NEW m \in Nat, m \in S,
           \A n \in Nat : m <= n /\ n \in S => n + 1 \in S
    PROVE  \A n \in Nat : m <= n => n \in S
<1> DEFINE T == {n \in Nat : m <= n /\ n \notin S}
<1> SUFFICES ASSUME T # {} PROVE FALSE
    OBVIOUS
<1>1. PICK x \in T : \A y \in T : x <= y
    BY LeastNatural
<1>2. x \in Nat /\ m < x /\ x \notin S
    BY <1>1
<1>3. x - 1 \in Nat /\ m <= x - 1 /\ x - 1 \notin T
    BY <1>1, <1>2
<1>4. x - 1 \in S
    BY <1>3
<1> QED
    BY <1>2, <1>3, <1>4

-----------------------------------------------------------------------------
(* The recursive function behind Stretch *)

(* A function that adds the lengths up, as its definition asks *)
Sums(s, from, to, g) ==
    g = [k \in from..to |-> s[k].length + (IF k = from THEN 0 ELSE 2 + g[k - 1])]

(* There is one, made longer unit by unit. *)
LEMMA SumsExist ==
    ASSUME NEW s, NEW from \in Nat
    PROVE  \A to \in Nat : from <= to => \E g : Sums(s, from, to, g)
<1> DEFINE S == {n \in Nat : \E g : Sums(s, from, n, g)}
<1>1. from \in S
    <2> DEFINE g == [k \in from..from |-> s[k].length + 0]
    <2>1. Sums(s, from, from, g)
        BY DEF Sums
    <2> QED
        BY <2>1
<1>2. ASSUME NEW n \in Nat, from <= n, n \in S PROVE n + 1 \in S
    <2>1. PICK g : Sums(s, from, n, g)
        BY <1>2
    <2> DEFINE h == [k \in from..(n + 1) |->
                        s[k].length + (IF k = from THEN 0 ELSE 2 + g[k - 1])]
    <2>2. ASSUME NEW k \in from..n PROVE h[k] = g[k]
        BY <1>2, <2>1 DEF Sums
    <2>3. ASSUME NEW k \in from..(n + 1), k # from PROVE h[k - 1] = g[k - 1]
        <3>1. k - 1 \in from..n
            BY <1>2, <2>3
        <3> QED
            BY <2>2, <3>1
    <2>4. Sums(s, from, n + 1, h)
        <3>1. h = [k \in from..(n + 1) |->
                    s[k].length + (IF k = from THEN 0 ELSE 2 + h[k - 1])]
            BY <2>3
        <3> QED
            BY <3>1 DEF Sums
    <2> QED
        BY <2>4
<1> HIDE DEF S
<1>3. \A n \in Nat : from <= n => n \in S
    BY <1>1, <1>2, NaturalsFrom
<1> QED
    BY <1>3 DEF S

(* So Stretch is the value of one. *)
LEMMA StretchSums ==
    ASSUME NEW s, NEW from \in Nat, NEW to \in Nat, from <= to
    PROVE  \E g : Sums(s, from, to, g) /\ Stretch(s, from, to) = g[to]
<1> DEFINE g == CHOOSE h : Sums(s, from, to, h)
<1>1. Sums(s, from, to, g)
    BY SumsExist, Zenon
<1>2. Stretch(s, from, to) = g[to]
    BY Zenon DEF Stretch, Sums
<1> QED
    BY <1>1, <1>2

(* Two of them agree where both are defined. *)
LEMMA SumsAgree ==
    ASSUME NEW s, NEW from \in Nat, NEW m \in Nat, NEW n \in Nat, from <= m, m <= n
    PROVE  \A g, h : Sums(s, from, m, g) /\ Sums(s, from, n, h) =>
                \A k \in from..m : g[k] = h[k]
<1> SUFFICES ASSUME NEW g, NEW h, Sums(s, from, m, g), Sums(s, from, n, h)
             PROVE  \A k \in from..m : g[k] = h[k]
    OBVIOUS
<1> DEFINE S == {k \in Nat : k <= m => g[k] = h[k]}
<1>1. /\ \A k \in from..m : g[k] = s[k].length + (IF k = from THEN 0 ELSE 2 + g[k - 1])
      /\ \A k \in from..m : h[k] = s[k].length + (IF k = from THEN 0 ELSE 2 + h[k - 1])
    <2>1. \A k \in from..m : k \in from..n
        OBVIOUS
    <2> QED
        BY <2>1 DEF Sums
<1>2. from \in S
    BY <1>1
<1>3. ASSUME NEW k \in Nat, from <= k, k \in S PROVE k + 1 \in S
    <2> SUFFICES ASSUME k + 1 <= m PROVE g[k + 1] = h[k + 1]
        OBVIOUS
    <2>1. g[k] = h[k] /\ k + 1 \in from..m /\ k + 1 # from /\ (k + 1) - 1 = k
        BY <1>3
    <2> QED
        BY <1>1, <2>1
<1> HIDE DEF S
<1>4. \A k \in Nat : from <= k => k \in S
    BY <1>2, <1>3, NaturalsFrom
<1> QED
    BY <1>4 DEF S

(* Pieces have lengths. *)
LEMMA LengthsOfPieces ==
    ASSUME NEW s \in Seq(Pieces)
    PROVE  Len(s) \in Nat /\ \A k \in 1..Len(s) : s[k].length \in Nat
<1>1. \A k \in 1..Len(s) : s[k] \in Pieces
    OBVIOUS
<1> QED
    BY <1>1 DEF Pieces

(* A single unit is as long as it is. *)
LEMMA StretchOfOne ==
    ASSUME NEW s \in Seq(Pieces), NEW from \in 1..Len(s)
    PROVE  Stretch(s, from, from) = s[from].length
<1>1. PICK g : Sums(s, from, from, g) /\ Stretch(s, from, from) = g[from]
    BY StretchSums
<1>2. g[from] = s[from].length + 0
    BY <1>1 DEF Sums
<1>3. s[from].length \in Nat
    BY LengthsOfPieces
<1> QED
    BY <1>1, <1>2, <1>3

(* One more unit adds its length and a gap. *)
LEMMA StretchOfMore ==
    ASSUME NEW s, NEW from \in Nat, NEW to \in Nat, from <= to
    PROVE  Stretch(s, from, to + 1) = s[to + 1].length + (2 + Stretch(s, from, to))
<1>1. PICK g : Sums(s, from, to, g) /\ Stretch(s, from, to) = g[to]
    BY StretchSums
<1>2. PICK h : Sums(s, from, to + 1, h) /\ Stretch(s, from, to + 1) = h[to + 1]
    BY StretchSums
<1>3. g[to] = h[to]
    <2>1. to \in from..to /\ to <= to + 1 /\ to + 1 \in Nat
        OBVIOUS
    <2>2. \A x, y : Sums(s, from, to, x) /\ Sums(s, from, to + 1, y) =>
            \A k \in from..to : x[k] = y[k]
        BY <2>1, SumsAgree
    <2>3. \A k \in from..to : g[k] = h[k]
        BY <1>1, <1>2, <2>2
    <2> QED
        BY <2>1, <2>3
<1>4. h[to + 1] = s[to + 1].length + (2 + h[(to + 1) - 1])
    <2>1. to + 1 \in from..(to + 1) /\ to + 1 # from
        OBVIOUS
    <2> QED
        BY <1>2, <2>1 DEF Sums
<1>5. (to + 1) - 1 = to
    OBVIOUS
<1> QED
    BY <1>1, <1>2, <1>3, <1>4, <1>5

(* Together, units have a length too, *)
LEMMA StretchType ==
    ASSUME NEW s \in Seq(Pieces), NEW from \in 1..Len(s)
    PROVE  \A to \in from..Len(s) : Stretch(s, from, to) \in Nat
<1> DEFINE S == {n \in Nat : n <= Len(s) => Stretch(s, from, n) \in Nat}
<1>1. Len(s) \in Nat /\ from \in Nat /\ from <= Len(s)
    OBVIOUS
<1>2. \A k \in 1..Len(s) : s[k].length \in Nat
    BY LengthsOfPieces
<1>3. from \in S
    BY <1>1, <1>2, StretchOfOne
<1>4. ASSUME NEW n \in Nat, from <= n, n \in S PROVE n + 1 \in S
    <2>1. Stretch(s, from, n + 1) = s[n + 1].length + (2 + Stretch(s, from, n))
        BY <1>4, StretchOfMore
    <2>2. n + 1 <= Len(s) => s[n + 1].length \in Nat /\ Stretch(s, from, n) \in Nat
        BY <1>1, <1>2, <1>4
    <2> QED
        BY <2>1, <2>2
<1> HIDE DEF S
<1>5. \A n \in Nat : from <= n => n \in S
    BY <1>1, <1>3, <1>4, NaturalsFrom
<1>6. \A to \in from..Len(s) : to \in Nat /\ from <= to /\ to <= Len(s)
    BY <1>1
<1> QED
    BY <1>5, <1>6 DEF S

(* which more units never make smaller. *)
LEMMA StretchGrows ==
    ASSUME NEW s \in Seq(Pieces), NEW from \in 1..Len(s), NEW to \in from..Len(s)
    PROVE  \A n \in to..Len(s) : Stretch(s, from, to) <= Stretch(s, from, n)
<1> DEFINE S == {n \in Nat : n <= Len(s) =>
                    Stretch(s, from, to) <= Stretch(s, from, n)}
<1>1. /\ Len(s) \in Nat /\ from \in Nat /\ to \in Nat /\ from <= to /\ to <= Len(s)
      /\ \A k \in 1..Len(s) : s[k].length \in Nat
      /\ \A n \in from..Len(s) : Stretch(s, from, n) \in Nat
    BY StretchType, LengthsOfPieces
<1>2. to \in S
    <2>1. Stretch(s, from, to) \in Nat
        BY <1>1
    <2> QED
        BY <1>1, <2>1
<1>3. ASSUME NEW n \in Nat, to <= n, n \in S PROVE n + 1 \in S
    <2> SUFFICES ASSUME n + 1 <= Len(s)
                 PROVE  Stretch(s, from, to) <= Stretch(s, from, n + 1)
        OBVIOUS
    <2>1. Stretch(s, from, n + 1) = s[n + 1].length + (2 + Stretch(s, from, n))
        BY <1>1, <1>3, StretchOfMore
    <2>2. /\ s[n + 1].length \in Nat
          /\ Stretch(s, from, n) \in Nat /\ Stretch(s, from, to) \in Nat
        BY <1>1, <1>3
    <2>3. Stretch(s, from, to) <= Stretch(s, from, n)
        BY <1>1, <1>3
    <2> HIDE DEF S
    <2> QED
        BY <2>1, <2>2, <2>3
<1> HIDE DEF S
<1>4. \A n \in Nat : to <= n => n \in S
    BY <1>1, <1>2, <1>3, NaturalsFrom
<1>5. \A n \in to..Len(s) : n \in Nat /\ to <= n /\ n <= Len(s)
    BY <1>1
<1> QED
    BY <1>4, <1>5 DEF S

-----------------------------------------------------------------------------
(* Another way to cut: a set of the units that have a cut behind them *)

(* A chunk between the cuts starts with a unit, and is not over before the *)
(* n-th one.                                                               *)
Open(cuts, from, n) ==
    /\ from = 1 \/ (\E c \in cuts : from = c + 1)
    /\ from <= n
    /\ \A c \in cuts : ~ (from <= c /\ c < n)

(* How many chunks the cuts have made of the first n units *)
ChunksOf(cuts, n) == Cardinality(cuts \cap (1..(n - 1))) + 1

(* There is always a chunk that is open: after the last cut. *)
LEMMA SomeChunkOpen ==
    ASSUME NEW cuts \in SUBSET (Nat \ {0}), NEW n \in Nat \ {0}
    PROVE  \E from \in 1..n : Open(cuts, from, n)
<1> DEFINE T == {k \in Nat : k < n /\ (n - k = 1 \/ \E c \in cuts : n - k = c + 1)}
<1>1. n - 1 \in T
    OBVIOUS
<1>2. PICK k \in T : \A j \in T : k <= j
    BY <1>1, LeastNatural
<1>3. k \in Nat /\ k < n /\ (n - k = 1 \/ \E c \in cuts : n - k = c + 1)
    OBVIOUS
<1>4. ASSUME NEW c \in cuts, n - k <= c, c < n PROVE FALSE
    <2>1. c \in Nat /\ n - (c + 1) \in Nat
        BY <1>4
    <2>2. n - (c + 1) \in T
        BY <2>1
    <2> QED
        BY <1>2, <1>3, <1>4, <2>1, <2>2
<1>5. n - k \in 1..n /\ n - k <= n
    BY <1>3
<1> QED
    BY <1>3, <1>4, <1>5 DEF Open

(* And it is cut somewhere, or ends with the last unit. *)
LEMMA SomeEnd ==
    ASSUME NEW cuts \in SUBSET (Nat \ {0}), NEW last \in Nat, NEW n \in 1..last,
           \A c \in cuts : c <= last
    PROVE  \E to \in n..last : /\ to \in cuts \cup {last}
                               /\ \A c \in cuts : ~ (n <= c /\ c < to)
<1> DEFINE T == {t \in cuts \cup {last} : n <= t}
<1>1. last \in T /\ T \in SUBSET Nat
    <2>1. last \in T
        OBVIOUS
    <2>2. \A t \in cuts \cup {last} : t \in Nat
        OBVIOUS
    <2> QED
        BY <2>1, <2>2
<1>2. PICK t \in T : \A j \in T : t <= j
    BY <1>1, LeastNatural
<1>3. t \in n..last
    BY <1>1, <1>2
<1>4. ASSUME NEW c \in cuts, n <= c, c < t PROVE FALSE
    BY <1>1, <1>2, <1>3, <1>4
<1> QED
    BY <1>2, <1>3, <1>4

(* One more unit makes one more chunk if there is a cut before it. *)
LEMMA ChunksOfNext ==
    ASSUME NEW cuts \in SUBSET (Nat \ {0}), NEW n \in Nat \ {0}
    PROVE  /\ ChunksOf(cuts, n) \in Nat
           /\ ChunksOf(cuts, n + 1) = IF n \in cuts THEN ChunksOf(cuts, n) + 1
                                                    ELSE ChunksOf(cuts, n)
<1> DEFINE A == cuts \cap (1..(n - 1))
           B == cuts \cap (1..((n + 1) - 1))
<1>1. IsFiniteSet(A)
    <2>1. IsFiniteSet(1..(n - 1))
        <3>1. 1 \in Int /\ n - 1 \in Int
            OBVIOUS
        <3> QED
            BY <3>1, FS_Interval
    <2>2. A \subseteq 1..(n - 1)
        OBVIOUS
    <2> QED
        BY <2>1, <2>2, FS_Subset
<1>2. Cardinality(A) \in Nat
    BY <1>1, FS_CardinalityType
<1>3. CASE n \in cuts
    <2>1. B = A \cup {n} /\ n \notin A
        BY <1>3
    <2>2. Cardinality(B) = Cardinality(A) + 1
        BY <1>1, <2>1, FS_AddElement
    <2> QED
        BY <1>2, <1>3, <2>2 DEF ChunksOf
<1>4. CASE n \notin cuts
    <2>1. B = A
        BY <1>4
    <2> QED
        BY <1>2, <1>4, <2>1 DEF ChunksOf
<1> QED
    BY <1>3, <1>4

(* A single chunk to begin with *)
LEMMA ChunksOfFirst ==
    ASSUME NEW cuts PROVE ChunksOf(cuts, 1) = 1
<1>1. cuts \cap (1..(1 - 1)) = {}
    OBVIOUS
<1> QED
    BY <1>1, FS_EmptySet DEF ChunksOf

-----------------------------------------------------------------------------
(* Greedy packing stays ahead of any other way to cut. *)

(* After n units, `count` chunks of which the last has `size` characters   *)
(* are at most as many as the cuts make, and if they are as many, no open  *)
(* chunk of the cuts is shorter.                                           *)
Ahead(s, cuts, n, count, size) ==
    /\ count <= ChunksOf(cuts, n)
    /\ count = ChunksOf(cuts, n) =>
            \A from \in 1..n : Open(cuts, from, n) => size <= Stretch(s, from, n)

(* With one unit, there is one chunk on both sides. *)
LEMMA AheadAtFirst ==
    ASSUME NEW s \in Seq(Pieces), Len(s) > 0, NEW cuts
    PROVE  Ahead(s, cuts, 1, 1, s[1].length)
<1>1. Stretch(s, 1, 1) = s[1].length /\ s[1].length \in Nat
    BY StretchOfOne, LengthsOfPieces
<1> QED
    BY <1>1, ChunksOfFirst DEF Ahead

(* A unit that fits: the cuts may have put it into a new chunk. *)
LEMMA AheadExtend ==
    ASSUME NEW s \in Seq(Pieces), NEW n \in 1..(Len(s) - 1),
           NEW cuts \in SUBSET (1..(Len(s) - 1)),
           NEW count \in Nat, NEW size \in Nat, Ahead(s, cuts, n, count, size)
    PROVE  Ahead(s, cuts, n + 1, count, size + 2 + s[n + 1].length)
<1>1. cuts \in SUBSET (Nat \ {0}) /\ n \in Nat \ {0} /\ Len(s) \in Nat
    OBVIOUS
<1>2. /\ ChunksOf(cuts, n) \in Nat
      /\ ChunksOf(cuts, n + 1) = IF n \in cuts THEN ChunksOf(cuts, n) + 1
                                                ELSE ChunksOf(cuts, n)
    BY <1>1, ChunksOfNext
<1>3. count <= ChunksOf(cuts, n + 1)
    BY <1>2 DEF Ahead
<1>4. ASSUME count = ChunksOf(cuts, n + 1), NEW from \in 1..(n + 1),
             Open(cuts, from, n + 1)
      PROVE  size + 2 + s[n + 1].length <= Stretch(s, from, n + 1)
    <2>1. n \notin cuts /\ count = ChunksOf(cuts, n)
        BY <1>2, <1>4 DEF Ahead
    <2>2. from # n + 1
        BY <1>1, <1>4, <2>1 DEF Open
    <2>3. from \in 1..n /\ Open(cuts, from, n)
        BY <1>1, <1>4, <2>2 DEF Open
    <2>4. size <= Stretch(s, from, n)
        BY <2>1, <2>3 DEF Ahead
    <2>5. Stretch(s, from, n + 1) = s[n + 1].length + (2 + Stretch(s, from, n))
        <3>1. from \in Nat /\ n \in Nat /\ from <= n
            BY <1>1, <2>3
        <3> QED
            BY <3>1, StretchOfMore
    <2>6. s[n + 1].length \in Nat /\ Stretch(s, from, n) \in Nat
        <3>1. n + 1 \in 1..Len(s) /\ from \in 1..Len(s) /\ n \in from..Len(s)
            BY <1>1, <2>3
        <3> QED
            BY <3>1, StretchType, LengthsOfPieces
    <2> QED
        BY <2>4, <2>5, <2>6
<1> QED
    BY <1>3, <1>4 DEF Ahead

(* A unit that does not: then the cuts have made more chunks before, or    *)
(* cut here, or else a chunk of theirs is longer than the limit.           *)
LEMMA AheadAppend ==
    ASSUME NEW s \in Seq(Pieces), NEW n \in 1..(Len(s) - 1),
           NEW cuts \in SUBSET (1..(Len(s) - 1)), NEW most \in Nat,
           Allowed(s, cuts, most),
           NEW count \in Nat, NEW size \in Nat, Ahead(s, cuts, n, count, size),
           size + 2 + s[n + 1].length > most
    PROVE  Ahead(s, cuts, n + 1, count + 1, s[n + 1].length)
<1>1. cuts \in SUBSET (Nat \ {0}) /\ n \in Nat \ {0} /\ Len(s) \in Nat
    OBVIOUS
<1>2. /\ ChunksOf(cuts, n) \in Nat
      /\ ChunksOf(cuts, n + 1) = IF n \in cuts THEN ChunksOf(cuts, n) + 1
                                                ELSE ChunksOf(cuts, n)
    BY <1>1, ChunksOfNext
<1>3. s[n + 1].length \in Nat
    BY <1>1, LengthsOfPieces
<1>4. ASSUME n \notin cuts PROVE count < ChunksOf(cuts, n)
    <2> SUFFICES ASSUME count = ChunksOf(cuts, n) PROVE FALSE
        BY <1>2 DEF Ahead
    <2>1. PICK from \in 1..n : Open(cuts, from, n)
        BY <1>1, SomeChunkOpen
    <2>2. size <= Stretch(s, from, n) /\ Stretch(s, from, n) \in Nat
        <3>1. from \in 1..Len(s) /\ n \in from..Len(s)
            BY <1>1, <2>1
        <3> QED
            BY <2>1, <3>1, StretchType DEF Ahead
    <2>3. Stretch(s, from, n + 1) = s[n + 1].length + (2 + Stretch(s, from, n))
        <3>1. from \in Nat /\ n \in Nat /\ from <= n
            BY <1>1, <2>1
        <3> QED
            BY <3>1, StretchOfMore
    <2>4. PICK to \in (n + 1)..Len(s) : /\ to \in cuts \cup {Len(s)}
                                       /\ \A c \in cuts : ~ (n + 1 <= c /\ c < to)
        <3>1. n + 1 \in 1..Len(s)
            BY <1>1
        <3>2. \A c \in cuts : c <= Len(s)
            BY <1>1
        <3> QED
            BY <1>1, <3>1, <3>2, SomeEnd
    <2>5. Stretch(s, from, n + 1) <= Stretch(s, from, to) /\ Stretch(s, from, to) \in Nat
        <3>1. /\ from \in 1..Len(s) /\ n + 1 \in from..Len(s)
              /\ to \in (n + 1)..Len(s) /\ to \in from..Len(s)
            BY <1>1, <2>1, <2>4
        <3> QED
            BY <3>1, StretchType, StretchGrows
    <2>6. \A c \in cuts : ~ (from <= c /\ c < to)
        BY <1>1, <1>4, <2>1, <2>4 DEF Open
    <2>7. from \in {1} \cup {c + 1 : c \in cuts} /\ from < to
        BY <1>1, <2>1, <2>4 DEF Open
    <2>8. Stretch(s, from, to) <= most
        BY <2>4, <2>6, <2>7 DEF Allowed
    <2> QED
        BY <1>3, <2>2, <2>3, <2>5, <2>8, SMTT(30)
<1>5. count + 1 <= ChunksOf(cuts, n + 1)
    BY <1>2, <1>4 DEF Ahead
<1>6. ASSUME NEW from \in 1..(n + 1), Open(cuts, from, n + 1)
      PROVE  s[n + 1].length <= Stretch(s, from, n + 1)
    <2>1. CASE from = n + 1
        <3>1. Stretch(s, n + 1, n + 1) = s[n + 1].length
            BY <1>1, StretchOfOne
        <3> QED
            BY <1>3, <2>1, <3>1
    <2>2. CASE from # n + 1
        <3>1. from \in 1..n
            BY <1>1, <2>2
        <3>2. Stretch(s, from, n + 1) = s[n + 1].length + (2 + Stretch(s, from, n))
            <4>1. from \in Nat /\ n \in Nat /\ from <= n
                BY <1>1, <3>1
            <4> QED
                BY <4>1, StretchOfMore
        <3>3. Stretch(s, from, n) \in Nat
            <4>1. from \in 1..Len(s) /\ n \in from..Len(s)
                BY <1>1, <3>1
            <4> QED
                BY <4>1, StretchType
        <3> QED
            BY <1>3, <3>2, <3>3, SMTT(30)
    <2> QED
        BY <2>1, <2>2
<1> QED
    BY <1>5, <1>6 DEF Ahead

(* No way to cut that keeps the limit is ahead of the packer, and the      *)
(* chunk it has open is no longer than theirs.                             *)
GreedyAhead ==
    next > 1 =>
        /\ packed # <<>>
        /\ \A cuts \in SUBSET (1..(Len(units) - 1)) :
              Allowed(units, cuts, limit) =>
                  Ahead(units, cuts, next - 1, Len(packed), LastOf(packed).length)

(* The inductive invariant of FewestChunks *)
PackInv == CutInv /\ GreedyAhead /\ (next = 1 => packed = <<>>)

(* Nothing is packed at first. *)
LEMMA InitPackInv == Init => PackInv
    BY InitCutInv DEF Init, PackInv, GreedyAhead

(* Before anything is packed there is nothing to compare. *)
LEMMA UnitsPackInv ==
    PackInv /\ (KeepParagraph \/ TakeWord) => PackInv'
<1> SUFFICES ASSUME PackInv, KeepParagraph \/ TakeWord PROVE PackInv'
    OBVIOUS
<1>1. CutInv'
    BY KeepParagraphStep, TakeWordStep DEF PackInv
<1>2. next = 1 /\ packed = <<>> /\ next' = 1 /\ packed' = <<>>
    BY DEF PackInv, CutInv, Phases, KeepParagraph, TakeWord
<1> QED
    BY <1>1, <1>2 DEF PackInv, GreedyAhead

(* The chunk that is open after a unit that fits and one that does not *)
LEMMA Packing ==
    ASSUME NEW s \in Seq(Pieces), NEW p \in Pieces
    PROVE  /\ Append(s, p) # <<>> /\ Len(Append(s, p)) = Len(s) + 1
           /\ LastOf(Append(s, p)) = p
           /\ s # <<>> =>
                /\ LastOf(s).length \in Nat
                /\ Extend(s, 2, p) # <<>> /\ Len(Extend(s, 2, p)) = Len(s)
                /\ LastOf(Extend(s, 2, p)).length = LastOf(s).length + 2 + p.length
<1>1. Append(s, p) # <<>> /\ Len(Append(s, p)) = Len(s) + 1 /\ LastOf(Append(s, p)) = p
    BY DEF LastOf
<1>2. ASSUME s # <<>>
      PROVE  /\ LastOf(s).length \in Nat
             /\ Extend(s, 2, p) # <<>> /\ Len(Extend(s, 2, p)) = Len(s)
             /\ LastOf(Extend(s, 2, p)).length = LastOf(s).length + 2 + p.length
    <2> DEFINE x == Piece(LastOf(s).from, p.to, LastOf(s).length + 2 + p.length)
    <2>1. Len(s) \in Nat \ {0} /\ LastOf(s) = s[Len(s)] /\ s[Len(s)] \in Pieces
        BY <1>2 DEF LastOf
    <2>2. x \in Pieces /\ x.length = LastOf(s).length + 2 + p.length
        BY <2>1 DEF Piece, Pieces
    <2>3. Extend(s, 2, p) = [s EXCEPT ![Len(s)] = x]
        BY DEF Extend
    <2> HIDE DEF x
    <2>4. /\ Extend(s, 2, p) \in Seq(Pieces) /\ Len(Extend(s, 2, p)) = Len(s)
          /\ Extend(s, 2, p)[Len(s)] = x
        BY <2>1, <2>2, <2>3
    <2>5. LastOf(Extend(s, 2, p)) = x
        BY <2>4 DEF LastOf
    <2> QED
        BY <2>1, <2>2, <2>4, <2>5 DEF Pieces
<1> QED
    BY <1>1, <1>2

(* A unit is packed, and the packer stays ahead. *)
LEMMA PackUnitPackInv == PackInv /\ PackUnit => PackInv'
<1> SUFFICES ASSUME PackInv, PackUnit PROVE PackInv'
    OBVIOUS
<1> DEFINE n == next - 1
           p == units[next]
<1>1. /\ next \in 1..Len(units) /\ units \in Seq(Pieces) /\ Len(units) \in Nat
      /\ packed \in Seq(Pieces) /\ Len(packed) \in Nat /\ limit \in Nat
    BY ChunkingAssumption DEF PackInv, CutInv, PackUnit, TypeOK
<1>2. p \in Pieces /\ p.length \in Nat
    BY <1>1, LengthsOfPieces
<1>3. CutInv'
    BY PackUnitStep DEF PackInv
<1>4. /\ limit' = limit /\ units' = units /\ next' = next + 1
      /\ packed' = IF packed # <<>> /\ Fits(packed, 2, p)
                   THEN Extend(packed, 2, p)
                   ELSE Append(packed, p)
    BY DEF PackUnit
<1>5. next' - 1 = next /\ next' # 1
    BY <1>1, <1>4
<1> SUFFICES /\ packed' # <<>>
             /\ \A cuts \in SUBSET (1..(Len(units) - 1)) :
                  Allowed(units, cuts, limit) =>
                      Ahead(units, cuts, next, Len(packed'), LastOf(packed').length)
    BY <1>3, <1>4, <1>5 DEF PackInv, GreedyAhead
<1> HIDE DEF p
<1>6. ASSUME packed = <<>>
      PROVE  /\ packed' # <<>>
             /\ \A cuts : Ahead(units, cuts, next, Len(packed'), LastOf(packed').length)
    <2>1. next = 1 /\ Len(units) > 0 /\ Len(packed) = 0
        BY <1>1, <1>6 DEF PackInv, GreedyAhead
    <2>2. packed' = Append(packed, p)
        BY <1>4, <1>6
    <2>3. packed' # <<>> /\ Len(packed') = 1 /\ LastOf(packed') = units[1]
        <3>1. /\ Append(packed, p) # <<>> /\ Len(Append(packed, p)) = Len(packed) + 1
              /\ LastOf(Append(packed, p)) = p
            BY <1>1, <1>2, Packing
        <3> QED
            BY <2>1, <2>2, <3>1 DEF p
    <2> QED
        BY <1>1, <2>1, <2>3, AheadAtFirst
<1>7. ASSUME packed # <<>>
      PROVE  /\ n \in 1..(Len(units) - 1) /\ n + 1 = next /\ p = units[n + 1]
             /\ LastOf(packed).length \in Nat
             /\ \A cuts \in SUBSET (1..(Len(units) - 1)) :
                  Allowed(units, cuts, limit) =>
                      Ahead(units, cuts, n, Len(packed), LastOf(packed).length)
    <2>1. next # 1
        BY <1>7 DEF PackInv
    <2>2. n \in 1..(Len(units) - 1) /\ n + 1 = next /\ next > 1
        BY <1>1, <2>1
    <2>3. LastOf(packed).length \in Nat
        BY <1>1, <1>2, <1>7, Packing
    <2> QED
        BY <2>2, <2>3 DEF PackInv, GreedyAhead, p
<1> HIDE DEF n
<1>8. CASE packed # <<>> /\ Fits(packed, 2, p)
    <2>1. packed' = Extend(packed, 2, p)
        BY <1>4, <1>8
    <2>2. /\ packed' # <<>> /\ Len(packed') = Len(packed)
          /\ LastOf(packed').length = LastOf(packed).length + 2 + p.length
        BY <1>1, <1>2, <1>8, <2>1, Packing
    <2>3. ASSUME NEW cuts \in SUBSET (1..(Len(units) - 1)), Allowed(units, cuts, limit)
          PROVE  Ahead(units, cuts, n + 1, Len(packed),
                       LastOf(packed).length + 2 + units[n + 1].length)
        BY <1>1, <1>7, <1>8, <2>3, AheadExtend
    <2> QED
        BY <1>7, <1>8, <2>2, <2>3
<1>9. CASE packed # <<>> /\ ~ Fits(packed, 2, p)
    <2>1. packed' = Append(packed, p)
        BY <1>4, <1>9
    <2>2. packed' # <<>> /\ Len(packed') = Len(packed) + 1 /\ LastOf(packed') = p
        BY <1>1, <1>2, <2>1, Packing
    <2>3. LastOf(packed).length + 2 + units[n + 1].length > limit
        BY <1>1, <1>2, <1>7, <1>9 DEF Fits
    <2>4. ASSUME NEW cuts \in SUBSET (1..(Len(units) - 1)), Allowed(units, cuts, limit)
          PROVE  Ahead(units, cuts, n + 1, Len(packed) + 1, units[n + 1].length)
        BY <1>1, <1>7, <1>9, <2>3, <2>4, AheadAppend
    <2> QED
        BY <1>7, <1>9, <2>2, <2>4
<1> QED
    BY <1>6, <1>8, <1>9

(* The packer is ahead in every reachable state. *)
LEMMA PackInvHolds == Spec => []PackInv
<1>1. PackInv /\ [Next]_vars => PackInv'
    <2> SUFFICES ASSUME PackInv, [Next]_vars PROVE PackInv'
        OBVIOUS
    <2>1. CASE UNCHANGED vars
        <3>1. CutInv'
            BY <2>1 DEF vars, PackInv, CutInv, TypeOK, Cutting, Phases, NothingLost,
                Covers, LastOf, UnitsWithinLimit, WithinLimit
        <3> QED
            BY <2>1, <3>1 DEF vars, PackInv, GreedyAhead
    <2> QED
        BY <2>1, UnitsPackInv, PackUnitPackInv DEF Next
<1> QED
    BY <1>1, InitPackInv, PTL DEF Spec

(* No way to cut between the units that keeps the limit needs fewer chunks *)
(* than were made, one unit after another and without looking ahead        *)
(* (chunking.py:40-50).                                                    *)
THEOREM FewestChunksHolds == Spec => []FewestChunks
<1>1. PackInv => FewestChunks
    <2> SUFFICES ASSUME PackInv, ~ Cutting, next > Len(units),
                        NEW cuts \in SUBSET (1..(Len(units) - 1)),
                        Allowed(units, cuts, limit)
                 PROVE  Len(packed) <= Cardinality(cuts) + 1
        BY DEF FewestChunks
    <2>1. /\ Len(units) \in Nat /\ next = Len(units) + 1 /\ Len(packed) \in Nat
        BY DEF PackInv, CutInv, TypeOK
    <2>2. Cardinality(cuts) \in Nat
        <3>1. IsFiniteSet(1..(Len(units) - 1))
            <4>1. 1 \in Int /\ Len(units) - 1 \in Int
                BY <2>1
            <4> QED
                BY <4>1, FS_Interval
        <3> QED
            BY <3>1, FS_Subset, FS_CardinalityType
    <2>3. CASE next = 1
        BY <2>2, <2>3 DEF PackInv
    <2>4. CASE next # 1
        <3>1. next > 1 /\ next - 1 = Len(units)
            BY <2>1, <2>4
        <3>2. Len(packed) <= ChunksOf(cuts, Len(units))
            BY <3>1 DEF PackInv, GreedyAhead, Ahead
        <3>3. cuts \cap (1..(Len(units) - 1)) = cuts
            OBVIOUS
        <3> QED
            BY <3>2, <3>3 DEF ChunksOf
    <2> QED
        BY <2>3, <2>4
<1> QED
    BY <1>1, PackInvHolds, PTL
-----------------------------------------------------------------------------
(* Searches *)

(* The rows of an index: finitely many, told apart by their ids; distances *)
(* are the values of a scale that is only compared.                        *)
Index(rows) ==
    /\ IsFiniteSet(rows)
    /\ \A r \in rows : r.distance \in Nat /\ r.id \in Nat
    /\ \A q, r \in rows : q.id = r.id => q = r

(* Rows are ordered by their distance and id, *)
LEMMA CloserOrders ==
  ASSUME NEW rows, Index(rows)
  PROVE  /\ \A r \in rows : ~ Closer(r, r)
         /\ \A p, q, r \in rows : Closer(p, q) /\ Closer(q, r) => Closer(p, r)
         /\ \A q, r \in rows : q # r => Closer(q, r) \/ Closer(r, q)
BY DEF Index, Closer

(* so that some of them have a first one. *)
LEMMA ClosestOf ==
  ASSUME NEW rows, Index(rows), NEW T \in SUBSET rows, T # {}
  PROVE  \E r \in T : \A q \in T : q # r => Closer(r, q)
<1>1. \A r \in rows : r.distance \in Nat /\ r.id \in Nat
  BY DEF Index
<1>2. PICK d \in {r.distance : r \in T} : \A e \in {r.distance : r \in T} : d <= e
  <2>1. {r.distance : r \in T} \in SUBSET Nat /\ {r.distance : r \in T} # {}
    BY <1>1
  <2>. QED
    BY <2>1, LeastNatural
<1>. DEFINE U == {r \in T : r.distance = d}
<1>3. PICK i \in {r.id : r \in U} : \A j \in {r.id : r \in U} : i <= j
  <2>1. {r.id : r \in U} \in SUBSET Nat /\ {r.id : r \in U} # {}
    BY <1>1, <1>2
  <2>. QED
    BY <2>1, LeastNatural
<1>4. PICK r \in U : r.id = i
  BY <1>3
<1>5. ASSUME NEW q \in T, q # r PROVE ~ Closer(q, r)
  <2>1. d <= q.distance /\ r.distance = d
    BY <1>2, <1>4, <1>5
  <2>2. q.distance = d => i <= q.id
    BY <1>3, <1>5
  <2>3. d \in Nat /\ i \in Nat /\ q.distance \in Nat /\ q.id \in Nat
    BY <1>1, <1>2, <1>3, <1>5
  <2>. QED
    BY <1>4, <2>1, <2>2, <2>3 DEF Closer
<1>. QED
  BY <1>4, <1>5, CloserOrders

Before(rows, r) == {q \in rows : Closer(q, r)}

LEMMA BeforeFinite ==
  ASSUME NEW rows, Index(rows), NEW r
  PROVE  /\ IsFiniteSet(Before(rows, r))
         /\ Cardinality(Before(rows, r)) \in Nat
<1>1. IsFiniteSet(rows) /\ Before(rows, r) \in SUBSET rows
  BY DEF Index, Before
<1>. QED
  BY <1>1, FS_Subset, FS_CardinalityType

(* Whatever is closer than one of the nearest is one of them. *)
LEMMA NearestClosed ==
  ASSUME NEW rows, Index(rows), NEW asked \in Nat, NEW r \in Nearest(rows, asked),
         NEW q \in rows, Closer(q, r)
  PROVE  q \in Nearest(rows, asked)
<1>1. r \in rows /\ Cardinality(Before(rows, r)) < asked
  BY DEF Nearest, Before
<1>2. Before(rows, q) \subseteq Before(rows, r)
  BY <1>1, CloserOrders DEF Before
<1>3. /\ IsFiniteSet(Before(rows, r)) /\ Cardinality(Before(rows, r)) \in Nat
      /\ Cardinality(Before(rows, q)) \in Nat
  BY BeforeFinite
<1>4. Cardinality(Before(rows, q)) <= Cardinality(Before(rows, r))
  BY <1>2, <1>3, FS_Subset
<1>. QED
  BY <1>1, <1>3, <1>4 DEF Nearest, Before

(* A limit that is one higher admits one more row, as long as there is one. *)
LEMMA NearestGrows ==
  ASSUME NEW rows, Index(rows), NEW n \in Nat,
         Cardinality(Nearest(rows, n)) = n, Nearest(rows, n) # rows
  PROVE  Cardinality(Nearest(rows, n + 1)) = n + 1
<1>. DEFINE near == Nearest(rows, n)
<1>1. near \in SUBSET rows /\ IsFiniteSet(near) /\ IsFiniteSet(rows)
  <2>1. near \in SUBSET rows /\ IsFiniteSet(rows)
    BY DEF Nearest, Index
  <2>. QED
    BY <2>1, FS_Subset
<1>2. PICK r \in rows \ near : \A q \in rows \ near : q # r => Closer(r, q)
  BY <1>1, ClosestOf
<1>3. Before(rows, r) = near
  <2>1. ASSUME NEW q \in Before(rows, r) PROVE q \in near
    BY <1>2, <2>1, CloserOrders DEF Before
  <2>2. ASSUME NEW q \in near PROVE q \in Before(rows, r)
    <3>1. q \in rows /\ q # r
      BY <1>1, <1>2
    <3>2. ~ Closer(r, q)
      BY <1>2, NearestClosed
    <3>. QED
      BY <1>2, <3>1, <3>2, CloserOrders DEF Before
  <2>. QED
    BY <1>1, <2>1, <2>2 DEF Before
<1>4. ASSUME NEW q \in rows, q \notin near, q # r PROVE q \notin Nearest(rows, n + 1)
  <2>1. near \cup {r} \subseteq Before(rows, q)
    BY <1>2, <1>3, <1>4, CloserOrders DEF Before
  <2>2. Cardinality(near \cup {r}) = n + 1
    <3>1. IsFiniteSet(near) /\ r \notin near
      BY <1>1, <1>2
    <3>2. Cardinality(near \cup {r}) = Cardinality(near) + 1
      BY <3>1, FS_AddElement, ZenonT(30)
    <3>. QED
      BY <3>2
  <2>3. /\ IsFiniteSet(Before(rows, q)) /\ Cardinality(Before(rows, q)) \in Nat
    BY BeforeFinite
  <2>4. n + 1 <= Cardinality(Before(rows, q))
    BY <2>1, <2>2, <2>3, FS_Subset
  <2>. QED
    BY <2>3, <2>4 DEF Nearest, Before
<1>5. r \in Nearest(rows, n + 1)
  <2>1. Cardinality(Before(rows, r)) < n + 1 /\ r \in rows
    BY <1>2, <1>3
  <2>. QED
    BY <2>1 DEF Nearest, Before
<1>6. near \subseteq Nearest(rows, n + 1)
  <2>1. ASSUME NEW q \in near PROVE q \in Nearest(rows, n + 1)
    <3>1. Cardinality(Before(rows, q)) \in Nat /\ Cardinality(Before(rows, q)) < n
      BY <2>1, BeforeFinite DEF Nearest, Before
    <3>2. Cardinality(Before(rows, q)) < n + 1 /\ q \in rows
      BY <1>1, <2>1, <3>1
    <3>. QED
      BY <3>2 DEF Nearest, Before
  <2>. QED
    BY <2>1
<1>7. Nearest(rows, n + 1) = near \cup {r}
  <2>1. Nearest(rows, n + 1) \subseteq rows
    BY DEF Nearest
  <2>. QED
    BY <1>4, <1>5, <1>6, <2>1
<1>. QED
  BY <1>1, <1>2, <1>7, FS_AddElement

(* Nearest is what ORDER BY and LIMIT return. *)
LEMMA NearestCounts ==
  ASSUME NEW rows, Index(rows)
  PROVE  \A n \in Nat : Cardinality(Nearest(rows, n)) = Lesser(n, Cardinality(rows))
<1>. DEFINE S == {n \in Nat : Cardinality(Nearest(rows, n)) = Lesser(n, Cardinality(rows))}
<1>1. IsFiniteSet(rows) /\ Cardinality(rows) \in Nat
  BY FS_CardinalityType DEF Index
<1>2. 0 \in S
  <2>1. ASSUME NEW r \in rows PROVE ~ (Cardinality(Before(rows, r)) < 0)
    BY BeforeFinite
  <2>2. Nearest(rows, 0) = {}
    BY <2>1 DEF Nearest, Before
  <2>3. Cardinality(Nearest(rows, 0)) = 0
    BY <2>2, FS_EmptySet
  <2>. QED
    BY <1>1, <2>3 DEF Lesser
<1>3. ASSUME NEW n \in Nat, n \in S PROVE n + 1 \in S
  <2>1. Cardinality(Nearest(rows, n)) = Lesser(n, Cardinality(rows))
    BY <1>3
  <2>2. CASE Nearest(rows, n) = rows
    <3>1. ASSUME NEW r \in rows PROVE Cardinality(Before(rows, r)) < n + 1
      <4>1. Cardinality(Before(rows, r)) \in Nat /\ Cardinality(Before(rows, r)) < n
        BY <2>2, <3>1, BeforeFinite DEF Nearest, Before
      <4>. QED
        BY <4>1
    <3>2. Nearest(rows, n + 1) = rows
      BY <3>1 DEF Nearest, Before
    <3>3. Cardinality(rows) <= n
      BY <1>1, <2>1, <2>2 DEF Lesser
    <3>4. Lesser(n + 1, Cardinality(rows)) = Cardinality(rows)
      BY <1>1, <3>3 DEF Lesser
    <3>. QED
      BY <3>2, <3>4
  <2>3. CASE Nearest(rows, n) # rows
    <3>1. Nearest(rows, n) \in SUBSET rows
      BY DEF Nearest
    <3>2. Cardinality(Nearest(rows, n)) # Cardinality(rows)
      BY <1>1, <2>3, <3>1, FS_Subset
    <3>3. Cardinality(Nearest(rows, n)) = n /\ n < Cardinality(rows)
      BY <1>1, <2>1, <3>2 DEF Lesser
    <3>4. Cardinality(Nearest(rows, n + 1)) = n + 1
      BY <2>3, <3>3, NearestGrows
    <3>5. Lesser(n + 1, Cardinality(rows)) = n + 1
      BY <1>1, <3>3 DEF Lesser
    <3>. QED
      BY <3>4, <3>5
  <2>. QED
    BY <2>2, <2>3
<1>. HIDE DEF S
<1>4. \A n \in Nat : 0 <= n => n \in S
  BY <1>2, <1>3, NaturalsFrom
<1>. QED
  BY <1>4 DEF S

(* A search returns rows of its category only, as many as the lower of the *)
(* two limits and the index allow, and nothing it leaves out is closer     *)
(* than what it returns (retrieve_query, search_runbook_chunks).           *)
THEOREM SearchReturnsNearest ==
  ASSUME NEW rows, Index(rows), NEW category, NEW asked \in Nat
  PROVE  LET found == Retrieve(rows, category, asked)
             fit   == Matching(rows, category)
         IN  /\ found \subseteq fit
             /\ Cardinality(found) = Lesser(Lesser(asked, TopK), Cardinality(fit))
             /\ \A r \in found, q \in fit \ found : Closer(r, q)
<1>. DEFINE fit == Matching(rows, category)
            most == Lesser(asked, TopK)
<1>1. most \in Nat
  BY RetrievalAssumption DEF Lesser
<1>2. Index(fit)
  <2>1. fit \in SUBSET rows /\ IsFiniteSet(rows)
    BY DEF Matching, Index
  <2>2. IsFiniteSet(fit)
    BY <2>1, FS_Subset
  <2>. QED
    BY <2>1, <2>2 DEF Index
<1>. HIDE DEF fit, most
<1>3. Cardinality(Nearest(fit, most)) = Lesser(most, Cardinality(fit))
  BY <1>1, <1>2, NearestCounts
<1>4. Nearest(fit, most) \subseteq fit
  BY DEF Nearest
<1>5. ASSUME NEW r \in Nearest(fit, most), NEW q \in fit \ Nearest(fit, most)
      PROVE  Closer(r, q)
  <2>1. r \in fit /\ q \in fit /\ r # q
    BY <1>4, <1>5
  <2>2. ~ Closer(q, r)
    BY <1>1, <1>2, <1>5, NearestClosed
  <2>. QED
    BY <1>2, <2>1, <2>2, CloserOrders
<1>. QED
  BY <1>3, <1>4, <1>5 DEF Retrieve, fit, most
=============================================================================
