------------------------------- MODULE Chunker -------------------------------
(***************************************************************************)
(* retrieval/chunker.py and retrieval/preview.py: what a text becomes       *)
(* before anything is stored.  A text is the sequence of its sentences, cut *)
(* at the terminators; a sentence is an identity and a length.              *)
(***************************************************************************)
EXTENDS Integers, Sequences, FiniteSetsExt

CONSTANTS Target,        \* target_tokens * chars_per_token
          OverlapBudget, \* the share of it a chunk repeats of the one before
          OversizeFactor

ASSUME ChunkerAssumption ==
    Target \in Nat \ {0} /\ OverlapBudget \in Nat /\ OversizeFactor \in Nat \ {0}

\* preview.py's factor is 2, and defaults.yaml's overlap a share of 0.15 of the target.  No
\* code asks: an overlap longer than the target could make a chunk oversized by itself.
ASSUME OverlapIsAShare == OverlapBudget <= Target /\ OversizeFactor >= 2

\* Sentences and the separators between them, as the packing loop counts.
Chars(s) ==
    LET sum[n \in 0 .. Len(s)] == IF n = 0 THEN 0 ELSE sum[n - 1] + s[n].chars + 1
    IN  sum[Len(s)]

\* The characters of a joined chunk.
Joined(s) == IF s = <<>> THEN 0 ELSE Chars(s) - 1

\* _overlap_tail: the sentences repeated, at least one when any are.
OverlapTail(s) ==
    LET fits == {p \in DOMAIN s :
                   Chars(SubSeq(s, p + 1, Len(s))) + s[p].chars <= OverlapBudget}
    IN  IF OverlapBudget = 0 THEN <<>> ELSE SubSeq(s, Min(fits \cup {Len(s)}), Len(s))

\* Slip: the sentence that did not fit is dropped with the chunk it closed.
PackAway(acc, x) ==
    IF acc.open # <<>> /\ Chars(acc.open) + x.chars + 1 > Target
    THEN [closed |-> Append(acc.closed, acc.open), open |-> OverlapTail(acc.open)]
    ELSE [acc EXCEPT !.open = Append(@, x)]

\* One sentence of the packing loop: it joins the open chunk, or closes it.
Pack(acc, x) ==
    IF acc.open # <<>> /\ Chars(acc.open) + x.chars + 1 > Target
    THEN [closed |-> Append(acc.closed, acc.open),
          open |-> Append(OverlapTail(acc.open), x)]
    ELSE [acc EXCEPT !.open = Append(@, x)]

\* chunk_text: greedy packing; a text without sentences has no chunks.
ChunkText(text) ==
    LET packed[n \in 0 .. Len(text)] ==
            IF n = 0 THEN [closed |-> <<>>, open |-> <<>>] ELSE Pack(packed[n - 1], text[n])
        last == packed[Len(text)]
    IN  IF last.open = <<>> THEN last.closed ELSE Append(last.closed, last.open)

Oversized(chunk) == Joined(chunk) > Target * OversizeFactor

\* _findings, the figures without a unit left out: what the preview warns of.
Findings(chunks) ==
    IF chunks = <<>> THEN {<<"empty", 0>>}
    ELSE {<<"oversized", i - 1>> : i \in {j \in DOMAIN chunks : Oversized(chunks[j])}}
         \cup IF Len(chunks) = 1 /\ Oversized(chunks[1])
              THEN {<<"no_sentence_boundaries", 0>>} ELSE {}
-----------------------------------------------------------------------------
\* "A sentence is never split" and a boundary is covered from both sides: each
\* chunk is a run of whole sentences that begins inside the one before it, ends
\* after it, and between them they reach the end of the text.
Covers(text, chunks) ==
    /\ (chunks = <<>>) = (text = <<>>)
    /\ \E begin, end \in [DOMAIN chunks -> DOMAIN text] :
          /\ \A i \in DOMAIN chunks : chunks[i] = SubSeq(text, begin[i], end[i])
          /\ chunks # <<>> => begin[1] = 1 /\ end[Len(chunks)] = Len(text)
          /\ \A i \in 2 .. Len(chunks) :
                /\ end[i] > end[i - 1]
                /\ IF OverlapBudget = 0 THEN begin[i] = end[i - 1] + 1
                                        ELSE begin[i] \in begin[i - 1] .. end[i - 1]

\* "One 'sentence' here is not a sentence": a chunk is called oversized only for a
\* sentence that fills a whole chunk, never for what the overlap added to it.
WarnsOfSentences(chunks) ==
    \A i \in DOMAIN chunks :
        <<"oversized", i - 1>> \in Findings(chunks)
            => \E j \in DOMAIN chunks[i] : chunks[i][j].chars >= Target
=============================================================================
