----------------------------- MODULE MCKnowledge -----------------------------
EXTENDS Knowledge, TLC

CONSTANTS t1, t2, r1, r2

S(n, c) == [id |-> n, chars |-> c]

\* Two chunks that overlap, one the splitter found nothing to cut in, none.
MCTexts == { <<S(1, 4), S(2, 4), S(3, 3)>>, <<S(4, 21)>>, <<>> }

MCSymmetry == Permutations({t1, t2}) \cup Permutations({r1, r2})
=============================================================================
