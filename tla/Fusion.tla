-------------------------------- MODULE Fusion --------------------------------
(***************************************************************************)
(* retrieval/fusion.py: two ranked lists become one, and a gate decides     *)
(* whether there is anything to ground an answer on.  A candidate is a      *)
(* record [chunk, text, score]; a chunk is a pair of its document's key and *)
(* its ordinal.  An arm that was not there is Missing, which is not <<>>.    *)
(***************************************************************************)
EXTENDS Integers, Sequences, FiniteSets, FiniteSetsExt

CONSTANTS RrfK,       \* the k of 1 / (k + rank)
          PerArm,     \* candidates_per_arm
          FinalK,     \* hits handed on
          MinScore,   \* the gate's threshold
          Unscored,   \* the relevance of a chunk no calibrated arm ranked
          Missing, NoText,
          Parts       \* a common multiple of k + 1 .. k + PerArm: one whole share

ASSUME FusionAssumption ==
    /\ RrfK \in Nat /\ PerArm \in Nat \ {0} /\ FinalK \in Nat \ {0}
    /\ MinScore \in Int /\ Unscored \notin Int
    /\ Parts \in Nat \ {0}
    /\ \A rank \in 1 .. PerArm : Parts % (RrfK + rank) = 0

\* lexical.yaml's 20 and 60.  No code compares them, and with longer lists the first of
\* one arm can outrank what both arms found: see AgreementOutranks.
ASSUME ListsAreShort == PerArm <= RrfK + 1

Answered(arm)  == IF arm = Missing THEN <<>> ELSE SubSeq(arm, 1, Min({PerArm, Len(arm)}))
ChunksOf(arm)  == {arm[i].chunk : i \in DOMAIN arm}
RankIn(arm, c) == CHOOSE i \in DOMAIN arm : arm[i].chunk = c

Share(arm, c) == IF c \in ChunksOf(arm) THEN Parts \div (RrfK + RankIn(arm, c)) ELSE 0

\* The RRF score: 1 / (k + rank), summed over the arms that ranked the chunk.
RrfScore(dense, sparse, c) == Share(dense, c) + Share(sparse, c)

\* Ties are broken by the chunk's id.
Before(c, d) == c[1][2] < d[1][2] \/ (c[1][2] = d[1][2] /\ c[2] < d[2])
Above(dense, sparse, c, d) ==
    LET mine == RrfScore(dense, sparse, c) theirs == RrfScore(dense, sparse, d)
    IN  mine > theirs \/ (mine = theirs /\ Before(c, d))

TextIn(arm, c) == IF c \in ChunksOf(arm) THEN arm[RankIn(arm, c)].text ELSE NoText

\* The first arm that carries a text gives it; only the dense arm is calibrated.
FusedHit(dense, sparse, c) ==
    [chunk |-> c,
     text  |-> IF TextIn(dense, c) # NoText THEN TextIn(dense, c) ELSE TextIn(sparse, c),
     score |-> IF c \in ChunksOf(dense) THEN dense[RankIn(dense, c)].score ELSE Unscored,
     arms  |-> {a \in {"dense", "sparse"} :
                   c \in ChunksOf(IF a = "dense" THEN dense ELSE sparse)}]

\* reciprocal_rank_fusion: a chunk's place is how many are above it.
Better(dense, sparse, c) ==
    {d \in ChunksOf(dense) \cup ChunksOf(sparse) : Above(dense, sparse, d, c)}
Ranked(dense, sparse) ==
    LET all == ChunksOf(dense) \cup ChunksOf(sparse)
    IN  [i \in 1 .. Cardinality(all) |->
            FusedHit(dense, sparse,
                     CHOOSE c \in all : Cardinality(Better(dense, sparse, c)) = i - 1)]

\* The gate: nothing retrieved has a text, or a calibrated best hit is too weak.
GateClosed(top) ==
    \/ \A i \in DOMAIN top : top[i].text = NoText
    \/ top # <<>> /\ top[1].score # Unscored /\ top[1].score < MinScore

\* fuse: what retrieval hands on, and the arms it had to do without.
Fuse(dense, sparse) ==
    LET fused == Ranked(Answered(dense), Answered(sparse))
        top   == SubSeq(fused, 1, Min({FinalK, Len(fused)}))
    IN  [hits     |-> IF GateClosed(top) THEN <<>> ELSE top,
         degraded |-> {a \in {"dense", "sparse"} :
                          (IF a = "dense" THEN dense ELSE sparse) = Missing},
         closed   |-> GateClosed(top)]
-----------------------------------------------------------------------------
\* "A chunk both arms rank must outrank one that either arm ranks alone, even
\* when the solo chunk is first in its own list."
AgreementOutranks(hits) ==
    \A i, j \in DOMAIN hits :
        Cardinality(hits[i].arms) > Cardinality(hits[j].arms) => i < j
=============================================================================
