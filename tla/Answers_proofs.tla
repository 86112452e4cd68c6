---------------------------- MODULE Answers_proofs ----------------------------
(***************************************************************************)
(* What the answers rest on, proved: how a text is cut (Chunker.tla, for    *)
(* any text), what the search stores hold of a tenant's documents and what  *)
(* a search hands on (Knowledge.tla and Fusion.tla, for any number of       *)
(* tenants, documents and requests, and any scores), and what one           *)
(* conversation's turns say (Dialogue.tla, for any script, messages,        *)
(* retrievals, completions and judge's answers), and what is metered of     *)
(* them (Ledger.tla, for any uses and rates).                               *)
(***************************************************************************)
EXTENDS Knowledge, Dialogue, FiniteSetTheorems, SequenceTheorems,
        WellFoundedInduction, TLAPS

\* What each request is doing, and to what.
DocRow     == [hash : Texts, vertical : Verticals, chunks : {ChunkText(text) : text \in Texts}]
SyncStages == {"embed", "dense", "lexical"}
DropStages == {"undense", "unlexical"}
KbStages   == {"idle", "write", "delete"} \cup SyncStages \cup DropStages
ChunksOfKeys == Keys \X Nat

KbTypeOK ==
    /\ rows \in [Keys -> DocRow \cup {NoDoc}]
    /\ at \in [Requests -> KbStages]
    /\ job \in [Requests -> [key : Keys \cup {<<>>}, text : Texts \cup {<<>>},
                             vertical : Verticals \cup {""}, chunks : SUBSET ChunksOfKeys,
                             alone : BOOLEAN]]
    /\ marred \in [Keys -> BOOLEAN] /\ strewn \in [Keys -> BOOLEAN]

\* A request is about one document, which it has alone or has met another on.
JobOf(r) ==
    LET k == job[r].key
    IN  /\ k \in Keys /\ \A c \in job[r].chunks : c[1] = k
        /\ at[r] \in {"write"} \cup SyncStages =>
              job[r].text \in Texts /\ job[r].vertical \in Verticals
        /\ job[r].alone  => Busy(k) = {r}
        /\ ~job[r].alone => marred[k] /\ strewn[k]
        /\ at[r] \in SyncStages => marred[k]

\* What a request alone with its document has read of it, or written, is still so.
HeldOf(r) ==
    LET j == job[r]
        k == j.key
    IN  /\ at[r] = "delete" => /\ j.vertical = rows[k].vertical
                               /\ j.chunks = ChunkIds(k, rows[k].chunks)
        /\ at[r] \in SyncStages => rows[k] = [hash |-> j.text, vertical |-> j.vertical,
                                              chunks |-> ChunkText(j.text)]
        /\ at[r] \in DropStages => rows[k] = NoDoc
        /\ at[r] = "lexical" => \A i \in DOMAIN rows[k].chunks :
                                   Arrived(dense, k, rows[k].vertical, i, rows[k].chunks[i])

\* A removal under way has still to take what there is of its document, and only that.
DropOf(r) ==
    /\ \A p \in dense \cup lexical : p.chunk[1] = job[r].key =>
          p.chunk \in job[r].chunks /\ p.vertical = job[r].vertical
    /\ at[r] = "unlexical" => \A p \in dense : p.chunk[1] # job[r].key

RequestsOK == \A r \in Requests : at[r] # "idle" =>
    /\ JobOf(r)
    /\ job[r].alone => HeldOf(r)
    /\ at[r] \in DropStages /\ ~strewn[job[r].key] => DropOf(r)

\* A store's points are filed under their chunks, and their chunks' tenants.
Filed(store) == \A p \in store :
    p.id = PointId(p.chunk) /\ p.chunk \in ChunksOfKeys /\ p.tenant = p.chunk[1][1]
PointsOK == Filed(dense) /\ Filed(lexical)

\* The property's two halves, of one document.
Synced(k) == Stored(k) /\ ~marred[k] => Indexed(k)
Orderly(k) == \A p \in dense \cup lexical : p.chunk[1] = k =>
    p.chunk[2] \in DOMAIN rows[k].chunks /\ p.vertical = rows[k].vertical
Gone(k) == ~strewn[k] /\ (\A r \in Busy(k) : at[r] \notin DropStages) => Orderly(k)

KbInv == KbTypeOK /\ RequestsOK /\ PointsOK /\ \A k \in Keys : Synced(k) /\ Gone(k)
-----------------------------------------------------------------------------
\* Induction over the naturals, of a set rather than of a predicate.
LEMMA FromZeroOn ==
    ASSUME NEW S, 0 \in S, \A n \in Nat : n \in S => n + 1 \in S
    PROVE  Nat \subseteq S
<1> DEFINE R == OpToRel(<, Nat)
           T == Nat \ S
<1>1. IsWellFoundedOn(R, Nat)
  BY NatLessThanWellFounded
<1>2. \A x, y \in Nat : x < y => <<x, y>> \in R
  BY DEF OpToRel
<1> HIDE DEF R
<1> SUFFICES ASSUME T # {} PROVE FALSE
  OBVIOUS
<1>3. PICK x \in T : \A y \in T : ~ (<<y, x>> \in R)
  BY <1>1, WFMin
<1>4. x \in Nat /\ x # 0 /\ x - 1 \in Nat /\ x - 1 < x /\ (x - 1) + 1 = x
  BY <1>3
<1>5. x - 1 \in S
  BY <1>2, <1>3, <1>4
<1> QED
  BY <1>3, <1>4, <1>5

\* What a sum over a list adds up to exists, and is what its recursion says.
LEMMA SumExists ==
    ASSUME NEW N \in Nat, NEW s
    PROVE  \E f : f = [n \in 0 .. N |-> IF n = 0 THEN 0 ELSE f[n - 1] + s[n].chars + 1]
<1> DEFINE Rec(m, f) == f = [n \in 0 .. m |-> IF n = 0 THEN 0 ELSE f[n - 1] + s[n].chars + 1]
           S == {m \in Nat : \E f : Rec(m, f)}
<1>1. 0 \in S
  <2> DEFINE f == [n \in 0 .. 0 |-> 0]
  <2>1. Rec(0, f)
    OBVIOUS
  <2> QED
    BY <2>1
<1>2. ASSUME NEW m \in Nat, m \in S PROVE m + 1 \in S
  <2>1. PICK f : Rec(m, f)
    BY <1>2
  <2> DEFINE g == [n \in 0 .. m + 1 |-> IF n = m + 1 THEN f[m] + s[m + 1].chars + 1 ELSE f[n]]
  <2>2. \A n \in 0 .. m + 1 : g[n] = IF n = 0 THEN 0 ELSE g[n - 1] + s[n].chars + 1
    <3> SUFFICES ASSUME NEW n \in 0 .. m + 1
                 PROVE  g[n] = IF n = 0 THEN 0 ELSE g[n - 1] + s[n].chars + 1
      OBVIOUS
    <3>1. CASE n = 0
      BY <2>1, <3>1
    <3>2. CASE n = m + 1
      BY <2>1, <3>2
    <3>3. CASE n # 0 /\ n # m + 1
      <4>1. n \in 0 .. m /\ n - 1 \in 0 .. m /\ n - 1 # m + 1
        BY <3>3
      <4> QED
        BY <2>1, <3>3, <4>1
    <3> QED
      BY <3>1, <3>2, <3>3
  <2>3. Rec(m + 1, g)
    BY <2>2
  <2> HIDE DEF Rec, g
  <2>4. \E h : Rec(m + 1, h)
    BY <2>3
  <2> QED
    BY <2>4
<1> HIDE DEF S, Rec
<1>3. N \in S
  BY <1>1, <1>2, FromZeroOn
<1> QED
  BY <1>3 DEF S, Rec

\* The sums of a list's beginnings.
Sums(s) == CHOOSE f : f = [n \in 0 .. Len(s) |-> IF n = 0 THEN 0 ELSE f[n - 1] + s[n].chars + 1]
LEMMA SumsAre ==
    ASSUME NEW S, NEW s \in Seq(S), \A i \in DOMAIN s : s[i].chars \in Nat
    PROVE  /\ Sums(s)[0] = 0 /\ Chars(s) = Sums(s)[Len(s)]
           /\ \A n \in 1 .. Len(s) : Sums(s)[n] = Sums(s)[n - 1] + s[n].chars + 1
           /\ \A n \in 0 .. Len(s) : Sums(s)[n] \in Nat
<1>1. Len(s) \in Nat /\ DOMAIN s = 1 .. Len(s)
  OBVIOUS
<1>2. Sums(s) = [n \in 0 .. Len(s) |-> IF n = 0 THEN 0 ELSE Sums(s)[n - 1] + s[n].chars + 1]
  BY <1>1, SumExists DEF Sums
<1>3. Chars(s) = Sums(s)[Len(s)]
  BY DEF Chars, Sums
<1> DEFINE f == Sums(s)
<1> HIDE DEF f
<1>4. f[0] = 0 /\ \A n \in 1 .. Len(s) : f[n] = f[n - 1] + s[n].chars + 1
  BY <1>1, <1>2 DEF f
<1>5. \A n \in Nat : n \in 0 .. Len(s) => f[n] \in Nat
  <2> DEFINE T == {n \in Nat : n \in 0 .. Len(s) => f[n] \in Nat}
  <2>1. 0 \in T
    BY <1>4
  <2>2. ASSUME NEW n \in Nat, n \in T PROVE n + 1 \in T
    <3> SUFFICES ASSUME n + 1 \in 0 .. Len(s) PROVE f[n + 1] \in Nat
      OBVIOUS
    <3>1. n \in 0 .. Len(s) /\ n + 1 \in 1 .. Len(s) /\ (n + 1) - 1 = n
      BY <1>1
    <3>2. f[n + 1] = f[n] + s[n + 1].chars + 1
      BY <1>4, <3>1
    <3> QED
      BY <1>1, <2>2, <3>1, <3>2
  <2> HIDE DEF T
  <2>3. Nat \subseteq T
    BY <2>1, <2>2, FromZeroOn
  <2> QED
    BY <2>3 DEF T
<1>6. \A n \in 0 .. Len(s) : f[n] \in Nat
  BY <1>1, <1>5
<1> QED
  BY <1>3, <1>4, <1>6 DEF f

\* A list of sentences.
Sentences(s, S) == s \in Seq(S) /\ \A i \in DOMAIN s : s[i].chars \in Nat

\* A run of a list's elements.
LEMMA RunIs ==
    ASSUME NEW S, NEW s \in Seq(S), NEW a \in Nat \ {0}, NEW b \in 0 .. Len(s), a <= b + 1
    PROVE  /\ SubSeq(s, a, b) \in Seq(S) /\ Len(SubSeq(s, a, b)) = b - a + 1
           /\ \A i \in 1 .. b - a + 1 : /\ a + i - 1 \in 1 .. Len(s)
                                        /\ SubSeq(s, a, b)[i] = s[a + i - 1]
<1>1. /\ a \in Int /\ b \in Int /\ Len(s) \in Nat /\ \A i \in a .. b : s[i] \in S
      /\ \A i \in 1 .. b - a + 1 : a + i - 1 \in 1 .. Len(s)
  OBVIOUS
<1>2. /\ SubSeq(s, a, b) \in Seq(S)
      /\ Len(SubSeq(s, a, b)) = IF a <= b THEN b - a + 1 ELSE 0
      /\ \A i \in 1 .. b - a + 1 : SubSeq(s, a, b)[i] = s[a + i - 1]
  BY <1>1, SubSeqProperties
<1>3. (IF a <= b THEN b - a + 1 ELSE 0) = b - a + 1
  BY <1>1
<1> QED
  BY <1>1, <1>2, <1>3

\* A run with the next element is the longer run.
LEMMA RunGrows ==
    ASSUME NEW S, NEW s \in Seq(S), NEW a \in Nat \ {0}, NEW b \in Nat, b + 1 <= Len(s), a <= b + 1
    PROVE  Append(SubSeq(s, a, b), s[b + 1]) = SubSeq(s, a, b + 1)
<1> DEFINE q == SubSeq(s, a, b)
           r == SubSeq(s, a, b + 1)
           t == Append(q, s[b + 1])
<1>1. /\ q \in Seq(S) /\ Len(q) = b - a + 1
      /\ \A i \in 1 .. b - a + 1 : q[i] = s[a + i - 1]
  BY RunIs
<1>2. /\ b + 1 \in 0 .. Len(s) /\ a <= (b + 1) + 1 /\ (b + 1) - a + 1 = b - a + 2
      /\ s[b + 1] \in S /\ (b - a + 1) + 1 = b - a + 2
  OBVIOUS
<1>3. /\ r \in Seq(S) /\ Len(r) = b - a + 2
      /\ \A i \in 1 .. b - a + 2 : r[i] = s[a + i - 1]
  BY <1>2, RunIs
<1> HIDE DEF q, r
<1>4. /\ t \in Seq(S) /\ Len(t) = b - a + 2
      /\ \A i \in 1 .. b - a + 1 : t[i] = q[i]
      /\ t[b - a + 2] = s[b + 1]
  BY <1>1, <1>2, AppendProperties
<1>5. \A i \in 1 .. Len(t) : t[i] = r[i]
  <2> SUFFICES ASSUME NEW i \in 1 .. b - a + 2 PROVE t[i] = r[i]
    BY <1>4
  <2>1. CASE i = b - a + 2
    <3>1. a + i - 1 = b + 1
      BY <2>1
    <3> QED
      BY <1>3, <1>4, <2>1, <3>1
  <2>2. CASE i # b - a + 2
    <3>1. i \in 1 .. b - a + 1
      BY <2>2
    <3> QED
      BY <1>1, <1>3, <1>4, <3>1
  <2> QED
    BY <2>1, <2>2
<1> HIDE DEF t
<1>6. t = r
  BY <1>3, <1>4, <1>5, SeqEqual
<1> QED
  BY <1>6 DEF t, q, r

\* A run of a run is a run.
LEMMA RunOfRun ==
    ASSUME NEW S, NEW s \in Seq(S), NEW a \in Nat \ {0}, NEW b \in 1 .. Len(s), a <= b,
           NEW p \in 1 .. b - a + 1
    PROVE  SubSeq(SubSeq(s, a, b), p, b - a + 1) = SubSeq(s, a + p - 1, b)
<1> DEFINE q == SubSeq(s, a, b)
           n == b - a + 1
           l == SubSeq(q, p, n)
           r == SubSeq(s, a + p - 1, b)
<1>1. /\ q \in Seq(S) /\ Len(q) = n /\ \A i \in 1 .. n : q[i] = s[a + i - 1]
  BY RunIs
<1>2. /\ n \in Nat /\ n \in 0 .. n /\ p \in Nat \ {0} /\ p <= n + 1
      /\ a + p - 1 \in Nat \ {0} /\ a + p - 1 <= b + 1 /\ b \in 0 .. Len(s)
      /\ b - (a + p - 1) + 1 = n - p + 1
  OBVIOUS
<1>3. /\ r \in Seq(S) /\ Len(r) = n - p + 1
      /\ \A i \in 1 .. n - p + 1 : r[i] = s[(a + p - 1) + i - 1]
  BY <1>2, RunIs
<1> HIDE DEF q, r
<1>4. /\ l \in Seq(S) /\ Len(l) = n - p + 1
      /\ \A i \in 1 .. n - p + 1 : p + i - 1 \in 1 .. n /\ l[i] = q[p + i - 1]
  BY <1>1, <1>2, RunIs
<1> HIDE DEF l
<1>5. \A i \in 1 .. n - p + 1 : l[i] = r[i]
  <2> SUFFICES ASSUME NEW i \in 1 .. n - p + 1 PROVE l[i] = r[i]
    OBVIOUS
  <2>1. p + i - 1 \in 1 .. n /\ l[i] = q[p + i - 1]
    BY <1>4
  <2>2. a + (p + i - 1) - 1 = (a + p - 1) + i - 1
    BY <1>2
  <2> QED
    BY <1>1, <1>3, <2>1, <2>2
<1>6. l = r
  BY <1>3, <1>4, <1>5, SeqEqual
<1> QED
  BY <1>6 DEF l, q, n, r

\* What a run adds up to.
LEMMA CharsOfRun ==
    ASSUME NEW S, NEW s, Sentences(s, S), NEW a \in Nat \ {0}, NEW b \in 0 .. Len(s), a <= b + 1
    PROVE  Chars(SubSeq(s, a, b)) = Sums(s)[b] - Sums(s)[a - 1]
<1> DEFINE q == SubSeq(s, a, b)
           n == b - a + 1
           f == Sums(s)
           g == Sums(q)
<1>1. s \in Seq(S) /\ Len(s) \in Nat /\ DOMAIN s = 1 .. Len(s) /\ n \in Nat
  BY DEF Sentences
<1>2. /\ q \in Seq(S) /\ Len(q) = n
      /\ \A i \in 1 .. n : a + i - 1 \in 1 .. Len(s) /\ q[i] = s[a + i - 1]
  BY <1>1, RunIs
<1>3. \A i \in DOMAIN q : q[i].chars \in Nat
  BY <1>1, <1>2 DEF Sentences
<1>4. /\ \A i \in 1 .. Len(s) : f[i] = f[i - 1] + s[i].chars + 1 /\ s[i].chars \in Nat
      /\ \A i \in 0 .. Len(s) : f[i] \in Nat
  BY <1>1, SumsAre DEF Sentences
<1> HIDE DEF q
<1>5. /\ g[0] = 0 /\ Chars(q) = g[n] /\ \A i \in 1 .. n : g[i] = g[i - 1] + q[i].chars + 1
  BY <1>2, <1>3, SumsAre
<1> DEFINE T == {i \in Nat : i <= n => g[i] = f[(a - 1) + i] - f[a - 1]}
<1> HIDE DEF f, g
<1>6. 0 \in T
  <2>1. (a - 1) + 0 = a - 1 /\ a - 1 \in 0 .. Len(s)
    BY <1>1
  <2>2. f[a - 1] - f[a - 1] = 0
    BY <1>4, <2>1
  <2> QED
    BY <1>5, <2>1, <2>2
<1>7. ASSUME NEW i \in Nat, i \in T PROVE i + 1 \in T
  <2> SUFFICES ASSUME i + 1 <= n PROVE g[i + 1] = f[(a - 1) + (i + 1)] - f[a - 1]
    OBVIOUS
  <2>1. /\ i + 1 \in 1 .. n /\ (i + 1) - 1 = i /\ i <= n
        /\ (a - 1) + (i + 1) = a + (i + 1) - 1 /\ (a + (i + 1) - 1) - 1 = (a - 1) + i
    BY <1>1
  <2>2. g[i + 1] = g[i] + q[i + 1].chars + 1
    BY <1>5, <2>1
  <2>3. q[i + 1] = s[a + (i + 1) - 1] /\ a + (i + 1) - 1 \in 1 .. Len(s)
    BY <1>2, <2>1
  <2>4. f[a + (i + 1) - 1] = f[(a - 1) + i] + s[a + (i + 1) - 1].chars + 1
    BY <1>4, <2>1, <2>3
  <2>5. /\ f[a - 1] \in Nat /\ f[(a - 1) + i] \in Nat /\ s[a + (i + 1) - 1].chars \in Nat
    <3>1. a - 1 \in 0 .. Len(s) /\ (a - 1) + i \in 0 .. Len(s)
      BY <1>1, <2>1
    <3> QED
      BY <1>4, <2>3, <3>1
  <2>6. g[i] = f[(a - 1) + i] - f[a - 1]
    BY <1>7, <2>1
  <2> QED
    BY <2>1, <2>2, <2>3, <2>4, <2>5, <2>6
<1>8. n \in T
  <2> HIDE DEF T
  <2> QED
    BY <1>1, <1>6, <1>7, FromZeroOn
<1>9. g[n] = f[(a - 1) + n] - f[a - 1] /\ (a - 1) + n = b
  BY <1>1, <1>8
<1> QED
  BY <1>5, <1>9 DEF q, f

\* A run of sentences is a list of sentences.
LEMMA RunOfSentences ==
    ASSUME NEW S, NEW s, Sentences(s, S), NEW a \in Nat \ {0}, NEW b \in 0 .. Len(s), a <= b + 1
    PROVE  Sentences(SubSeq(s, a, b), S) /\ Chars(SubSeq(s, a, b)) \in Nat
<1> DEFINE r == SubSeq(s, a, b)
<1>1. s \in Seq(S) /\ DOMAIN s = 1 .. Len(s) /\ \A i \in DOMAIN s : s[i].chars \in Nat
  BY DEF Sentences
<1>2. /\ r \in Seq(S) /\ Len(r) = b - a + 1
      /\ \A i \in 1 .. b - a + 1 : a + i - 1 \in 1 .. Len(s) /\ r[i] = s[a + i - 1]
  BY <1>1, RunIs
<1> HIDE DEF r
<1>3. DOMAIN r = 1 .. b - a + 1
  BY <1>2
<1>4. \A i \in DOMAIN r : r[i].chars \in Nat
  BY <1>1, <1>2, <1>3
<1>5. Len(r) \in Nat /\ Chars(r) = Sums(r)[Len(r)] /\ \A i \in 0 .. Len(r) : Sums(r)[i] \in Nat
  BY <1>2, <1>4, SumsAre
<1> QED
  BY <1>2, <1>4, <1>5 DEF Sentences, r

\* One sentence more, at the end or at the beginning.
LEMMA CharsAre ==
    ASSUME NEW S, NEW s, Sentences(s, S)
    PROVE  /\ Chars(s) \in Nat /\ Chars(<<>>) = 0
           /\ \A x \in S : x.chars \in Nat => Chars(Append(s, x)) = Chars(s) + x.chars + 1
           /\ \A p \in 1 .. Len(s) : /\ Chars(SubSeq(s, p + 1, Len(s))) \in Nat
                 /\ Chars(SubSeq(s, p, Len(s))) = Chars(SubSeq(s, p + 1, Len(s))) + s[p].chars + 1
<1>1. s \in Seq(S) /\ Len(s) \in Nat /\ DOMAIN s = 1 .. Len(s) /\ \A i \in DOMAIN s : s[i].chars \in Nat
  BY DEF Sentences
<1>2. /\ Chars(s) = Sums(s)[Len(s)] /\ \A n \in 0 .. Len(s) : Sums(s)[n] \in Nat
      /\ \A n \in 1 .. Len(s) : Sums(s)[n] = Sums(s)[n - 1] + s[n].chars + 1
  BY <1>1, SumsAre
<1>3. Chars(<<>>) = 0
  <2>1. <<>> \in Seq(S) /\ Len(<<>>) = 0 /\ \A i \in DOMAIN <<>> : <<>>[i].chars \in Nat
    OBVIOUS
  <2>2. Sums(<<>>)[0] = 0 /\ Chars(<<>>) = Sums(<<>>)[Len(<<>>)]
    BY <2>1, SumsAre
  <2> QED
    BY <2>1, <2>2
<1>4. ASSUME NEW x \in S, x.chars \in Nat PROVE Chars(Append(s, x)) = Chars(s) + x.chars + 1
  <2> DEFINE t == Append(s, x)
             n == Len(s)
  <2>1. /\ t \in Seq(S) /\ Len(t) = n + 1 /\ \A i \in 1 .. n : t[i] = s[i]
        /\ t[n + 1] = x /\ DOMAIN t = 1 .. n + 1
    BY <1>1, AppendProperties
  <2> HIDE DEF t
  <2>2. Sentences(t, S)
    BY <1>1, <1>4, <2>1 DEF Sentences
  <2>3. /\ 1 \in Nat \ {0} /\ n \in 0 .. Len(t) /\ 1 <= n + 1 /\ n - 1 + 1 = n
        /\ \A i \in 1 .. n : 1 + i - 1 = i
    BY <1>1, <2>1
  <2>4. SubSeq(t, 1, n) = s
    <3>1. /\ SubSeq(t, 1, n) \in Seq(S) /\ Len(SubSeq(t, 1, n)) = n
          /\ \A i \in 1 .. n : SubSeq(t, 1, n)[i] = t[i]
      BY <2>1, <2>3, RunIs
    <3> QED
      BY <1>1, <2>1, <3>1, SeqEqual
  <2>5. Chars(s) = Sums(t)[n] - Sums(t)[1 - 1]
    BY <2>2, <2>3, <2>4, CharsOfRun
  <2>6. /\ Sums(t)[0] = 0 /\ Chars(t) = Sums(t)[n + 1] /\ Sums(t)[n] \in Nat
        /\ Sums(t)[n + 1] = Sums(t)[n] + x.chars + 1
    <3>1. /\ n + 1 \in 1 .. Len(t) /\ (n + 1) - 1 = n /\ n \in 0 .. Len(t)
      BY <1>1, <2>1
    <3>2. /\ Sums(t)[0] = 0 /\ Chars(t) = Sums(t)[Len(t)]
          /\ \A i \in 1 .. Len(t) : Sums(t)[i] = Sums(t)[i - 1] + t[i].chars + 1
          /\ \A i \in 0 .. Len(t) : Sums(t)[i] \in Nat
      BY <2>2, SumsAre DEF Sentences
    <3> QED
      BY <2>1, <3>1, <3>2
  <2>7. Chars(t) = Chars(s) + x.chars + 1
    BY <1>4, <2>5, <2>6
  <2> QED
    BY <2>7 DEF t
<1>5. ASSUME NEW p \in 1 .. Len(s)
      PROVE  /\ Chars(SubSeq(s, p + 1, Len(s))) \in Nat
             /\ Chars(SubSeq(s, p, Len(s))) = Chars(SubSeq(s, p + 1, Len(s))) + s[p].chars + 1
  <2> DEFINE n == Len(s)
  <2>1. /\ n \in 0 .. Len(s) /\ p \in Nat \ {0} /\ p + 1 \in Nat \ {0} /\ p <= n + 1 /\ p + 1 <= n + 1
        /\ p \in 0 .. Len(s) /\ p - 1 \in 0 .. Len(s) /\ (p + 1) - 1 = p
    BY <1>1
  <2>2. /\ Chars(SubSeq(s, p, n)) = Sums(s)[n] - Sums(s)[p - 1]
        /\ Chars(SubSeq(s, p + 1, n)) = Sums(s)[n] - Sums(s)[p]
    BY <2>1, CharsOfRun
  <2>3. Sums(s)[p] = Sums(s)[p - 1] + s[p].chars + 1 /\ s[p].chars \in Nat
    BY <1>1, <1>2
  <2>4. Sums(s)[p] \in Nat /\ Sums(s)[p - 1] \in Nat /\ Sums(s)[n] \in Nat
    BY <1>2, <2>1
  <2>5. Chars(SubSeq(s, p + 1, n)) \in Nat
    <3> DEFINE a == p + 1
    <3>1. a \in Nat \ {0} /\ a <= n + 1
      BY <2>1
    <3> HIDE DEF a
    <3>2. Chars(SubSeq(s, a, n)) \in Nat
      BY <2>1, <3>1, RunOfSentences
    <3> QED
      BY <3>2 DEF a
  <2>6. \A all, before, upTo, c \in Int :
           upTo = before + c + 1 => all - before = (all - upTo) + c + 1
    OBVIOUS
  <2>7. Chars(SubSeq(s, p, n)) = Chars(SubSeq(s, p + 1, n)) + s[p].chars + 1
    BY <2>2, <2>3, <2>4, <2>6
  <2> QED
    BY <2>5, <2>7
<1> QED
  BY <1>1, <1>2, <1>3, <1>4, <1>5

\* The least of a set of naturals is one of them.
LEMMA LeastIsOneOfThem ==
    ASSUME NEW S, S \subseteq Nat, S # {}
    PROVE  Min(S) \in S
<1> DEFINE R == OpToRel(<, Nat)
<1>1. IsWellFoundedOn(R, Nat)
  BY NatLessThanWellFounded
<1>2. \A x, y \in Nat : x < y => <<x, y>> \in R
  BY DEF OpToRel
<1> HIDE DEF R
<1>3. PICK x \in S : \A y \in S : ~ (<<y, x>> \in R)
  BY <1>1, WFMin
<1>4. \A y \in S : x <= y
  <2> SUFFICES ASSUME NEW y \in S PROVE x <= y
    OBVIOUS
  <2>1. x \in Nat /\ y \in Nat /\ ~(y < x)
    BY <1>2, <1>3
  <2> QED
    BY <2>1
<1> QED
  BY <1>4 DEF Min

\* What a new chunk repeats: nothing, or a run to the end that is short or one sentence.
LEMMA TailIs ==
    ASSUME NEW S, NEW s, Sentences(s, S), s # <<>>
    PROVE  IF OverlapBudget = 0 THEN OverlapTail(s) = <<>>
           ELSE \E p \in 1 .. Len(s) :
                    /\ OverlapTail(s) = SubSeq(s, p, Len(s))
                    /\ p = Len(s) \/ Chars(SubSeq(s, p + 1, Len(s))) + s[p].chars <= OverlapBudget
<1> DEFINE fits == {p \in DOMAIN s :
                      Chars(SubSeq(s, p + 1, Len(s))) + s[p].chars <= OverlapBudget}
           T    == fits \cup {Len(s)}
<1>1. DOMAIN s = 1 .. Len(s) /\ Len(s) \in Nat \ {0}
  BY DEF Sentences
<1>2. T \subseteq Nat /\ T # {} /\ T \subseteq 1 .. Len(s)
  BY <1>1
<1>3. OverlapTail(s) = IF OverlapBudget = 0 THEN <<>> ELSE SubSeq(s, Min(T), Len(s))
  BY DEF OverlapTail
<1>4. \A p \in T : p = Len(s) \/ Chars(SubSeq(s, p + 1, Len(s))) + s[p].chars <= OverlapBudget
  OBVIOUS
<1> HIDE DEF T
<1>5. Min(T) \in T
  BY <1>2, LeastIsOneOfThem
<1> QED
  BY <1>2, <1>3, <1>4, <1>5

\* A chunk is within twice the target, or has a sentence that fills one by itself.
Fine(c) == Chars(c) <= 2 * Target + 1 \/ \E j \in DOMAIN c : c[j].chars >= Target

\* A list of sentences and one more.
LEMMA AppendIs ==
    ASSUME NEW S, NEW s, Sentences(s, S), NEW x \in S, x.chars \in Nat
    PROVE  /\ Sentences(Append(s, x), S) /\ Len(Append(s, x)) = Len(s) + 1
           /\ \A i \in DOMAIN s : i \in DOMAIN Append(s, x) /\ Append(s, x)[i] = s[i]
           /\ Len(s) + 1 \in DOMAIN Append(s, x) /\ Append(s, x)[Len(s) + 1] = x
           /\ Chars(Append(s, x)) = Chars(s) + x.chars + 1
<1> DEFINE t == Append(s, x)
<1>1. s \in Seq(S) /\ DOMAIN s = 1 .. Len(s) /\ Len(s) \in Nat /\ \A i \in DOMAIN s : s[i].chars \in Nat
  BY DEF Sentences
<1>2. /\ t \in Seq(S) /\ Len(t) = Len(s) + 1 /\ \A i \in 1 .. Len(s) : t[i] = s[i]
      /\ t[Len(s) + 1] = x
  BY <1>1, AppendProperties
<1>3. Chars(t) = Chars(s) + x.chars + 1
  BY CharsAre
<1> HIDE DEF t
<1>4. DOMAIN t = 1 .. Len(s) + 1
  BY <1>1, <1>2
<1>5. \A i \in DOMAIN t : t[i].chars \in Nat
  BY <1>1, <1>2, <1>4
<1> QED
  BY <1>1, <1>2, <1>3, <1>4, <1>5 DEF Sentences, t

\* Both ways a sentence is packed keep a chunk fine.
LEMMA PackingIsFine ==
    ASSUME NEW S, NEW s, Sentences(s, S), NEW x \in S, x.chars \in Nat
    PROVE  /\ s = <<>> \/ Chars(s) + x.chars + 1 <= Target => Fine(Append(s, x))
           /\ s # <<>> => /\ Fine(Append(OverlapTail(s), x))
                          /\ Sentences(OverlapTail(s), S)
<1>1. Target \in Nat \ {0} /\ OverlapBudget \in Nat /\ OverlapBudget <= Target
  BY ChunkerAssumption, OverlapIsAShare
<1>2. ASSUME NEW t, Sentences(t, S), Chars(t) <= Target + 1 \/ \E j \in DOMAIN t : t[j].chars >= Target
      PROVE  Fine(Append(t, x))
  <2>1. /\ \A i \in DOMAIN t : i \in DOMAIN Append(t, x) /\ Append(t, x)[i] = t[i]
        /\ Len(t) + 1 \in DOMAIN Append(t, x) /\ Append(t, x)[Len(t) + 1] = x
        /\ Chars(Append(t, x)) = Chars(t) + x.chars + 1 /\ Chars(t) \in Nat
    <3>1. /\ Chars(t) \in Nat /\ Chars(Append(t, x)) = Chars(t) + x.chars + 1
      BY <1>2, CharsAre
    <3>2. /\ \A i \in DOMAIN t : i \in DOMAIN Append(t, x) /\ Append(t, x)[i] = t[i]
          /\ Len(t) + 1 \in DOMAIN Append(t, x) /\ Append(t, x)[Len(t) + 1] = x
      BY <1>2, AppendIs
    <3> QED
      BY <3>1, <3>2
  <2>2. CASE x.chars >= Target \/ \E j \in DOMAIN t : t[j].chars >= Target
    BY <2>1, <2>2 DEF Fine
  <2>3. CASE ~(x.chars >= Target) /\ Chars(t) <= Target + 1
    <3>1. Chars(Append(t, x)) <= 2 * Target + 1
      BY <1>1, <2>1, <2>3
    <3> QED
      BY <3>1 DEF Fine
  <2> QED
    BY <1>2, <2>2, <2>3
<1>3. Sentences(<<>>, S) /\ Chars(<<>>) = 0 /\ Chars(s) \in Nat
  BY CharsAre DEF Sentences
<1>4. ASSUME s = <<>> \/ Chars(s) + x.chars + 1 <= Target PROVE Fine(Append(s, x))
  <2>1. Chars(s) <= Target + 1
    BY <1>1, <1>3, <1>4
  <2> QED
    BY <1>2, <2>1
<1>5. ASSUME s # <<>> PROVE Fine(Append(OverlapTail(s), x)) /\ Sentences(OverlapTail(s), S)
  <2>1. CASE OverlapBudget = 0
    <3>1. OverlapTail(s) = <<>>
      BY <1>5, <2>1, TailIs
    <3>2. Chars(<<>>) <= Target + 1
      BY <1>1, <1>3
    <3> QED
      BY <1>2, <1>3, <3>1, <3>2
  <2>2. CASE OverlapBudget # 0
    <3>1. PICK p \in 1 .. Len(s) :
             /\ OverlapTail(s) = SubSeq(s, p, Len(s))
             /\ p = Len(s) \/ Chars(SubSeq(s, p + 1, Len(s))) + s[p].chars <= OverlapBudget
      BY <1>5, <2>2, TailIs
    <3> DEFINE t == SubSeq(s, p, Len(s))
               u == SubSeq(s, p + 1, Len(s))
    <3>2. s \in Seq(S) /\ Len(s) \in Nat /\ p \in Nat \ {0} /\ p <= Len(s) + 1 /\ Len(s) \in 0 .. Len(s)
      BY DEF Sentences
    <3>3. /\ Sentences(t, S) /\ Len(t) = Len(s) - p + 1 /\ t[1] = s[p + 1 - 1]
          /\ 1 \in 1 .. Len(s) - p + 1
      <4>1. Sentences(t, S)
        BY <3>2, RunOfSentences
      <4>2. /\ Len(t) = Len(s) - p + 1
            /\ \A i \in 1 .. Len(s) - p + 1 : t[i] = s[p + i - 1]
        BY <3>2, RunIs
      <4>3. 1 \in 1 .. Len(s) - p + 1
        BY <3>2
      <4> QED
        BY <4>1, <4>2, <4>3
    <3>4. Chars(u) \in Nat /\ Chars(t) = Chars(u) + s[p].chars + 1
      BY CharsAre
    <3>5. s[p].chars \in Nat /\ p + 1 - 1 = p
      BY <3>2 DEF Sentences
    <3>6. 1 \in DOMAIN t /\ t[1] = s[p]
      BY <3>3, <3>5 DEF Sentences
    <3>7. p = Len(s) => Chars(u) = 0
      <4> SUFFICES ASSUME p = Len(s) PROVE Chars(u) = 0
        OBVIOUS
      <4>1. u = <<>>
        <5>1. Len(s) < p + 1 /\ p + 1 \in Int /\ Len(s) \in Int
          BY <3>2
        <5> QED
          BY <5>1, SubSeqEmpty
      <4> QED
        BY <1>3, <4>1
    <3> HIDE DEF t, u
    <3>8. Chars(t) <= Target + 1 \/ t[1].chars >= Target
      <4>1. CASE p = Len(s)
        BY <1>1, <3>4, <3>5, <3>6, <3>7, <4>1
      <4>2. CASE p # Len(s)
        <5>1. Chars(u) + s[p].chars <= OverlapBudget
          BY <3>1, <4>2 DEF u
        <5> QED
          BY <1>1, <3>4, <3>5, <5>1
      <4> QED
        BY <4>1, <4>2
    <3>9. Fine(Append(t, x))
      BY <1>2, <3>3, <3>6, <3>8
    <3> QED
      BY <3>1, <3>3, <3>9 DEF t
  <2> QED
    BY <2>1, <2>2
<1> QED
  BY <1>4, <1>5

-----------------------------------------------------------------------------
\* The chunks are runs of the text's first n sentences, from the first to the last of them,
\* each beginning where or within the one before it ended.
SpansWith(text, n, chunks, begin, end) ==
    /\ begin \in [1 .. Len(chunks) -> 1 .. Len(text)]
    /\ end \in [1 .. Len(chunks) -> 1 .. Len(text)]
    /\ \A i \in 1 .. Len(chunks) :
          begin[i] <= end[i] /\ chunks[i] = SubSeq(text, begin[i], end[i])
    /\ begin[1] = 1 /\ end[Len(chunks)] = n
    /\ \A i \in 2 .. Len(chunks) :
          /\ end[i] > end[i - 1]
          /\ IF OverlapBudget = 0 THEN begin[i] = end[i - 1] + 1
                                  ELSE begin[i] \in begin[i - 1] .. end[i - 1]
Spans(text, n, chunks) == \E begin, end : SpansWith(text, n, chunks, begin, end)

\* The open chunk takes one sentence more.
LEMMA OpenGrows ==
    ASSUME NEW S, NEW text, Sentences(text, S), NEW n \in Nat, n + 1 <= Len(text),
           NEW C, NEW before \in Seq(C), NEW open,
           Append(before, open) \in Seq(C), Append(before, Append(open, text[n + 1])) \in Seq(C),
           open \in C, Append(open, text[n + 1]) \in C,
           Spans(text, n, Append(before, open))
    PROVE  Spans(text, n + 1, Append(before, Append(open, text[n + 1])))
<1> DEFINE k  == Len(before) + 1
           cs == Append(before, open)
           ds == Append(before, Append(open, text[n + 1]))
<1>1. k \in Nat \ {0} /\ Len(before) \in Nat /\ text \in Seq(S)
  BY DEF Sentences
<1>2. Len(cs) = k /\ cs[k] = open /\ \A i \in 1 .. Len(before) : cs[i] = before[i]
  BY AppendProperties
<1>3. /\ Len(ds) = k /\ ds[k] = Append(open, text[n + 1])
      /\ \A i \in 1 .. Len(before) : ds[i] = before[i]
  BY AppendProperties
<1>4. PICK begin, end : SpansWith(text, n, cs, begin, end)
  BY DEF Spans
<1> HIDE DEF cs, ds
<1>5. /\ begin \in [1 .. k -> 1 .. Len(text)] /\ end \in [1 .. k -> 1 .. Len(text)]
      /\ \A i \in 1 .. k : begin[i] <= end[i] /\ cs[i] = SubSeq(text, begin[i], end[i])
      /\ begin[1] = 1 /\ end[k] = n
      /\ \A i \in 2 .. k :
            /\ end[i] > end[i - 1]
            /\ IF OverlapBudget = 0 THEN begin[i] = end[i - 1] + 1
                                    ELSE begin[i] \in begin[i - 1] .. end[i - 1]
  BY <1>2, <1>4 DEF SpansWith
<1> DEFINE to == [end EXCEPT ![k] = n + 1]
<1>6. /\ to \in [1 .. k -> 1 .. Len(text)] /\ to[k] = n + 1
      /\ \A i \in 1 .. k : i # k => to[i] = end[i]
  <2>1. n + 1 \in 1 .. Len(text) /\ k \in 1 .. k
    BY <1>1
  <2> QED
    BY <1>5, <2>1
<1> HIDE DEF to
<1>7. ASSUME NEW i \in 1 .. k PROVE begin[i] <= to[i] /\ ds[i] = SubSeq(text, begin[i], to[i])
  <2>1. CASE i # k
    <3>1. i \in 1 .. Len(before)
      BY <1>1, <2>1
    <3> QED
      BY <1>2, <1>3, <1>5, <1>6, <2>1, <3>1
  <2>2. CASE i = k
    <3>1. k \in 1 .. k /\ Len(text) \in Nat
      BY <1>1
    <3>2. /\ begin[k] \in Nat \ {0} /\ begin[k] <= n /\ open = SubSeq(text, begin[k], n)
      <4>1. begin[k] \in 1 .. Len(text)
        BY <1>5, <3>1
      <4>2. begin[k] <= end[k] /\ cs[k] = SubSeq(text, begin[k], end[k]) /\ end[k] = n
        BY <1>5, <3>1
      <4>3. begin[k] \in Nat \ {0}
        BY <3>1, <4>1
      <4> QED
        BY <1>2, <4>2, <4>3
    <3>3. begin[k] <= n + 1
      BY <3>2
    <3>4. Append(SubSeq(text, begin[k], n), text[n + 1]) = SubSeq(text, begin[k], n + 1)
      BY <1>1, <3>2, <3>3, RunGrows
    <3> QED
      BY <1>3, <1>6, <2>2, <3>2, <3>3, <3>4
  <2> QED
    BY <2>1, <2>2
<1>8. ASSUME NEW i \in 2 .. k
      PROVE  /\ to[i] > to[i - 1]
             /\ IF OverlapBudget = 0 THEN begin[i] = to[i - 1] + 1
                                     ELSE begin[i] \in begin[i - 1] .. to[i - 1]
  <2>1. i - 1 \in 1 .. k /\ i - 1 # k /\ i \in 1 .. k /\ Len(text) \in Nat
    BY <1>1
  <2>2. to[i - 1] = end[i - 1] /\ end[i - 1] \in Nat /\ end[i] \in Nat
    <3>1. to[i - 1] = end[i - 1]
      BY <1>6, <2>1
    <3>2. end[i - 1] \in 1 .. Len(text) /\ end[i] \in 1 .. Len(text)
      BY <1>5, <2>1
    <3> QED
      BY <2>1, <3>1, <3>2
  <2>3. to[i] >= end[i]
    <3>1. CASE i = k
      <4>1. to[i] = n + 1 /\ end[i] = n
        BY <1>5, <1>6, <3>1
      <4> QED
        BY <4>1
    <3>2. CASE i # k
      <4>1. to[i] = end[i]
        BY <1>6, <2>1, <3>2
      <4> QED
        BY <2>2, <4>1
    <3> QED
      BY <3>1, <3>2
  <2>4. to[i] \in Nat
    BY <1>6, <2>1
  <2> QED
    BY <1>5, <2>2, <2>3, <2>4
<1>9. SpansWith(text, n + 1, ds, begin, to)
  BY <1>3, <1>5, <1>6, <1>7, <1>8 DEF SpansWith
<1> QED
  BY <1>9 DEF Spans, ds

\* A chunk is closed, and the next begins with its tail.
LEMMA ChunkCloses ==
    ASSUME NEW S, NEW text, Sentences(text, S), NEW n \in Nat, n + 1 <= Len(text),
           NEW C, NEW cs \in Seq(C), cs # <<>>, NEW open, open = cs[Len(cs)],
           Sentences(open, S), open # <<>>,
           Append(OverlapTail(open), text[n + 1]) \in C, Spans(text, n, cs)
    PROVE  Spans(text, n + 1, Append(cs, Append(OverlapTail(open), text[n + 1])))
<1> DEFINE k  == Len(cs)
           x  == text[n + 1]
           ds == Append(cs, Append(OverlapTail(open), x))
<1>1. k \in Nat \ {0} /\ text \in Seq(S) /\ x \in S
  BY DEF Sentences
<1>2. /\ Len(ds) = k + 1 /\ ds[k + 1] = Append(OverlapTail(open), x)
      /\ \A i \in 1 .. k : ds[i] = cs[i]
  BY AppendProperties
<1>3. PICK begin, end : SpansWith(text, n, cs, begin, end)
  BY DEF Spans
<1> HIDE DEF ds
<1>4. /\ begin \in [1 .. k -> 1 .. Len(text)] /\ end \in [1 .. k -> 1 .. Len(text)]
      /\ \A i \in 1 .. k : begin[i] <= end[i] /\ cs[i] = SubSeq(text, begin[i], end[i])
      /\ begin[1] = 1 /\ end[k] = n
      /\ \A i \in 2 .. k :
            /\ end[i] > end[i - 1]
            /\ IF OverlapBudget = 0 THEN begin[i] = end[i - 1] + 1
                                    ELSE begin[i] \in begin[i - 1] .. end[i - 1]
  BY <1>3 DEF SpansWith
<1>5. /\ k \in 1 .. k /\ begin[k] \in Nat \ {0} /\ n \in 1 .. Len(text) /\ begin[k] <= n
      /\ open = SubSeq(text, begin[k], n)
  BY <1>1, <1>4
<1>6. PICK a \in Nat \ {0} :
         /\ a <= n + 1 /\ Append(OverlapTail(open), x) = SubSeq(text, a, n + 1)
         /\ IF OverlapBudget = 0 THEN a = n + 1 ELSE a \in begin[k] .. n
  <2>1. CASE OverlapBudget = 0
    <3>1. OverlapTail(open) = <<>>
      BY <2>1, TailIs
    <3>2. SubSeq(text, n + 1, n) = <<>>
      BY SubSeqEmpty
    <3>3. Append(SubSeq(text, n + 1, n), x) = SubSeq(text, n + 1, n + 1)
      <4>1. n + 1 \in Nat \ {0} /\ n + 1 <= n + 1
        OBVIOUS
      <4> QED
        BY <1>1, <4>1, RunGrows
    <3>4. n + 1 \in Nat \ {0} /\ n + 1 <= n + 1
      OBVIOUS
    <3> QED
      BY <2>1, <3>1, <3>2, <3>3, <3>4
  <2>2. CASE OverlapBudget # 0
    <3>1. PICK p \in 1 .. Len(open) : OverlapTail(open) = SubSeq(open, p, Len(open))
      BY <2>2, TailIs
    <3> DEFINE b == begin[k]
    <3>2. b \in Nat \ {0} /\ n \in 1 .. Len(text) /\ b <= n /\ open = SubSeq(text, b, n)
      BY <1>5
    <3> HIDE DEF b
    <3>3. Len(open) = n - b + 1
      BY <1>1, <3>2, RunIs
    <3>4. p \in 1 .. n - b + 1
      BY <3>3
    <3> DEFINE a == b + p - 1
    <3>5. SubSeq(SubSeq(text, b, n), p, n - b + 1) = SubSeq(text, a, n)
      BY <1>1, <3>2, <3>4, RunOfRun
    <3>6. a \in Nat \ {0} /\ a <= n + 1 /\ a \in b .. n
      BY <3>2, <3>4
    <3> HIDE DEF a
    <3>7. Append(SubSeq(text, a, n), x) = SubSeq(text, a, n + 1)
      BY <1>1, <3>6, RunGrows
    <3>8. Append(OverlapTail(open), x) = SubSeq(text, a, n + 1)
      BY <3>1, <3>2, <3>3, <3>5, <3>7
    <3> QED
      BY <2>2, <3>6, <3>8 DEF b
  <2> QED
    BY <2>1, <2>2
<1> HIDE DEF x
<1> DEFINE from == [i \in 1 .. k + 1 |-> IF i = k + 1 THEN a ELSE begin[i]]
           to   == [i \in 1 .. k + 1 |-> IF i = k + 1 THEN n + 1 ELSE end[i]]
<1>7. /\ \A i \in 1 .. k : i \in 1 .. k + 1 /\ from[i] = begin[i] /\ to[i] = end[i]
      /\ from[k + 1] = a /\ to[k + 1] = n + 1
      /\ \A i \in 1 .. k + 1 : i = k + 1 \/ i \in 1 .. k
  BY <1>1
<1>8. from \in [1 .. k + 1 -> 1 .. Len(text)] /\ to \in [1 .. k + 1 -> 1 .. Len(text)]
  <2>1. a \in 1 .. Len(text) /\ n + 1 \in 1 .. Len(text) /\ Len(text) \in Nat
    BY <1>1, <1>6
  <2>2. \A i \in 1 .. k + 1 : i # k + 1 => begin[i] \in 1 .. Len(text) /\ end[i] \in 1 .. Len(text)
    BY <1>4, <1>7
  <2> QED
    BY <2>1, <2>2
<1> HIDE DEF from, to
<1>9. ASSUME NEW i \in 1 .. k + 1 PROVE from[i] <= to[i] /\ ds[i] = SubSeq(text, from[i], to[i])
  <2>1. CASE i = k + 1
    BY <1>2, <1>6, <1>7, <2>1 DEF x
  <2>2. CASE i \in 1 .. k
    BY <1>2, <1>4, <1>7, <2>2
  <2> QED
    BY <1>7, <2>1, <2>2
<1>10. ASSUME NEW i \in 2 .. k + 1
       PROVE  /\ to[i] > to[i - 1]
              /\ IF OverlapBudget = 0 THEN from[i] = to[i - 1] + 1
                                      ELSE from[i] \in from[i - 1] .. to[i - 1]
  <2>1. CASE i = k + 1
    <3>1. i - 1 = k /\ k \in 1 .. k
      BY <1>1, <2>1
    <3>2. to[i] = n + 1 /\ to[i - 1] = n /\ from[i] = a /\ from[i - 1] = begin[k]
      BY <1>4, <1>7, <2>1, <3>1
    <3> QED
      BY <1>6, <3>2
  <2>2. CASE i # k + 1
    <3>1. i \in 2 .. k /\ i \in 1 .. k /\ i - 1 \in 1 .. k
      BY <1>1, <2>2
    <3>2. /\ to[i] = end[i] /\ to[i - 1] = end[i - 1]
          /\ from[i] = begin[i] /\ from[i - 1] = begin[i - 1]
      BY <1>7, <3>1
    <3> QED
      BY <1>4, <3>1, <3>2
  <2> QED
    BY <2>1, <2>2
<1>11. from[1] = 1
  <2>1. 1 \in 1 .. k
    BY <1>1
  <2> QED
    BY <1>4, <1>7, <2>1
<1>12. SpansWith(text, n + 1, ds, from, to)
  BY <1>2, <1>7, <1>8, <1>9, <1>10, <1>11 DEF SpansWith
<1> QED
  BY <1>12 DEF Spans, ds, x

\* Where the packing loop begins.
Unpacked == [closed |-> <<>>, open |-> <<>>]

\* What packing a list comes to exists, and is what its recursion says.
LEMMA PackingExists ==
    ASSUME NEW N \in Nat, NEW text
    PROVE  \E f : f = [n \in 0 .. N |-> IF n = 0 THEN Unpacked ELSE Pack(f[n - 1], text[n])]
<1> DEFINE Rec(m, f) == f = [n \in 0 .. m |-> IF n = 0 THEN Unpacked ELSE Pack(f[n - 1], text[n])]
           S == {m \in Nat : \E f : Rec(m, f)}
<1>1. 0 \in S
  <2> DEFINE f == [n \in 0 .. 0 |-> Unpacked]
  <2>1. Rec(0, f)
    OBVIOUS
  <2> QED
    BY <2>1
<1>2. ASSUME NEW m \in Nat, m \in S PROVE m + 1 \in S
  <2>1. PICK f : Rec(m, f)
    BY <1>2
  <2> DEFINE g == [n \in 0 .. m + 1 |-> IF n = m + 1 THEN Pack(f[m], text[m + 1]) ELSE f[n]]
  <2>2. \A n \in 0 .. m + 1 : g[n] = IF n = 0 THEN Unpacked ELSE Pack(g[n - 1], text[n])
    <3> SUFFICES ASSUME NEW n \in 0 .. m + 1
                 PROVE  g[n] = IF n = 0 THEN Unpacked ELSE Pack(g[n - 1], text[n])
      OBVIOUS
    <3>1. CASE n = 0
      BY <2>1, <3>1
    <3>2. CASE n = m + 1
      <4>1. g[n] = Pack(f[m], text[m + 1]) /\ n # 0 /\ n - 1 = m /\ g[n - 1] = f[m]
        BY <3>2
      <4> QED
        BY <3>2, <4>1
    <3>3. CASE n # 0 /\ n # m + 1
      <4>1. n \in 0 .. m /\ n - 1 \in 0 .. m /\ n - 1 # m + 1
        BY <3>3
      <4>2. g[n] = f[n] /\ g[n - 1] = f[n - 1]
        BY <3>3, <4>1
      <4> QED
        BY <2>1, <3>3, <4>1, <4>2
    <3> QED
      BY <3>1, <3>2, <3>3
  <2>3. Rec(m + 1, g)
    BY <2>2
  <2> HIDE DEF Rec, g
  <2>4. \E h : Rec(m + 1, h)
    BY <2>3
  <2> QED
    BY <2>4
<1> HIDE DEF S, Rec
<1>3. N \in S
  BY <1>1, <1>2, FromZeroOn
<1> QED
  BY <1>3 DEF S, Rec

\* The packing of a text, sentence by sentence.
Packed(text) ==
    CHOOSE f : f = [n \in 0 .. Len(text) |-> IF n = 0 THEN Unpacked ELSE Pack(f[n - 1], text[n])]
LEMMA PackedIs ==
    ASSUME NEW S, NEW text \in Seq(S)
    PROVE  /\ Packed(text)[0] = Unpacked
           /\ \A n \in 1 .. Len(text) : Packed(text)[n] = Pack(Packed(text)[n - 1], text[n])
           /\ ChunkText(text) = LET last == Packed(text)[Len(text)]
                                IN  IF last.open = <<>> THEN last.closed
                                    ELSE Append(last.closed, last.open)
<1>1. Len(text) \in Nat
  OBVIOUS
<1>2. Packed(text) = [n \in 0 .. Len(text) |-> IF n = 0 THEN Unpacked
                                               ELSE Pack(Packed(text)[n - 1], text[n])]
  BY <1>1, PackingExists DEF Packed
<1>3. ChunkText(text) = LET last == Packed(text)[Len(text)]
                        IN  IF last.open = <<>> THEN last.closed
                            ELSE Append(last.closed, last.open)
  BY DEF ChunkText, Packed, Unpacked
<1> DEFINE f == Packed(text)
<1> HIDE DEF f
<1>4. f[0] = Unpacked /\ \A n \in 1 .. Len(text) : f[n] = Pack(f[n - 1], text[n])
  BY <1>1, <1>2 DEF f
<1> QED
  BY <1>3, <1>4 DEF f

\* After n sentences: the closed chunks and the open one span them, and all are fine.
PackedSoFar(text, S, n, acc) ==
    /\ acc \in [closed : Seq(Seq(S)), open : Seq(S)] /\ Sentences(acc.open, S)
    /\ \A i \in DOMAIN acc.closed : Fine(acc.closed[i])
    /\ n = 0 => acc = Unpacked
    /\ n # 0 => /\ acc.open # <<>> /\ Fine(acc.open)
                /\ Spans(text, n, Append(acc.closed, acc.open))

\* The first sentence alone spans itself.
LEMMA FirstSentence ==
    ASSUME NEW S, NEW text \in Seq(S), 1 <= Len(text)
    PROVE  Spans(text, 1, Append(<<>>, Append(<<>>, text[1])))
<1> DEFINE one == [i \in 1 .. 1 |-> 1]
           cs  == Append(<<>>, Append(<<>>, text[1]))
<1>1. Len(cs) = 1 /\ cs[1] = Append(<<>>, text[1])
  OBVIOUS
<1>2. Len(text) \in Nat /\ 1 \in 1 .. Len(text) /\ SubSeq(text, 1, 0) = <<>>
  BY SubSeqEmpty
<1>3. Append(<<>>, text[1]) = SubSeq(text, 1, 1)
  <2>1. /\ 1 \in Nat \ {0} /\ 0 \in Nat /\ 0 + 1 = 1 /\ 0 + 1 <= Len(text) /\ 1 <= 0 + 1
    BY <1>2
  <2>2. Append(SubSeq(text, 1, 0), text[0 + 1]) = SubSeq(text, 1, 0 + 1)
    BY <2>1, RunGrows
  <2> QED
    BY <1>2, <2>1, <2>2
<1> HIDE DEF cs
<1>4. SpansWith(text, 1, cs, one, one)
  <2>1. one \in [1 .. 1 -> 1 .. Len(text)] /\ one[1] = 1
    BY <1>2
  <2> HIDE DEF one
  <2>2. \A i \in 1 .. 1 : i = 1
    OBVIOUS
  <2>3. \A i \in 2 .. 1 : FALSE
    OBVIOUS
  <2>4. \A i \in 1 .. Len(cs) : one[i] <= one[i] /\ cs[i] = SubSeq(text, one[i], one[i])
    <3> SUFFICES ASSUME NEW i \in 1 .. Len(cs)
                 PROVE  one[i] <= one[i] /\ cs[i] = SubSeq(text, one[i], one[i])
      OBVIOUS
    <3>1. i = 1
      BY <1>1, <2>2
    <3>2. one[1] <= one[1] /\ cs[1] = SubSeq(text, one[1], one[1])
      BY <1>1, <1>3, <2>1
    <3> QED
      BY <3>1, <3>2
  <2> QED
    BY <1>1, <2>1, <2>3, <2>4 DEF SpansWith
<1> QED
  BY <1>4 DEF Spans, cs

\* One sentence more.
LEMMA PackKeeps ==
    ASSUME NEW S, NEW text, Sentences(text, S), NEW n \in Nat, n + 1 <= Len(text),
           NEW acc, PackedSoFar(text, S, n, acc)
    PROVE  PackedSoFar(text, S, n + 1, Pack(acc, text[n + 1]))
<1> DEFINE x == text[n + 1]
           closed == acc.closed
           open == acc.open
           cs == Append(closed, open)
<1>1. /\ text \in Seq(S) /\ x \in S /\ x.chars \in Nat /\ n + 1 # 0
  <2>1. text \in Seq(S) /\ n + 1 \in DOMAIN text
    BY DEF Sentences
  <2> QED
    BY <2>1 DEF Sentences
<1>2. /\ acc = [closed |-> closed, open |-> open] /\ closed \in Seq(Seq(S)) /\ open \in Seq(S)
      /\ Sentences(open, S) /\ \A i \in DOMAIN closed : Fine(closed[i])
      /\ n = 0 => closed = <<>> /\ open = <<>>
      /\ n # 0 => open # <<>> /\ Fine(open) /\ Spans(text, n, cs)
  BY DEF PackedSoFar, Unpacked
<1> HIDE DEF x, closed, open
<1>3. /\ Sentences(Append(open, x), S) /\ Append(open, x) \in Seq(S) /\ Append(open, x) # <<>>
  <2>1. Sentences(Append(open, x), S) /\ Len(Append(open, x)) = Len(open) + 1 /\ Len(open) \in Nat
    BY <1>1, <1>2, AppendIs
  <2>2. Append(open, x) # <<>>
    BY <2>1
  <2> QED
    BY <2>1, <2>2 DEF Sentences
<1>4. /\ cs \in Seq(Seq(S)) /\ Len(cs) = Len(closed) + 1 /\ cs[Len(cs)] = open /\ cs # <<>>
      /\ \A i \in 1 .. Len(closed) : cs[i] = closed[i]
  <2>1. /\ cs \in Seq(Seq(S)) /\ Len(cs) = Len(closed) + 1 /\ cs[Len(closed) + 1] = open
        /\ \A i \in 1 .. Len(closed) : cs[i] = closed[i]
    BY <1>2, AppendProperties
  <2>2. cs # <<>>
    <3> HIDE DEF cs
    <3>1. Len(closed) \in Nat
      BY <1>2
    <3> QED
      BY <2>1, <3>1
  <2> QED
    BY <2>1, <2>2
<1>5. CASE open # <<>> /\ Chars(open) + x.chars + 1 > Target
  <2> DEFINE next == Append(OverlapTail(open), x)
  <2>1. Pack(acc, x) = [closed |-> cs, open |-> next]
    BY <1>5 DEF Pack, closed, open
  <2>2. n # 0 /\ Fine(open) /\ Spans(text, n, cs)
    BY <1>2, <1>5
  <2>3. Fine(next) /\ Sentences(OverlapTail(open), S)
    BY <1>1, <1>2, <1>5, PackingIsFine
  <2>4. Sentences(next, S) /\ next \in Seq(S) /\ next # <<>>
    <3>1. Sentences(next, S) /\ Len(next) = Len(OverlapTail(open)) + 1 /\ Len(OverlapTail(open)) \in Nat
      BY <1>1, <2>3, AppendIs DEF Sentences
    <3>2. next # <<>>
      <4> HIDE DEF next
      <4> QED
        BY <3>1
    <3> QED
      BY <3>1, <3>2 DEF Sentences
  <2> HIDE DEF cs
  <2>5. Spans(text, n + 1, Append(cs, next))
    <3>1. open = cs[Len(cs)] /\ Append(OverlapTail(open), text[n + 1]) \in Seq(S)
      BY <1>4, <2>4 DEF x
    <3> QED
      BY <1>2, <1>4, <1>5, <2>2, <3>1, ChunkCloses DEF x
  <2>6. \A i \in DOMAIN cs : Fine(cs[i])
    <3> SUFFICES ASSUME NEW i \in DOMAIN cs PROVE Fine(cs[i])
      OBVIOUS
    <3>1. i = Len(cs) \/ i \in 1 .. Len(closed)
      BY <1>2, <1>4
    <3>2. DOMAIN closed = 1 .. Len(closed)
      BY <1>2
    <3> QED
      BY <1>2, <1>4, <2>2, <3>1, <3>2
  <2> HIDE DEF next
  <2>7. PackedSoFar(text, S, n + 1, [closed |-> cs, open |-> next])
    BY <1>1, <1>4, <2>3, <2>4, <2>5, <2>6 DEF PackedSoFar
  <2> QED
    BY <2>1, <2>7 DEF x
<1>6. CASE ~(open # <<>> /\ Chars(open) + x.chars + 1 > Target)
  <2> DEFINE next == Append(open, x)
  <2>1. Pack(acc, x) = [closed |-> closed, open |-> next]
    <3>1. Pack(acc, x) = [acc EXCEPT !.open = Append(@, x)]
      BY <1>6 DEF Pack, open
    <3>2. [acc EXCEPT !.open = Append(@, x)] = [closed |-> closed, open |-> Append(open, x)]
      <4>1. acc.open = open
        BY DEF open
      <4> HIDE DEF cs, next
      <4>2. \A v : [acc EXCEPT !.open = v] = [closed |-> closed, open |-> v]
        BY <1>2
      <4> QED
        BY <4>1, <4>2
    <3> QED
      BY <3>1, <3>2
  <2>2. Fine(next)
    <3>1. open = <<>> \/ Chars(open) + x.chars + 1 <= Target
      <4>1. Chars(open) \in Nat /\ Target \in Nat
        BY <1>2, CharsAre, ChunkerAssumption
      <4> QED
        BY <1>1, <1>6, <4>1
    <3> QED
      BY <1>1, <1>2, <3>1, PackingIsFine
  <2>3. Spans(text, n + 1, Append(closed, next))
    <3>1. CASE n = 0
      <4>1. Spans(text, 1, Append(<<>>, Append(<<>>, text[1])))
        BY <1>1, <3>1, FirstSentence
      <4> QED
        BY <1>2, <3>1, <4>1 DEF x
    <3>2. CASE n # 0
      <4>1. Append(closed, Append(open, text[n + 1])) \in Seq(Seq(S))
        BY <1>2, <1>3, AppendProperties DEF x
      <4>2. Append(open, text[n + 1]) \in Seq(S)
        BY <1>3 DEF x
      <4> QED
        BY <1>2, <1>4, <3>2, <4>1, <4>2, OpenGrows DEF x
    <3> QED
      BY <3>1, <3>2
  <2> HIDE DEF next
  <2>4. PackedSoFar(text, S, n + 1, [closed |-> closed, open |-> next])
    BY <1>1, <1>2, <1>3, <2>2, <2>3 DEF PackedSoFar, next
  <2> QED
    BY <2>1, <2>4 DEF x
<1> QED
  BY <1>5, <1>6

\* All of them are packed: the induction over the text.
LEMMA PackedIsSound ==
    ASSUME NEW S, NEW text, Sentences(text, S)
    PROVE  PackedSoFar(text, S, Len(text), Packed(text)[Len(text)])
<1> DEFINE T == {n \in Nat : n <= Len(text) => PackedSoFar(text, S, n, Packed(text)[n])}
<1>1. text \in Seq(S) /\ Len(text) \in Nat
  BY DEF Sentences
<1>2. /\ Packed(text)[0] = Unpacked
      /\ \A n \in 1 .. Len(text) : Packed(text)[n] = Pack(Packed(text)[n - 1], text[n])
  BY <1>1, PackedIs
<1>3. 0 \in T
  <2>1. PackedSoFar(text, S, 0, Unpacked)
    <3>1. /\ <<>> \in Seq(S) /\ <<>> \in Seq(Seq(S)) /\ DOMAIN <<>> = {}
      OBVIOUS
    <3>2. Sentences(<<>>, S)
      BY <3>1 DEF Sentences
    <3> QED
      BY <3>1, <3>2 DEF PackedSoFar, Unpacked
  <2> QED
    BY <1>2, <2>1
<1>4. ASSUME NEW n \in Nat, n \in T PROVE n + 1 \in T
  <2> SUFFICES ASSUME n + 1 <= Len(text) PROVE PackedSoFar(text, S, n + 1, Packed(text)[n + 1])
    OBVIOUS
  <2>1. n <= Len(text) /\ n + 1 \in 1 .. Len(text) /\ (n + 1) - 1 = n
    BY <1>1
  <2>2. Packed(text)[n + 1] = Pack(Packed(text)[n], text[n + 1])
    BY <1>2, <2>1
  <2>3. PackedSoFar(text, S, n, Packed(text)[n])
    BY <1>4, <2>1
  <2> QED
    BY <2>2, <2>3, PackKeeps
<1> HIDE DEF T
<1>5. Len(text) \in T
  BY <1>1, <1>3, <1>4, FromZeroOn
<1> QED
  BY <1>1, <1>5 DEF T

\* A text without sentences has no chunks; the chunks of any other span it, and are fine.
LEMMA ChunksAre ==
    ASSUME NEW S, NEW text, Sentences(text, S)
    PROVE  /\ ChunkText(text) \in Seq(Seq(S)) /\ (ChunkText(text) = <<>>) = (text = <<>>)
           /\ text # <<>> => Spans(text, Len(text), ChunkText(text))
           /\ \A i \in DOMAIN ChunkText(text) : Fine(ChunkText(text)[i])
<1> DEFINE last == Packed(text)[Len(text)]
           cs == ChunkText(text)
           ds == Append(last.closed, last.open)
<1>1. text \in Seq(S) /\ Len(text) \in Nat /\ (text = <<>>) = (Len(text) = 0)
  BY EmptySeq DEF Sentences
<1>2. cs = IF last.open = <<>> THEN last.closed ELSE ds
  BY <1>1, PackedIs
<1>3. PackedSoFar(text, S, Len(text), last)
  BY PackedIsSound
<1> HIDE DEF last, cs
<1>4. CASE text = <<>>
  <2>1. last = Unpacked
    BY <1>1, <1>3, <1>4 DEF PackedSoFar
  <2>2. cs = <<>>
    BY <1>2, <2>1 DEF Unpacked
  <2>3. <<>> \in Seq(Seq(S)) /\ DOMAIN <<>> = {}
    OBVIOUS
  <2> QED
    BY <1>4, <2>2, <2>3 DEF cs
<1>5. CASE text # <<>>
  <2>1. /\ last \in [closed : Seq(Seq(S)), open : Seq(S)]
        /\ \A i \in DOMAIN last.closed : Fine(last.closed[i])
        /\ last.open # <<>> /\ Fine(last.open) /\ Spans(text, Len(text), ds)
    BY <1>1, <1>3, <1>5 DEF PackedSoFar
  <2>2. cs = ds
    BY <1>2, <2>1
  <2>3. last.closed \in Seq(Seq(S)) /\ last.open \in Seq(S)
    BY <2>1
  <2>4. /\ ds \in Seq(Seq(S)) /\ Len(ds) = Len(last.closed) + 1
        /\ ds[Len(last.closed) + 1] = last.open
        /\ \A i \in 1 .. Len(last.closed) : ds[i] = last.closed[i]
    BY <2>3, AppendProperties
  <2> HIDE DEF ds
  <2>5. ds # <<>> /\ Len(last.closed) \in Nat
    BY <2>3, <2>4
  <2>6. \A i \in DOMAIN ds : Fine(ds[i])
    <3> SUFFICES ASSUME NEW i \in DOMAIN ds PROVE Fine(ds[i])
      OBVIOUS
    <3>1. i = Len(last.closed) + 1 \/ i \in 1 .. Len(last.closed)
      BY <2>4, <2>5
    <3>2. DOMAIN last.closed = 1 .. Len(last.closed)
      BY <2>3
    <3> QED
      BY <2>1, <2>4, <3>1, <3>2
  <2> QED
    BY <1>5, <2>1, <2>2, <2>4, <2>5, <2>6 DEF cs
<1> QED
  BY <1>4, <1>5

\* The chunks cover the text, as the docstring of chunk_text has it.
LEMMA ChunksCover ==
    ASSUME NEW S, NEW text, Sentences(text, S)
    PROVE  Covers(text, ChunkText(text))
<1> DEFINE cs == ChunkText(text)
<1>1. text \in Seq(S) /\ DOMAIN text = 1 .. Len(text)
  BY DEF Sentences
<1>2. /\ cs \in Seq(Seq(S)) /\ (cs = <<>>) = (text = <<>>)
      /\ text # <<>> => Spans(text, Len(text), cs)
  BY ChunksAre
<1> HIDE DEF cs
<1>3. DOMAIN cs = 1 .. Len(cs) /\ Len(cs) \in Nat
  BY <1>2
<1>4. CASE text = <<>>
  <2>1. cs = <<>> /\ DOMAIN cs = {} /\ Len(cs) = 0
    BY <1>2, <1>4
  <2> DEFINE none == [i \in DOMAIN cs |-> 1]
  <2>2. none \in [DOMAIN cs -> DOMAIN text]
    BY <2>1
  <2>3. \A i \in 2 .. Len(cs) : FALSE
    BY <2>1
  <2> HIDE DEF none
  <2>4. Covers(text, cs)
    BY <1>2, <2>1, <2>2, <2>3 DEF Covers
  <2> QED
    BY <2>4 DEF cs
<1>5. CASE text # <<>>
  <2>1. PICK begin, end : SpansWith(text, Len(text), cs, begin, end)
    BY <1>2, <1>5 DEF Spans
  <2>2. /\ begin \in [DOMAIN cs -> DOMAIN text] /\ end \in [DOMAIN cs -> DOMAIN text]
        /\ \A i \in DOMAIN cs : cs[i] = SubSeq(text, begin[i], end[i])
        /\ begin[1] = 1 /\ end[Len(cs)] = Len(text)
        /\ \A i \in 2 .. Len(cs) :
              /\ end[i] > end[i - 1]
              /\ IF OverlapBudget = 0 THEN begin[i] = end[i - 1] + 1
                                      ELSE begin[i] \in begin[i - 1] .. end[i - 1]
    BY <1>1, <1>3, <2>1 DEF SpansWith
  <2>3. Covers(text, cs)
    BY <1>2, <2>2 DEF Covers
  <2> QED
    BY <2>3 DEF cs
<1> QED
  BY <1>4, <1>5

\* What the preview warns of is a sentence.
LEMMA ChunksWarn ==
    ASSUME NEW S, NEW text, Sentences(text, S)
    PROVE  WarnsOfSentences(ChunkText(text))
<1> DEFINE cs == ChunkText(text)
<1>1. text \in Seq(S) /\ Len(text) \in Nat
  BY DEF Sentences
<1>2. /\ cs \in Seq(Seq(S)) /\ (cs = <<>>) = (text = <<>>)
      /\ text # <<>> => Spans(text, Len(text), cs)
      /\ \A i \in DOMAIN cs : Fine(cs[i])
  BY ChunksAre
<1> HIDE DEF cs
<1>3. ASSUME NEW i \in DOMAIN cs, <<"oversized", i - 1>> \in Findings(cs)
      PROVE  \E j \in DOMAIN cs[i] : cs[i][j].chars >= Target
  <2>1. DOMAIN cs = 1 .. Len(cs) /\ cs # <<>> /\ text # <<>>
    BY <1>2, <1>3
  <2>2. Oversized(cs[i])
    <3>1. <<"oversized", i - 1>> # <<"no_sentence_boundaries", 0>>
      OBVIOUS
    <3>2. <<"oversized", i - 1>> \in
             {<<"oversized", j - 1>> : j \in {k \in DOMAIN cs : Oversized(cs[k])}}
      BY <1>3, <2>1, <3>1 DEF Findings
    <3>3. PICK j \in {k \in DOMAIN cs : Oversized(cs[k])} :
             <<"oversized", i - 1>> = <<"oversized", j - 1>>
      BY <3>2
    <3>4. i - 1 = j - 1 /\ i \in Int /\ j \in Int
      BY <2>1, <3>3
    <3>5. i = j
      BY <3>4
    <3> QED
      BY <3>3, <3>5
  <2>3. PICK begin, end : SpansWith(text, Len(text), cs, begin, end)
    BY <1>2, <2>1 DEF Spans
  <2>4. /\ begin[i] \in 1 .. Len(text) /\ end[i] \in 1 .. Len(text) /\ begin[i] <= end[i]
        /\ cs[i] = SubSeq(text, begin[i], end[i])
    BY <2>1, <2>3 DEF SpansWith
  <2>5. Chars(cs[i]) \in Nat
    <3> DEFINE a == begin[i]
               b == end[i]
    <3>1. a \in Nat \ {0} /\ b \in 0 .. Len(text) /\ a <= b + 1
      BY <1>1, <2>4
    <3> HIDE DEF a, b
    <3>2. Chars(SubSeq(text, a, b)) \in Nat
      BY <3>1, RunOfSentences
    <3> QED
      BY <2>4, <3>2 DEF a, b
  <2>6. Target * OversizeFactor >= 2 * Target
    <3>1. Target \in Nat /\ OversizeFactor \in Nat /\ OversizeFactor >= 2
      BY ChunkerAssumption, OverlapIsAShare
    <3>2. \A t, f \in Nat : f >= 2 => t * f >= 2 * t
      OBVIOUS
    <3> QED
      BY <3>1, <3>2
  <2>7. ~(Chars(cs[i]) <= 2 * Target + 1)
    <3>1. Target * OversizeFactor \in Nat /\ Target \in Nat
      BY ChunkerAssumption
    <3>2. (IF cs[i] = <<>> THEN 0 ELSE Chars(cs[i]) - 1) > Target * OversizeFactor
      BY <2>2 DEF Oversized, Joined
    <3> DEFINE c == Chars(cs[i])
               m == Target * OversizeFactor
    <3> HIDE DEF c, m
    <3>3. c \in Nat /\ m \in Nat /\ m >= 2 * Target /\ (0 > m \/ c - 1 > m)
      BY <2>5, <2>6, <3>1, <3>2 DEF c, m
    <3>4. ~(c <= 2 * Target + 1)
      BY <3>1, <3>3
    <3> QED
      BY <3>4 DEF c
  <2> QED
    BY <1>2, <2>7 DEF Fine
<1> QED
  BY <1>3 DEF WarnsOfSentences, cs
-----------------------------------------------------------------------------
\* What a tenant uploads is such a list, and its chunks are lists of lists.
LEMMA TextIs == ASSUME NEW text \in Texts PROVE Sentences(text, Range(text))
<1>1. text \in Seq(Range(text)) /\ \A i \in DOMAIN text : text[i].chars \in Nat \ {0}
  BY TextsAreSentences
<1> QED
  BY <1>1 DEF Sentences

LEMMA ChunksOfText ==
    ASSUME NEW text \in Texts
    PROVE  /\ ChunkText(text) \in Seq(Seq(Range(text)))
           /\ DOMAIN ChunkText(text) = 1 .. Len(ChunkText(text)) /\ Len(ChunkText(text)) \in Nat
<1>1. Sentences(text, Range(text))
  BY TextIs
<1>2. ChunkText(text) \in Seq(Seq(Range(text)))
  BY <1>1, ChunksAre
<1> QED
  BY <1>2

\* The points of a document's sync: one for each of its chunks, filed as its own.
LEMMA PointsAre ==
    ASSUME NEW j, j.key \in Keys, j.text \in Texts
    PROVE  /\ \A p \in PointsOf(j) :
                 /\ p.id = PointId(p.chunk) /\ p.chunk \in ChunksOfKeys
                 /\ p.chunk[1] = j.key /\ p.chunk[2] \in DOMAIN ChunkText(j.text)
                 /\ p.tenant = p.chunk[1][1] /\ p.vertical = j.vertical
           /\ \A i \in DOMAIN ChunkText(j.text) :
                 Arrived(PointsOf(j), j.key, j.vertical, i, ChunkText(j.text)[i])
<1> DEFINE pieces == ChunkText(j.text)
           P(i)   == [id |-> PointId(<<j.key, i>>), vertical |-> j.vertical,
                      tenant |-> j.key[1], chunk |-> <<j.key, i>>, text |-> pieces[i]]
<1>1. PointsOf(j) = {P(i) : i \in DOMAIN pieces}
  BY DEF PointsOf
<1>2. DOMAIN pieces \subseteq Nat
  BY ChunksOfText
<1>3. \A i \in DOMAIN pieces :
         /\ P(i).chunk = <<j.key, i>> /\ P(i).id = PointId(P(i).chunk)
         /\ P(i).tenant = j.key[1] /\ P(i).vertical = j.vertical /\ P(i).text = pieces[i]
         /\ P(i).chunk \in ChunksOfKeys /\ P(i).chunk[1] = j.key /\ P(i).chunk[2] = i
  BY <1>2 DEF ChunksOfKeys
<1> HIDE DEF P, pieces
<1>4. ASSUME NEW i \in DOMAIN pieces PROVE Arrived(PointsOf(j), j.key, j.vertical, i, pieces[i])
  BY <1>1, <1>3, <1>4 DEF Arrived
<1>5. ASSUME NEW p \in PointsOf(j)
      PROVE  /\ p.id = PointId(p.chunk) /\ p.chunk \in ChunksOfKeys
             /\ p.chunk[1] = j.key /\ p.chunk[2] \in DOMAIN pieces
             /\ p.tenant = p.chunk[1][1] /\ p.vertical = j.vertical
  <2>1. PICK i \in DOMAIN pieces : p = P(i)
    BY <1>1, <1>5
  <2> QED
    BY <2>1, <1>3
<1> QED
  BY <1>4, <1>5 DEF pieces

\* An upsert brings the document's points in and leaves the other documents' alone.
LEMMA UpsertIs ==
    ASSUME NEW j, j.key \in Keys, j.text \in Texts, NEW S, Filed(S)
    PROVE  LET U == Upserted(S, PointsOf(j))
           IN  /\ Filed(U)
               /\ \A p \in U : p \in S \/ (p.chunk[1] = j.key /\ p.vertical = j.vertical
                                         /\ p.chunk[2] \in DOMAIN ChunkText(j.text))
               /\ \A p \in S : p.chunk[1] # j.key => p \in U
               /\ \A i \in DOMAIN ChunkText(j.text) :
                      Arrived(U, j.key, j.vertical, i, ChunkText(j.text)[i])
<1> DEFINE Q == PointsOf(j)
           U == Upserted(S, Q)
<1>1. U = {p \in S : \A q \in Q : ~(q.id = p.id /\ q.vertical = p.vertical)} \cup Q
  BY DEF Upserted
<1>2. \A p \in Q : /\ p.id = p.chunk /\ p.chunk \in ChunksOfKeys
                   /\ p.chunk[1] = j.key /\ p.chunk[2] \in DOMAIN ChunkText(j.text)
                   /\ p.tenant = p.chunk[1][1] /\ p.vertical = j.vertical
  BY PointsAre DEF PointId
<1>3. \A i \in DOMAIN ChunkText(j.text) : Arrived(Q, j.key, j.vertical, i, ChunkText(j.text)[i])
  BY PointsAre
<1> HIDE DEF Q, U
<1>4. Filed(U)
  BY <1>1, <1>2 DEF Filed, PointId
<1>5. \A p \in S : p.chunk[1] # j.key => p \in U
  BY <1>1, <1>2 DEF Filed, PointId
<1>6. \A i \in DOMAIN ChunkText(j.text) : Arrived(U, j.key, j.vertical, i, ChunkText(j.text)[i])
  BY <1>1, <1>3 DEF Arrived
<1> QED
  BY <1>1, <1>2, <1>4, <1>5, <1>6 DEF Q, U

\* A delete takes what it names of its document, by chunk or by point, and no more.
LEMMA WithoutIs ==
    ASSUME NEW j, \A c \in j.chunks : c[1] = j.key, NEW S, Filed(S)
    PROVE  \A U \in {Without(S, j), WithoutIds(S, j)} :
               /\ Filed(U) /\ U \subseteq S
               /\ \A p \in S : p.chunk[1] # j.key => p \in U
               /\ j.key \in Keys => \A p \in U : ~(p.vertical = j.vertical /\ p.chunk \in j.chunks)
<1>1. /\ Without(S, j) = {p \in S : ~(p.vertical = j.vertical /\ p.chunk \in j.chunks
                                       /\ p.tenant = j.key[1])}
      /\ WithoutIds(S, j) = {p \in S : ~(p.vertical = j.vertical /\ p.chunk \in j.chunks)}
  BY DEF Without, WithoutIds, PointId, Filed
<1> QED
  BY <1>1 DEF Filed
-----------------------------------------------------------------------------
LEMMA StoresAreKept == ASSUME KbInv PROVE StoresFollowPostgres
<1>1. SearchableOnceSynced
  BY DEF KbInv, SearchableOnceSynced, Synced
<1>2. WithdrawnIsGone
  <2> SUFFICES ASSUME NEW p \in dense \cup lexical
               PROVE  LET k == p.chunk[1]
                      IN  ~strewn[k] /\ (\A r \in Busy(k) : at[r] \notin {"undense", "unlexical"})
                            => p.chunk[2] \in DOMAIN rows[k].chunks /\ p.vertical = rows[k].vertical
    BY DEF WithdrawnIsGone
  <2>1. p.chunk[1] \in Keys
    BY DEF KbInv, PointsOK, Filed, ChunksOfKeys
  <2> QED
    BY <2>1 DEF KbInv, Gone, Orderly, DropStages
<1> QED
  BY <1>1, <1>2 DEF StoresFollowPostgres

LEMMA InitStores == ASSUME KbInit PROVE KbInv
<1>1. KbTypeOK
  BY DEF KbInit, KbTypeOK, NoDoc, NoJob, Job, KbStages
<1>2. RequestsOK
  BY DEF KbInit, RequestsOK
<1>3. PointsOK
  BY DEF KbInit, PointsOK, Filed
<1>4. \A k \in Keys : Synced(k) /\ Gone(k)
  BY DEF KbInit, Synced, Gone, Orderly, Stored
<1> QED
  BY <1>1, <1>2, <1>3, <1>4 DEF KbInv

\* Taking up a document changes no store and no row; whoever is met there is told.
LEMMA TakeUpInv ==
    ASSUME KbInv, NEW r \in Requests, NEW k \in Keys, at[r] = "idle",
           NEW text \in Texts \cup {<<>>}, NEW v \in Verticals \cup {""},
           NEW chunks \in SUBSET ChunksOfKeys, \A c \in chunks : c[1] = k,
           NEW stage \in {"write", "delete"}, TakeUp(r, k, text, v, chunks, stage),
           stage = "write" => text \in Texts /\ v \in Verticals,
           stage = "delete" => v = rows[k].vertical /\ chunks = ChunkIds(k, rows[k].chunks),
           UNCHANGED <<rows, stores>>
    PROVE  KbInv'
<1> USE DEF SyncStages, DropStages, KbStages
<1>1. /\ at' = [at EXCEPT ![r] = stage] /\ rows' = rows /\ dense' = dense /\ lexical' = lexical
      /\ job' = [q \in Requests |->
            IF q = r THEN Job(k, text, v, chunks, Busy(k) = {})
            ELSE IF q \in Busy(k) THEN Crossed(job[q]) ELSE job[q]]
      /\ IF Busy(k) = {} THEN UNCHANGED <<marred, strewn>> ELSE Mar(k)
  BY DEF TakeUp, Goto, stores
<1>2. \A q \in Requests : q # r =>
         /\ at'[q] = at[q] /\ job'[q].key = job[q].key
         /\ q \in Busy(k) => ~job'[q].alone
         /\ q \in Busy(k) => /\ job'[q].text = job[q].text /\ job'[q].chunks = job[q].chunks
                             /\ job'[q].vertical = job[q].vertical
         /\ q \notin Busy(k) => job'[q] = job[q]
  BY <1>1 DEF Job, Crossed, KbInv, KbTypeOK, Busy
<1>12. /\ at'[r] = stage /\ stage # "idle" /\ job'[r].key = k /\ job'[r].text = text
       /\ job'[r].chunks = chunks /\ job'[r].vertical = v
       /\ job'[r].alone <=> Busy(k) = {}
  BY <1>1 DEF Job, Crossed, KbInv, KbTypeOK, Busy
<1>3. /\ \A l \in Keys : /\ marred[l] => marred'[l]
                         /\ strewn[l] => strewn'[l]
                         /\ l # k \/ Busy(k) = {} => marred'[l] = marred[l] /\ strewn'[l] = strewn[l]
      /\ Busy(k) # {} => marred'[k] /\ strewn'[k]
  BY <1>1 DEF Mar, KbInv, KbTypeOK
<1>4. KbTypeOK'
  <2>1. job' \in [Requests -> [key : Keys \cup {<<>>}, text : Texts \cup {<<>>},
                             vertical : Verticals \cup {""}, chunks : SUBSET ChunksOfKeys,
                             alone : BOOLEAN]]
    BY <1>1 DEF KbInv, KbTypeOK, Job, Crossed
  <2>2. at' \in [Requests -> KbStages]
    BY <1>1 DEF KbInv, KbTypeOK
  <2>3. marred' \in [Keys -> BOOLEAN] /\ strewn' \in [Keys -> BOOLEAN]
    BY <1>1 DEF KbInv, KbTypeOK, Mar
  <2> QED
    BY <1>1, <2>1, <2>2, <2>3 DEF KbInv, KbTypeOK
<1>13. /\ rows' = rows /\ dense' = dense /\ lexical' = lexical
  BY <1>1
<1>5. /\ \A l : l # k => Busy(l)' = Busy(l)
      /\ Busy(k)' = Busy(k) \cup {r} /\ r \notin Busy(k)
  <2>1. \A q \in Requests : \A l : (at'[q] # "idle" /\ job'[q].key = l)
                 <=> (at[q] # "idle" /\ job[q].key = l) \/ (q = r /\ l = k)
    BY <1>2, <1>12
  <2>2. \A l : /\ Busy(l)  = {q \in Requests : at[q] # "idle" /\ job[q].key = l}
               /\ Busy(l)' = {q \in Requests : at'[q] # "idle" /\ job'[q].key = l}
    BY DEF Busy
  <2>3. \A l : l # k => Busy(l)' = Busy(l)
    BY <2>1, <2>2
  <2>4. \A q : q \in Busy(k)' <=> q \in Busy(k) \cup {r}
    BY <2>1, <2>2
  <2>5. r \notin Busy(k)
    BY DEF Busy
  <2>6. Busy(k)' = Busy(k) \cup {r}
    BY <2>4
  <2> QED
    BY <2>3, <2>5, <2>6
<1>6. RequestsOK'
  <2> SUFFICES ASSUME NEW q \in Requests, at'[q] # "idle"
               PROVE  /\ JobOf(q)'
                      /\ job'[q].alone => HeldOf(q)'
                      /\ at'[q] \in DropStages /\ ~strewn'[job'[q].key] => DropOf(q)'
    BY DEF RequestsOK
  <2>1. CASE q = r
    <3>1. JobOf(q)'
      BY <1>12, <1>3, <1>5, <2>1 DEF JobOf
    <3>2. HeldOf(q)'
      BY <1>13, <1>12, <2>1 DEF HeldOf
    <3> QED
      BY <3>1, <3>2, <1>12, <2>1
  <2>2. CASE q # r /\ q \in Busy(k)
    <3>1. at[q] # "idle" /\ job[q].key = k /\ JobOf(q) /\ Busy(k) # {}
      BY <2>2 DEF Busy, KbInv, RequestsOK
    <3>2. /\ marred'[k] /\ strewn'[k] /\ ~job'[q].alone /\ at'[q] = at[q] /\ job'[q].key = k
          /\ job'[q].text = job[q].text /\ job'[q].chunks = job[q].chunks
          /\ job'[q].vertical = job[q].vertical
      BY <1>2, <1>3, <2>2, <3>1
    <3>3. JobOf(q)'
      BY <3>1, <3>2 DEF JobOf
    <3> QED
      BY <3>2, <3>3
  <2>3. CASE q # r /\ q \notin Busy(k)
    <3>1. at[q] # "idle" /\ at'[q] = at[q] /\ job'[q] = job[q] /\ job[q].key # k /\ JobOf(q)
      BY <1>2, <2>3 DEF Busy, KbInv, RequestsOK
    <3>2. job[q].key \in Keys
      BY <3>1 DEF JobOf
    <3>3. /\ marred'[job[q].key] = marred[job[q].key] /\ strewn'[job[q].key] = strewn[job[q].key]
          /\ Busy(job[q].key)' = Busy(job[q].key)
      BY <1>3, <1>5, <3>1, <3>2
    <3>4. JobOf(q)'
      BY <3>1, <3>3 DEF JobOf
    <3>5. HeldOf(q) => HeldOf(q)'
      <4> SUFFICES ASSUME HeldOf(q) PROVE HeldOf(q)'
        OBVIOUS
      <4> DEFINE d == job[q].key
      <4>1. rows'[d] = rows[d] /\ job'[q] = job[q] /\ at'[q] = at[q]
        BY <1>13, <3>1
      <4>2. \A w, i, t : Arrived(dense, d, w, i, t) => Arrived(dense', d, w, i, t)
        BY <1>13 DEF Arrived
      <4>3. at[q] = "lexical" => \A i \in DOMAIN rows[d].chunks :
                                     Arrived(dense', d, rows[d].vertical, i, rows[d].chunks[i])
        BY <4>2 DEF HeldOf
      <4>4. /\ at[q] = "delete" => /\ job[q].vertical = rows[d].vertical
                                   /\ job[q].chunks = ChunkIds(d, rows[d].chunks)
            /\ at[q] \in SyncStages => rows[d] = [hash |-> job[q].text,
                     vertical |-> job[q].vertical, chunks |-> ChunkText(job[q].text)]
            /\ at[q] \in DropStages => rows[d] = NoDoc
        BY DEF HeldOf
      <4> QED
        BY <4>1, <4>3, <4>4 DEF HeldOf
    <3>6. DropOf(q) => DropOf(q)'
      BY <1>13, <3>1 DEF DropOf
    <3> QED
      BY <3>1, <3>3, <3>4, <3>5, <3>6 DEF KbInv, RequestsOK
  <2> QED
    BY <2>1, <2>2, <2>3
<1>7. PointsOK'
  BY <1>13 DEF KbInv, PointsOK, Filed, PointId
<1>8. ASSUME NEW l \in Keys PROVE Synced(l)' /\ Gone(l)'
  <2>1. /\ marred[l] => marred'[l]
        /\ strewn[l] => strewn'[l]
    BY <1>3
  <2>5. (Stored(l) <=> Stored(l)') /\ (Indexed(l) => Indexed(l)')
    BY <1>13 DEF Stored, Indexed, Arrived
  <2>2. Synced(l)'
    BY <2>1, <2>5 DEF KbInv, Synced
  <2>3. \A q \in Busy(l) : q \in Requests /\ q # r /\ q \in Busy(l)' /\ at'[q] = at[q]
    BY <1>2 DEF Busy
  <2>6. Orderly(l) => Orderly(l)'
    BY <1>13 DEF Orderly
  <2>4. Gone(l)'
    BY <2>1, <2>3, <2>6 DEF KbInv, Gone
  <2> QED
    BY <2>2, <2>4
<1> QED
  BY <1>4, <1>6, <1>7, <1>8 DEF KbInv
\* A step of one request, on its own document: every other document, and every other
\* request, is as it was.
KeepsTheOthers(r, k) ==
    /\ \A q \in Requests : q # r => at'[q] = at[q] /\ job'[q] = job[q]
    /\ at'[r] = "idle" \/ job'[r] = job[r]
    /\ \A l \in Keys : l # k =>
          rows'[l] = rows[l] /\ marred'[l] = marred[l] /\ strewn'[l] = strewn[l]
    /\ \A p \in dense \cup dense' : p.chunk[1] # k => p \in dense /\ p \in dense'
    /\ \A p \in lexical \cup lexical' : p.chunk[1] # k => p \in lexical /\ p \in lexical'

\* What is left to show of the document and the request: that a document two have met on
\* is marked, and that one request alone leaves its own in order.
KeepsItsOwn(r, k) ==
    /\ job[r].alone \/ (marred'[k] /\ strewn'[k])
    /\ at'[r] \in {"write"} \cup SyncStages =>
          job[r].text \in Texts /\ job[r].vertical \in Verticals
    /\ at'[r] \in SyncStages => marred'[k]
    /\ job[r].alone =>
          /\ at'[r] # "idle" => HeldOf(r)'
          /\ at'[r] \in DropStages /\ ~strewn'[k] => DropOf(r)'
          /\ Synced(k)'
          /\ ~strewn'[k] /\ at'[r] \notin DropStages => Orderly(k)'

LEMMA OneDocument ==
    ASSUME KbInv, NEW r \in Requests, NEW k, k = job[r].key, at[r] # "idle",
           KbTypeOK', PointsOK', KeepsTheOthers(r, k), KeepsItsOwn(r, k)
    PROVE  KbInv'
<1> USE DEF KeepsTheOthers, KeepsItsOwn
<1>1. JobOf(r) /\ k \in Keys
  BY DEF KbInv, RequestsOK, JobOf
<1>2. /\ \A l : l # k => Busy(l)' = Busy(l)
      /\ Busy(k)' = IF at'[r] = "idle" THEN Busy(k) \ {r} ELSE Busy(k)
  <2>1. \A l : /\ Busy(l)  = {q \in Requests : at[q] # "idle" /\ job[q].key = l}
               /\ Busy(l)' = {q \in Requests : at'[q] # "idle" /\ job'[q].key = l}
    BY DEF Busy
  <2>2. \A q \in Requests : \A l : q # r \/ l # k =>
           ((at'[q] # "idle" /\ job'[q].key = l) <=> (at[q] # "idle" /\ job[q].key = l))
    OBVIOUS
  <2>3. ASSUME NEW l, l # k PROVE Busy(l)' = Busy(l)
    <3>1. \A q \in Requests : (at'[q] # "idle" /\ job'[q].key = l)
                          <=> (at[q] # "idle" /\ job[q].key = l)
      BY <2>2, <2>3
    <3> QED
      BY <2>1, <3>1
  <2>4. Busy(k)' \ {r} = Busy(k) \ {r} /\ r \in Busy(k) /\ (r \in Busy(k)' <=> at'[r] # "idle")
    BY <2>1, <2>2
  <2>5. at'[r] = "idle" => Busy(k)' = Busy(k) \ {r}
    BY <2>4
  <2>6. at'[r] # "idle" => Busy(k)' = Busy(k)
    <3> SUFFICES ASSUME at'[r] # "idle" PROVE \A q : q \in Busy(k)' <=> q \in Busy(k)
      OBVIOUS
    <3> QED
      BY <2>4
  <2> QED
    BY <2>3, <2>5, <2>6
<1>3. RequestsOK'
  <2> SUFFICES ASSUME NEW q \in Requests, at'[q] # "idle"
               PROVE  /\ JobOf(q)'
                      /\ job'[q].alone => HeldOf(q)'
                      /\ at'[q] \in DropStages /\ ~strewn'[job'[q].key] => DropOf(q)'
    BY DEF RequestsOK
  <2>1. CASE q = r
    <3>1. job'[r] = job[r] /\ at'[r] # "idle" /\ Busy(k)' = Busy(k)
      BY <1>2, <2>1
    <3>2. JobOf(r)'
      BY <1>1, <3>1 DEF JobOf
    <3>3. at'[r] \in DropStages /\ ~strewn'[k] => job[r].alone
      OBVIOUS
    <3> QED
      BY <2>1, <3>1, <3>2, <3>3
  <2>2. CASE q # r /\ job[q].key = k
    <3>1. at[q] # "idle" /\ at'[q] = at[q] /\ job'[q] = job[q] /\ JobOf(q)
      BY <2>2 DEF KbInv, RequestsOK
    <3>2. q \in Busy(k) /\ r \in Busy(k)
      BY <2>2, <3>1 DEF Busy
    <3>3. ~job[q].alone /\ ~job[r].alone
      BY <1>1, <2>2, <3>1, <3>2 DEF JobOf
    <3>4. marred'[k] /\ strewn'[k]
      BY <3>3
    <3>5. JobOf(q)'
      BY <2>2, <3>1, <3>3, <3>4 DEF JobOf
    <3> QED
      BY <2>2, <3>1, <3>3, <3>4, <3>5
  <2>3. CASE q # r /\ job[q].key # k
    <3> DEFINE l == job[q].key
    <3>1. at[q] # "idle" /\ at'[q] = at[q] /\ job'[q] = job[q] /\ JobOf(q)
      BY <2>3 DEF KbInv, RequestsOK
    <3>2. l \in Keys
      BY <3>1 DEF JobOf
    <3>3. /\ rows'[l] = rows[l] /\ marred'[l] = marred[l] /\ strewn'[l] = strewn[l]
          /\ Busy(l)' = Busy(l)
      BY <1>2, <2>3, <3>2
    <3>4. JobOf(q)'
      BY <3>1, <3>3 DEF JobOf
    <3>5. \A v, i, text : Arrived(dense, l, v, i, text) => Arrived(dense', l, v, i, text)
      BY <2>3 DEF Arrived
    <3>6. HeldOf(q) => HeldOf(q)'
      <4> SUFFICES ASSUME HeldOf(q) PROVE HeldOf(q)'
        OBVIOUS
      <4> DEFINE d == job[q].key
      <4>1. rows'[d] = rows[d] /\ job'[q] = job[q] /\ at'[q] = at[q]
        BY <3>1, <3>3
      <4>2. \A v, i, text : Arrived(dense, d, v, i, text) => Arrived(dense', d, v, i, text)
        BY <3>5
      <4>3. at[q] = "lexical" => \A i \in DOMAIN rows[d].chunks :
                                     Arrived(dense', d, rows[d].vertical, i, rows[d].chunks[i])
        BY <4>2 DEF HeldOf
      <4>4. /\ at[q] = "delete" => /\ job[q].vertical = rows[d].vertical
                                   /\ job[q].chunks = ChunkIds(d, rows[d].chunks)
            /\ at[q] \in SyncStages => rows[d] = [hash |-> job[q].text,
                     vertical |-> job[q].vertical, chunks |-> ChunkText(job[q].text)]
            /\ at[q] \in DropStages => rows[d] = NoDoc
        BY DEF HeldOf
      <4> QED
        BY <4>1, <4>3, <4>4 DEF HeldOf
    <3>7. DropOf(q) => DropOf(q)'
      BY <2>3, <3>1 DEF DropOf
    <3> QED
      BY <3>1, <3>3, <3>4, <3>6, <3>7 DEF KbInv, RequestsOK
  <2> QED
    BY <2>1, <2>2, <2>3
<1>4. ASSUME NEW l \in Keys PROVE Synced(l)' /\ Gone(l)'
  <2>1. CASE l = k
    <3>1. CASE job[r].alone
      <4>1. Synced(k)'
        BY <3>1
      <4>2. Busy(k) = {r}
        BY <1>1, <3>1 DEF JobOf
      <4>3. at'[r] # "idle" => r \in Busy(k)'
        BY <1>2, <4>2
      <4>4. Gone(k)'
        BY <3>1, <4>3 DEF Gone, DropStages
      <4> QED
        BY <2>1, <4>1, <4>4
    <3>2. CASE ~job[r].alone
      BY <2>1, <3>2 DEF Synced, Gone
    <3> QED
      BY <3>1, <3>2
  <2>2. CASE l # k
    <3>1. /\ rows'[l] = rows[l] /\ marred'[l] = marred[l] /\ strewn'[l] = strewn[l]
          /\ Busy(l)' = Busy(l)
      BY <1>2, <2>2
    <3>2. \A v, i, text : /\ Arrived(dense, l, v, i, text) => Arrived(dense', l, v, i, text)
                          /\ Arrived(lexical, l, v, i, text) => Arrived(lexical', l, v, i, text)
      BY <2>2 DEF Arrived
    <3>3. Synced(l)'
      BY <3>1, <3>2 DEF KbInv, Synced, Stored, Indexed
    <3>4. r \notin Busy(l)
      BY <2>2 DEF Busy
    <3>5. \A q \in Busy(l) : at'[q] = at[q]
      BY <3>4 DEF Busy
    <3>6. Orderly(l) => Orderly(l)'
      BY <2>2, <3>1 DEF Orderly
    <3>7. Gone(l)'
      BY <3>1, <3>5, <3>6 DEF KbInv, Gone
    <3> QED
      BY <3>3, <3>7
  <2> QED
    BY <2>1, <2>2
<1> QED
  BY <1>3, <1>4 DEF KbInv
\* Where a request goes next, and whether it ends there.
GoesTo(r, stage) == /\ Goto(r, stage)
                   /\ IF stage = "idle" THEN job' = [job EXCEPT ![r] = NoJob] ELSE job' = job

\* Going on, or ending, is a matter of the one request.
LEMMA MovesOn ==
    ASSUME KbTypeOK, NEW r \in Requests, NEW stage \in KbStages, GoesTo(r, stage)
    PROVE  /\ at' \in [Requests -> KbStages] /\ at'[r] = stage
           /\ job' \in [Requests -> [key : Keys \cup {<<>>}, text : Texts \cup {<<>>},
                             vertical : Verticals \cup {""}, chunks : SUBSET ChunksOfKeys,
                             alone : BOOLEAN]]
           /\ \A q \in Requests : q # r => at'[q] = at[q] /\ job'[q] = job[q]
           /\ at'[r] = "idle" \/ job'[r] = job[r]
<1> USE DEF GoesTo
<1>1. at' = [at EXCEPT ![r] = stage]
  BY DEF Goto
<1>2. NoJob \in [key : Keys \cup {<<>>}, text : Texts \cup {<<>>},
                             vertical : Verticals \cup {""}, chunks : SUBSET ChunksOfKeys,
                             alone : BOOLEAN]
  BY DEF NoJob, Job
<1>3. CASE stage = "idle"
  BY <1>1, <1>2, <1>3 DEF KbTypeOK
<1>4. CASE stage # "idle"
  BY <1>1, <1>4 DEF KbTypeOK
<1> QED
  BY <1>3, <1>4

\* A step of a sync writes its document's points, and marks the document in order only
\* when it had it alone and both stores have all of it.
SyncStep(r, k, stage, b) ==
    /\ k = job[r].key /\ at[r] \in SyncStages
    /\ stage \in {"idle"} \cup SyncStages /\ GoesTo(r, stage)
    /\ rows' = rows /\ strewn' = strewn /\ b \in BOOLEAN /\ marred' = [marred EXCEPT ![k] = b]
    /\ dense' \in {dense, Upserted(dense, PointsOf(job[r]))}
    /\ lexical' \in {lexical, Upserted(lexical, PointsOf(job[r]))}
    /\ b \/ (/\ job[r].alone /\ at[r] = "lexical" /\ dense' = dense
             /\ lexical' = Upserted(lexical, PointsOf(job[r])))
    /\ stage # "idle" => b
    /\ stage = "lexical" => dense' = Upserted(dense, PointsOf(job[r]))

LEMMA SyncInv ==
    ASSUME KbInv, NEW r \in Requests, NEW k, NEW stage, NEW b, SyncStep(r, k, stage, b)
    PROVE  KbInv'
<1> USE DEF SyncStep
<1> DEFINE j == job[r]
           pieces == ChunkText(j.text)
<1>1. KbTypeOK /\ JobOf(r) /\ (j.alone => HeldOf(r)) /\ Filed(dense) /\ Filed(lexical)
  BY DEF KbInv, RequestsOK, PointsOK, SyncStages
<1>2. k \in Keys /\ j.text \in Texts /\ j.vertical \in Verticals /\ marred[k]
      /\ (~j.alone => strewn[k]) /\ (j.alone => Busy(k) = {r})
  BY <1>1 DEF JobOf
<1>3. /\ Filed(dense') /\ Filed(lexical')
      /\ \A p \in dense \cup dense' : p.chunk[1] # k => p \in dense /\ p \in dense'
      /\ \A p \in lexical \cup lexical' : p.chunk[1] # k => p \in lexical /\ p \in lexical'
      /\ \A p \in dense' \cup lexical' : p \in dense \cup lexical
            \/ (p.chunk[1] = k /\ p.vertical = j.vertical /\ p.chunk[2] \in DOMAIN pieces)
  BY <1>1, <1>2, UpsertIs
<1>4. /\ dense' = Upserted(dense, PointsOf(j)) =>
            \A i \in DOMAIN pieces : Arrived(dense', k, j.vertical, i, pieces[i])
      /\ lexical' = Upserted(lexical, PointsOf(j)) =>
            \A i \in DOMAIN pieces : Arrived(lexical', k, j.vertical, i, pieces[i])
  <2>1. \A i \in DOMAIN pieces : Arrived(Upserted(dense, PointsOf(j)), k, j.vertical, i, pieces[i])
    BY <1>1, <1>2, UpsertIs
  <2>2. \A i \in DOMAIN pieces : Arrived(Upserted(lexical, PointsOf(j)), k, j.vertical, i, pieces[i])
    BY <1>1, <1>2, UpsertIs
  <2> HIDE DEF j, pieces
  <2> QED
    BY <2>1, <2>2
<1>5. stage \in KbStages
  BY DEF KbStages
<1>6. /\ at' \in [Requests -> KbStages] /\ at'[r] = stage
      /\ job' \in [Requests -> [key : Keys \cup {<<>>}, text : Texts \cup {<<>>},
                             vertical : Verticals \cup {""}, chunks : SUBSET ChunksOfKeys,
                             alone : BOOLEAN]]
      /\ \A q \in Requests : q # r => at'[q] = at[q] /\ job'[q] = job[q]
      /\ at'[r] = "idle" \/ job'[r] = job[r]
  BY <1>1, <1>5, MovesOn
<1>7. /\ \A l \in Keys : l # k => marred'[l] = marred[l]
      /\ marred'[k] = b /\ marred' \in [Keys -> BOOLEAN]
  BY <1>1, <1>2 DEF KbTypeOK
<1>8. KbTypeOK' /\ PointsOK'
  BY <1>1, <1>3, <1>6, <1>7 DEF KbTypeOK, PointsOK
<1>9. ASSUME j.alone
      PROVE  /\ at'[r] # "idle" => HeldOf(r)'
             /\ Synced(k)'
             /\ ~strewn'[k] => Orderly(k)'
  <2>1. /\ rows[k] = [hash |-> j.text, vertical |-> j.vertical, chunks |-> pieces]
        /\ at[r] = "lexical" =>
              \A i \in DOMAIN pieces : Arrived(dense, k, j.vertical, i, pieces[i])
    BY <1>1, <1>9 DEF HeldOf
  <2>2. rows[k].vertical = j.vertical /\ rows[k].chunks = pieces
    BY <2>1
  <2>3. at'[r] # "idle" => HeldOf(r)'
    BY <1>4, <1>6, <2>1, <2>2 DEF HeldOf, SyncStages, DropStages
  <2>4. Synced(k)'
    <3>1. CASE b
      BY <1>7, <3>1 DEF Synced
    <3>2. CASE ~b
      <4>1. \A i \in DOMAIN pieces : /\ Arrived(dense', k, j.vertical, i, pieces[i])
                                     /\ Arrived(lexical', k, j.vertical, i, pieces[i])
        BY <1>4, <2>1, <3>2
      <4> QED
        BY <2>2, <4>1 DEF Synced, Indexed
    <3> QED
      BY <3>1, <3>2
  <2>5. ~strewn'[k] => Orderly(k)
    BY <1>2, <1>9 DEF KbInv, Gone, SyncStages, DropStages
  <2>6. ~strewn'[k] => Orderly(k)'
    BY <1>3, <2>2, <2>5 DEF Orderly
  <2> QED
    BY <2>3, <2>4, <2>6
<1>10. job[r].alone \/ (marred'[k] /\ strewn'[k])
  BY <1>2, <1>7
<1>11. at[r] # "idle" /\ at'[r] \notin DropStages /\ (at'[r] \in SyncStages => marred'[k])
  BY <1>6, <1>7 DEF SyncStages, DropStages
<1>12. KeepsTheOthers(r, k)
  BY <1>3, <1>6, <1>7 DEF KeepsTheOthers
<1>13. KeepsItsOwn(r, k)
  BY <1>2, <1>9, <1>10, <1>11 DEF KeepsItsOwn
<1> QED
  BY <1>8, <1>11, <1>12, <1>13, OneDocument
\* A step of a removal takes its document's points, first from the one store, then from
\* the other; where it stops half-way the document is marked.
DropStep(r, k, stage, c) ==
    /\ k = job[r].key /\ at[r] \in DropStages
    /\ stage \in {"idle", "unlexical"} /\ GoesTo(r, stage)
    /\ rows' = rows /\ marred' = marred /\ c \in BOOLEAN /\ strewn' = [strewn EXCEPT ![k] = c]
    /\ strewn[k] => c
    /\ dense' \in {dense, Without(dense, job[r])}
    /\ lexical' \in {lexical, WithoutIds(lexical, job[r])}
    /\ \/ c
       \/ /\ at[r] = "undense" /\ stage = "unlexical"
          /\ dense' = Without(dense, job[r]) /\ lexical' = lexical
       \/ /\ at[r] = "unlexical" /\ stage = "idle"
          /\ dense' = dense /\ lexical' = WithoutIds(lexical, job[r])

LEMMA DropInv ==
    ASSUME KbInv, NEW r \in Requests, NEW k, NEW stage, NEW c, DropStep(r, k, stage, c)
    PROVE  KbInv'
<1> USE DEF DropStep
<1>1. /\ KbTypeOK /\ JobOf(r) /\ (job[r].alone => HeldOf(r)) /\ Filed(dense) /\ Filed(lexical)
      /\ ~strewn[k] => DropOf(r)
  BY DEF KbInv, RequestsOK, PointsOK, DropStages
<1>2. /\ k \in Keys /\ \A d \in job[r].chunks : d[1] = k
      /\ ~job[r].alone => marred[k] /\ strewn[k]
  BY <1>1 DEF JobOf
<1>3. /\ Filed(dense') /\ dense' \subseteq dense
      /\ \A p \in dense : p.chunk[1] # k => p \in dense'
      /\ dense' = Without(dense, job[r]) => \A p \in dense' :
            ~(p.vertical = job[r].vertical /\ p.chunk \in job[r].chunks)
  BY <1>1, <1>2, WithoutIs
<1>4. /\ Filed(lexical') /\ lexical' \subseteq lexical
      /\ \A p \in lexical : p.chunk[1] # k => p \in lexical'
      /\ lexical' = WithoutIds(lexical, job[r]) => \A p \in lexical' :
            ~(p.vertical = job[r].vertical /\ p.chunk \in job[r].chunks)
  BY <1>1, <1>2, WithoutIs
<1>5. stage \in KbStages
  BY DEF KbStages, DropStages
<1>6. /\ at' \in [Requests -> KbStages] /\ at'[r] = stage
      /\ job' \in [Requests -> [key : Keys \cup {<<>>}, text : Texts \cup {<<>>},
                             vertical : Verticals \cup {""}, chunks : SUBSET ChunksOfKeys,
                             alone : BOOLEAN]]
      /\ \A q \in Requests : q # r => at'[q] = at[q] /\ job'[q] = job[q]
      /\ at'[r] = "idle" \/ job'[r] = job[r]
  BY <1>1, <1>5, MovesOn
<1>7. /\ \A l \in Keys : l # k => strewn'[l] = strewn[l]
      /\ strewn'[k] = c /\ strewn' \in [Keys -> BOOLEAN]
  BY <1>1, <1>2 DEF KbTypeOK
<1>8. KbTypeOK' /\ PointsOK'
  BY <1>1, <1>3, <1>4, <1>6, <1>7 DEF KbTypeOK, PointsOK
<1>9. KeepsTheOthers(r, k)
  BY <1>3, <1>4, <1>6, <1>7 DEF KeepsTheOthers
<1>10. ASSUME job[r].alone
       PROVE  /\ at'[r] # "idle" => HeldOf(r)'
              /\ at'[r] \in DropStages /\ ~strewn'[k] => DropOf(r)'
              /\ Synced(k)'
              /\ ~strewn'[k] /\ at'[r] \notin DropStages => Orderly(k)'
  <2>1. rows'[k] = NoDoc
    BY <1>1, <1>10 DEF HeldOf
  <2>2. Synced(k)'
    BY <2>1 DEF Synced, Stored
  <2>3. at'[r] # "idle" => HeldOf(r)'
    BY <1>6, <2>1 DEF HeldOf, SyncStages, DropStages
  <2>4. CASE c
    BY <1>7, <2>2, <2>3, <2>4
  <2>5. CASE ~c /\ at[r] = "undense"
    <3>1. /\ stage = "unlexical" /\ dense' = Without(dense, job[r]) /\ lexical' = lexical
          /\ DropOf(r) /\ job'[r] = job[r] /\ at'[r] = "unlexical"
      BY <1>1, <1>6, <2>5
    <3>2. DropOf(r)'
      BY <1>3, <3>1 DEF DropOf
    <3> QED
      BY <2>2, <2>3, <3>1, <3>2 DEF DropStages
  <2>6. CASE ~c /\ at[r] # "undense"
    <3>1. /\ at[r] = "unlexical" /\ at'[r] = "idle" /\ dense' = dense
          /\ lexical' = WithoutIds(lexical, job[r]) /\ DropOf(r)
      BY <1>1, <1>6, <2>6
    <3>2. \A p \in dense' \cup lexical' : p.chunk[1] # k
      BY <1>4, <3>1 DEF DropOf
    <3> QED
      BY <2>2, <3>1, <3>2 DEF Orderly, DropStages
  <2> QED
    BY <2>4, <2>5, <2>6
<1>11. KeepsItsOwn(r, k)
  BY <1>2, <1>6, <1>7, <1>10 DEF KeepsItsOwn, SyncStages
<1>12. at[r] # "idle"
  BY DEF DropStages
<1> QED
  BY <1>8, <1>9, <1>11, <1>12, OneDocument

\* The rows of a document written or deleted: the stores are not touched, and the document
\* is marked where they no longer say what it says.
RowsStep(r, k, stage, doc, b, c) ==
    /\ k = job[r].key /\ at[r] \in {"write", "delete"}
    /\ stage \in {"idle", "embed", "undense"} /\ GoesTo(r, stage)
    /\ doc \in DocRow \cup {NoDoc} /\ rows' = [rows EXCEPT ![k] = doc]
    /\ dense' = dense /\ lexical' = lexical
    /\ b \in BOOLEAN /\ marred' = [marred EXCEPT ![k] = b] /\ (marred[k] => b)
    /\ c \in BOOLEAN /\ strewn' = [strewn EXCEPT ![k] = c] /\ (strewn[k] => c)
    /\ stage = "embed" =>
          /\ at[r] = "write" /\ b
          /\ doc = [hash |-> job[r].text, vertical |-> job[r].vertical,
                    chunks |-> ChunkText(job[r].text)]
    /\ stage = "undense" => at[r] = "delete" /\ doc = NoDoc
    /\ b \/ doc = NoDoc \/ doc = rows[k]
    /\ c \/ stage = "undense" \/ DOMAIN rows[k].chunks = {}
         \/ (/\ DOMAIN rows[k].chunks \subseteq DOMAIN doc.chunks
             /\ doc.vertical = rows[k].vertical)

LEMMA RowsInv ==
    ASSUME KbInv, NEW r \in Requests, NEW k, NEW stage, NEW doc, NEW b, NEW c,
           RowsStep(r, k, stage, doc, b, c)
    PROVE  KbInv'
<1> USE DEF RowsStep
<1>1. /\ KbTypeOK /\ JobOf(r) /\ (job[r].alone => HeldOf(r)) /\ Filed(dense) /\ Filed(lexical)
  BY DEF KbInv, RequestsOK, PointsOK
<1>2. /\ k \in Keys /\ (at[r] = "write" => job[r].text \in Texts /\ job[r].vertical \in Verticals)
      /\ (job[r].alone => Busy(k) = {r}) /\ (~job[r].alone => marred[k] /\ strewn[k])
  BY <1>1 DEF JobOf
<1>3. stage \in KbStages
  BY DEF KbStages, DropStages, SyncStages
<1>4. /\ at' \in [Requests -> KbStages] /\ at'[r] = stage
      /\ job' \in [Requests -> [key : Keys \cup {<<>>}, text : Texts \cup {<<>>},
                             vertical : Verticals \cup {""}, chunks : SUBSET ChunksOfKeys,
                             alone : BOOLEAN]]
      /\ \A q \in Requests : q # r => at'[q] = at[q] /\ job'[q] = job[q]
      /\ at'[r] = "idle" \/ job'[r] = job[r]
  BY <1>1, <1>3, MovesOn
<1>5. /\ \A l \in Keys : l # k => /\ rows'[l] = rows[l] /\ strewn'[l] = strewn[l]
                                  /\ marred'[l] = marred[l]
      /\ rows'[k] = doc /\ strewn'[k] = c /\ marred'[k] = b
      /\ rows' \in [Keys -> DocRow \cup {NoDoc}]
      /\ marred' \in [Keys -> BOOLEAN] /\ strewn' \in [Keys -> BOOLEAN]
  BY <1>1, <1>2 DEF KbTypeOK
<1>6. KbTypeOK' /\ PointsOK'
  BY <1>1, <1>4, <1>5 DEF KbTypeOK, PointsOK
<1>7. KeepsTheOthers(r, k)
  BY <1>4, <1>5 DEF KeepsTheOthers
<1>8. ASSUME job[r].alone
      PROVE  /\ at'[r] # "idle" => HeldOf(r)'
             /\ at'[r] \in DropStages /\ ~strewn'[k] => DropOf(r)'
             /\ Synced(k)'
             /\ ~strewn'[k] /\ at'[r] \notin DropStages => Orderly(k)'
  <2>1. ~strewn[k] => Orderly(k)
    BY <1>2, <1>8 DEF KbInv, Gone, DropStages
  <2>2. at'[r] # "idle" => HeldOf(r)'
    BY <1>4, <1>5 DEF HeldOf, SyncStages, DropStages
  <2>3. Synced(k)'
    <3>1. CASE b
      BY <1>5, <3>1 DEF Synced
    <3>2. CASE doc = NoDoc
      BY <1>5, <3>2 DEF Synced, Stored
    <3>3. CASE doc = rows[k] /\ ~b
      <4>1. ~marred[k] /\ rows'[k] = rows[k]
        BY <1>5, <3>3
      <4>2. (Stored(k)' <=> Stored(k)) /\ (Indexed(k) => Indexed(k)')
        <5>1. \A v, i, text : /\ Arrived(dense', k, v, i, text) <=> Arrived(dense, k, v, i, text)
                             /\ Arrived(lexical', k, v, i, text) <=> Arrived(lexical, k, v, i, text)
          OBVIOUS
        <5> QED
          BY <4>1, <5>1 DEF Stored, Indexed
      <4> QED
        BY <1>2, <4>1, <4>2 DEF KbInv, Synced
    <3> QED
      BY <3>1, <3>2, <3>3
  <2>4. at'[r] \in DropStages /\ ~strewn'[k] => DropOf(r)'
    <3> SUFFICES ASSUME at'[r] \in DropStages, ~strewn'[k] PROVE DropOf(r)'
      OBVIOUS
    <3>1. /\ stage = "undense" /\ at[r] = "delete" /\ job'[r] = job[r] /\ ~strewn[k]
          /\ at'[r] = "undense"
      BY <1>4, <1>5 DEF DropStages
    <3>2. job[r].vertical = rows[k].vertical /\ job[r].chunks = ChunkIds(k, rows[k].chunks)
      BY <1>1, <1>8, <3>1 DEF HeldOf
    <3>3. \A p \in dense \cup lexical : p.chunk[1] = k =>
             p.chunk \in job[r].chunks /\ p.vertical = job[r].vertical
      <4> SUFFICES ASSUME NEW p \in dense \cup lexical, p.chunk[1] = k
                   PROVE  p.chunk \in job[r].chunks /\ p.vertical = job[r].vertical
        OBVIOUS
      <4>1. p.chunk \in Keys \X Nat
        BY <1>1 DEF Filed, ChunksOfKeys
      <4>2. p.chunk = <<k, p.chunk[2]>>
        BY <4>1
      <4>3. p.chunk[2] \in DOMAIN rows[k].chunks /\ p.vertical = rows[k].vertical
        BY <2>1, <3>1 DEF Orderly
      <4> QED
        BY <3>2, <4>2, <4>3 DEF ChunkIds
    <3> QED
      BY <3>1, <3>3 DEF DropOf
  <2>5. ~strewn'[k] /\ at'[r] \notin DropStages => Orderly(k)'
    <3> SUFFICES ASSUME ~strewn'[k], at'[r] \notin DropStages PROVE Orderly(k)'
      OBVIOUS
    <3>1. ~c /\ stage # "undense" /\ Orderly(k)
      BY <1>4, <1>5, <2>1 DEF DropStages
    <3> QED
      BY <1>5, <3>1 DEF Orderly
  <2> QED
    BY <2>2, <2>3, <2>4, <2>5
<1>9. KeepsItsOwn(r, k)
  BY <1>2, <1>4, <1>5, <1>8 DEF KeepsItsOwn, SyncStages
<1>10. at[r] # "idle"
  OBVIOUS
<1> QED
  BY <1>6, <1>7, <1>9, <1>10, OneDocument

\* Whatever changes nothing of the rows, the stores and the requests under way.
LEMMA SameInv ==
    ASSUME KbInv, at' = at, rows' = rows, dense' = dense, lexical' = lexical,
           marred' = marred, strewn' = strewn, KbTypeOK',
           \A r \in Requests : at[r] # "idle" => job'[r] = job[r]
    PROVE  KbInv'
<1>1. \A k : Busy(k)' = Busy(k)
  BY DEF Busy
<1>2. \A k, v, i, text : /\ Arrived(dense', k, v, i, text) <=> Arrived(dense, k, v, i, text)
                         /\ Arrived(lexical', k, v, i, text) <=> Arrived(lexical, k, v, i, text)
  OBVIOUS
<1>3. RequestsOK'
  <2> SUFFICES ASSUME NEW q \in Requests, at'[q] # "idle"
               PROVE  /\ JobOf(q)'
                      /\ job'[q].alone => HeldOf(q)'
                      /\ at'[q] \in DropStages /\ ~strewn'[job'[q].key] => DropOf(q)'
    BY DEF RequestsOK
  <2>1. at[q] # "idle" /\ job'[q] = job[q] /\ JobOf(q)
    BY DEF KbInv, RequestsOK
  <2>2. JobOf(q)'
    BY <1>1, <2>1 DEF JobOf
  <2>3. HeldOf(q) => HeldOf(q)'
    BY <1>2, <2>1 DEF HeldOf
  <2>4. DropOf(q) => DropOf(q)'
    BY <2>1 DEF DropOf
  <2> QED
    BY <2>1, <2>2, <2>3, <2>4 DEF KbInv, RequestsOK
<1>4. PointsOK'
  BY DEF KbInv, PointsOK
<1>5. ASSUME NEW k \in Keys PROVE Synced(k)' /\ Gone(k)'
  <2>1. Synced(k)'
    BY <1>2 DEF KbInv, Synced, Stored, Indexed
  <2>2. Gone(k)'
    BY <1>1 DEF KbInv, Gone, Orderly
  <2> QED
    BY <2>1, <2>2
<1> QED
  BY <1>3, <1>4, <1>5 DEF KbInv
-----------------------------------------------------------------------------
LEMMA RowIs ==
    ASSUME KbTypeOK, NEW k \in Keys
    PROVE  /\ rows[k] = NoDoc \/ rows[k] \in DocRow
           /\ rows[k].vertical \in Verticals \cup {""}
           /\ DOMAIN rows[k].chunks = 1 .. Len(rows[k].chunks) /\ Len(rows[k].chunks) \in Nat
<1>1. rows[k] \in DocRow \cup {NoDoc}
  BY DEF KbTypeOK
<1>2. CASE rows[k] = NoDoc
  <2>1. NoDoc.vertical = "" /\ NoDoc.chunks = <<>>
    BY DEF NoDoc
  <2>2. DOMAIN <<>> = 1 .. Len(<<>>) /\ Len(<<>>) \in Nat
    OBVIOUS
  <2> QED
    BY <1>2, <2>1, <2>2
<1>3. CASE rows[k] \in DocRow
  <2>1. /\ rows[k].vertical \in Verticals
        /\ rows[k].chunks \in {ChunkText(text) : text \in Texts}
    BY <1>3 DEF DocRow
  <2>2. PICK text \in Texts : rows[k].chunks = ChunkText(text)
    BY <2>1
  <2>3. /\ DOMAIN ChunkText(text) = 1 .. Len(ChunkText(text)) /\ Len(ChunkText(text)) \in Nat
    BY ChunksOfText
  <2> QED
    BY <1>3, <2>1, <2>2, <2>3
<1> QED
  BY <1>1, <1>2, <1>3

LEMMA ConsoleInv ==
    ASSUME KbInv, NEW r \in Requests, Console(r)
    PROVE  KbInv'
<1>1. KbTypeOK
  BY DEF KbInv
<1>2. ASSUME NEW k \in Keys, RemoveDocument(r, k) PROVE KbInv'
  <2>1. rows[k].vertical \in Verticals \cup {""}
    BY <1>1, RowIs
  <2>2. DOMAIN rows[k].chunks \subseteq Nat
    <3>1. DOMAIN rows[k].chunks = 1 .. Len(rows[k].chunks) /\ Len(rows[k].chunks) \in Nat
      BY <1>1, RowIs
    <3> QED
      BY <3>1
  <2>3. /\ ChunkIds(k, rows[k].chunks) \in SUBSET ChunksOfKeys
        /\ \A d \in ChunkIds(k, rows[k].chunks) : d[1] = k
    BY <2>2 DEF ChunkIds, ChunksOfKeys
  <2>4. /\ at[r] = "idle" /\ UNCHANGED <<rows, stores>>
        /\ TakeUp(r, k, <<>>, rows[k].vertical, ChunkIds(k, rows[k].chunks), "delete")
    BY <1>2 DEF RemoveDocument, tables
  <2> QED
    BY <2>1, <2>3, <2>4, TakeUpInv
<1>3. ASSUME NEW k \in Keys, NEW text \in Texts, NEW v \in Verticals, Upload(r, k, text, v)
      PROVE  KbInv'
  <2>1. at[r] = "idle" /\ UNCHANGED <<rows, stores>>
    BY <1>3 DEF Upload, tables
  <2>2. CASE IsUnchanged(k, text)
    <3>1. Done(r) /\ UNCHANGED <<marred, strewn>>
      BY <1>3, <2>2 DEF Upload
    <3>2. at' = at
      BY <1>1, <2>1, <3>1 DEF Done, Goto, KbTypeOK
    <3>3. job' = [job EXCEPT ![r] = NoJob]
      BY <3>1 DEF Done
    <3>4. \A q \in Requests : at[q] # "idle" => job'[q] = job[q]
      BY <1>1, <2>1, <3>3 DEF KbTypeOK
    <3>5. NoJob \in [key : Keys \cup {<<>>}, text : Texts \cup {<<>>},
                             vertical : Verticals \cup {""}, chunks : SUBSET ChunksOfKeys,
                             alone : BOOLEAN]
      BY DEF NoJob, Job
    <3>6. KbTypeOK'
      BY <1>1, <2>1, <3>1, <3>2, <3>3, <3>5 DEF KbTypeOK
    <3> QED
      BY <2>1, <3>1, <3>2, <3>4, <3>6, SameInv DEF stores
  <2>3. CASE ~IsUnchanged(k, text)
    <3>1. TakeUp(r, k, text, v, {}, "write")
      BY <1>3, <2>3 DEF Upload
    <3> QED
      BY <2>1, <3>1, TakeUpInv
  <2> QED
    BY <2>2, <2>3
<1> QED
  BY <1>2, <1>3 DEF Console

LEMMA WriteRowsInv ==
    ASSUME KbInv, NEW r \in Requests, WriteRows(r)
    PROVE  KbInv'
<1> DEFINE j == job[r]
           k == j.key
           pieces == ChunkText(j.text)
           doc == [hash |-> j.text, vertical |-> j.vertical, chunks |-> pieces]
           c == strewn[k] \/ (rows[k].chunks # <<>> /\
                   (Len(pieces) < Len(rows[k].chunks) \/ j.vertical # rows[k].vertical))
           stage == IF pieces = <<>> THEN "idle" ELSE "embed"
<1>1. KbTypeOK /\ JobOf(r) /\ at[r] = "write"
  BY DEF KbInv, RequestsOK, WriteRows
<1>2. k \in Keys /\ j.text \in Texts /\ j.vertical \in Verticals
  BY <1>1 DEF JobOf
<1>3. /\ rows' = [rows EXCEPT ![k] = doc] /\ dense' = dense /\ lexical' = lexical
      /\ marred' = [marred EXCEPT ![k] = TRUE] /\ strewn' = [strewn EXCEPT ![k] = c]
  BY DEF WriteRows, stores
<1>4. /\ Goto(r, stage)
      /\ IF stage = "idle" THEN job' = [job EXCEPT ![r] = NoJob] ELSE job' = job
  BY DEF WriteRows, Done
<1>5. doc \in DocRow
  BY <1>2 DEF DocRow
<1>6. c \in BOOLEAN /\ (strewn[k] => c)
  BY <1>1, <1>2 DEF KbTypeOK
<1>7. \/ c
      \/ DOMAIN rows[k].chunks = {}
      \/ DOMAIN rows[k].chunks \subseteq DOMAIN pieces /\ j.vertical = rows[k].vertical
  <2>1. CASE rows[k].chunks = <<>>
    BY <2>1
  <2>2. CASE rows[k].chunks # <<>>
    <3>3. /\ DOMAIN rows[k].chunks = 1 .. Len(rows[k].chunks) /\ Len(rows[k].chunks) \in Nat
          /\ DOMAIN pieces = 1 .. Len(pieces) /\ Len(pieces) \in Nat
      BY <1>1, <1>2, RowIs, ChunksOfText
    <3>4. CASE c
      BY <3>4
    <3>5. CASE ~c
      <4>1. ~(Len(pieces) < Len(rows[k].chunks)) /\ j.vertical = rows[k].vertical
        BY <2>2, <3>5
      <4> HIDE DEF pieces, k, j
      <4>2. DOMAIN rows[k].chunks \subseteq DOMAIN pieces
        BY <3>3, <4>1
      <4> QED
        BY <4>1, <4>2
    <3> QED
      BY <3>4, <3>5
  <2> QED
    BY <2>1, <2>2
<1>8. /\ stage \in {"idle", "embed", "undense"}
      /\ stage = "embed" => at[r] = "write" /\ doc = [hash |-> job[r].text,
             vertical |-> job[r].vertical, chunks |-> ChunkText(job[r].text)]
      /\ stage # "undense" /\ doc.chunks = pieces /\ doc.vertical = j.vertical
  BY <1>1
<1>9. RowsStep(r, k, stage, doc, TRUE, c)
  <2> HIDE DEF c, stage, doc, pieces
  <2> QED
    BY <1>1, <1>3, <1>4, <1>5, <1>6, <1>7, <1>8 DEF RowsStep, GoesTo
<1> HIDE DEF c, stage, doc, pieces, k
<1> QED
  BY <1>9, RowsInv

LEMMA DeleteRowsInv ==
    ASSUME KbInv, NEW r \in Requests, DeleteRows(r)
    PROVE  KbInv'
<1> DEFINE k == job[r].key
           stage == IF ~Stored(k) \/ job[r].chunks = {} THEN "idle" ELSE "undense"
           doc == IF Stored(k) THEN NoDoc ELSE rows[k]
<1>1. KbTypeOK /\ JobOf(r) /\ at[r] = "delete"
  BY DEF KbInv, RequestsOK, DeleteRows
<1>2. k \in Keys
  BY <1>1 DEF JobOf
<1>3. rows' = [rows EXCEPT ![k] = doc] /\ doc = NoDoc
  BY <1>1, <1>2 DEF DeleteRows, KbTypeOK, Stored
<1>4. /\ Goto(r, stage)
      /\ IF stage = "idle" THEN job' = [job EXCEPT ![r] = NoJob] ELSE job' = job
  BY DEF DeleteRows, Done
<1>5. /\ marred' = [marred EXCEPT ![k] = marred[k]] /\ strewn' = [strewn EXCEPT ![k] = strewn[k]]
      /\ marred[k] \in BOOLEAN /\ strewn[k] \in BOOLEAN
      /\ dense' = dense /\ lexical' = lexical
  BY <1>1, <1>2 DEF DeleteRows, KbTypeOK, history, stores
<1>6. /\ stage \in {"idle", "embed", "undense"} /\ stage # "embed"
      /\ strewn[k] \/ stage = "undense" \/ DOMAIN rows[k].chunks = {}
  <2>1. CASE ~Stored(k)
    <3>1. NoDoc.chunks = <<>>
      BY DEF NoDoc
    <3> QED
      BY <2>1, <3>1 DEF Stored
  <2>2. CASE Stored(k) /\ job[r].chunks = {} /\ job[r].alone
    <3>1. ChunkIds(k, rows[k].chunks) = {}
      BY <1>1, <2>2 DEF KbInv, RequestsOK, HeldOf
    <3> QED
      BY <2>2, <3>1 DEF ChunkIds
  <2>3. CASE Stored(k) /\ job[r].chunks = {} /\ ~job[r].alone
    BY <1>1, <2>3 DEF JobOf
  <2>4. CASE Stored(k) /\ job[r].chunks # {}
    BY <2>4
  <2> QED
    BY <2>1, <2>2, <2>3, <2>4
<1>7. RowsStep(r, k, stage, doc, marred[k], strewn[k])
  <2>1. stage = "undense" => doc = NoDoc
    BY <1>3
  <2> HIDE DEF stage, doc
  <2> QED
    BY <1>1, <1>3, <1>4, <1>5, <1>6, <2>1 DEF RowsStep, GoesTo
<1> HIDE DEF k, stage, doc
<1> QED
  BY <1>7, RowsInv

LEMMA DiesInv ==
    ASSUME KbInv, NEW r \in Requests, Dies(r)
    PROVE  KbInv'
<1> DEFINE k == job[r].key
<1>1. /\ KbTypeOK /\ JobOf(r) /\ at[r] # "idle"
      /\ Goto(r, "idle") /\ job' = [job EXCEPT ![r] = NoJob]
      /\ rows' = rows /\ dense' = dense /\ lexical' = lexical /\ marred' = marred
      /\ strewn' = [strewn EXCEPT ![k] = @ \/ at[r] \in DropStages]
  BY DEF KbInv, RequestsOK, Dies, Done, tables, stores, DropStages
<1>2. k \in Keys /\ at[r] \in KbStages /\ rows[k] \in DocRow \cup {NoDoc}
      /\ marred[k] \in BOOLEAN /\ strewn[k] \in BOOLEAN
  BY <1>1 DEF JobOf, KbTypeOK
<1>3. marred' = [marred EXCEPT ![k] = marred[k]] /\ rows' = [rows EXCEPT ![k] = rows[k]]
  BY <1>1, <1>2 DEF KbTypeOK
<1>4. CASE at[r] \in DropStages
  <2>1. strewn' = [strewn EXCEPT ![k] = TRUE]
    BY <1>1, <1>2, <1>4 DEF KbTypeOK
  <2>2. DropStep(r, k, "idle", TRUE)
    BY <1>1, <1>4, <2>1 DEF DropStep, GoesTo
  <2> QED
    BY <2>2, DropInv
<1>5. CASE at[r] \notin DropStages
  <2>1. strewn' = strewn /\ strewn' = [strewn EXCEPT ![k] = strewn[k]]
    BY <1>1, <1>2, <1>5 DEF KbTypeOK
  <2>2. CASE at[r] \in SyncStages
    <3>1. marred[k] = TRUE
      BY <1>1, <1>2, <2>2 DEF JobOf
    <3>2. SyncStep(r, k, "idle", TRUE)
      BY <1>1, <1>3, <2>1, <2>2, <3>1 DEF SyncStep, GoesTo
    <3> QED
      BY <3>2, SyncInv
  <2>3. CASE at[r] \in {"write", "delete"}
    <3>1. RowsStep(r, k, "idle", rows[k], marred[k], strewn[k])
      BY <1>1, <1>2, <1>3, <2>1, <2>3 DEF RowsStep, GoesTo
    <3> QED
      BY <3>1, RowsInv
  <2> QED
    BY <1>1, <1>2, <1>5, <2>2, <2>3 DEF KbStages
<1> QED
  BY <1>4, <1>5

LEMMA SyncStepInv ==
    ASSUME KbInv, NEW r \in Requests, Sync(r)
    PROVE  KbInv'
<1> DEFINE k == job[r].key
<1>1. KbTypeOK /\ at[r] \in SyncStages /\ JobOf(r)
  BY DEF KbInv, RequestsOK, Sync, Embed, SyncDense, SyncLexical, SyncFails, SyncStages
<1>2. k \in Keys /\ marred[k] = TRUE /\ (job[r].alone \in BOOLEAN)
  BY <1>1 DEF JobOf, KbTypeOK
<1>3. marred = [marred EXCEPT ![k] = TRUE]
  BY <1>1, <1>2 DEF KbTypeOK
<1>4. CASE Embed(r)
  <2>1. SyncStep(r, k, "dense", TRUE)
    BY <1>1, <1>3, <1>4 DEF SyncStep, GoesTo, Embed, tables, stores, history, SyncStages
  <2> QED
    BY <2>1, SyncInv
<1>5. CASE SyncDense(r)
  <2>1. SyncStep(r, k, "lexical", TRUE)
    BY <1>1, <1>3, <1>5 DEF SyncStep, GoesTo, SyncDense, tables, history, SyncStages
  <2> QED
    BY <2>1, SyncInv
<1>6. CASE SyncLexical(r)
  <2> DEFINE b == ~job[r].alone
  <2>1. marred' = [marred EXCEPT ![k] = b] /\ b \in BOOLEAN
    BY <1>2, <1>6 DEF SyncLexical
  <2>2. /\ at[r] = "lexical" /\ Goto(r, "idle") /\ job' = [job EXCEPT ![r] = NoJob]
        /\ rows' = rows /\ strewn' = strewn /\ dense' = dense
        /\ lexical' = Upserted(lexical, PointsOf(job[r]))
    BY <1>6 DEF SyncLexical, Done, tables
  <2>3. b \/ job[r].alone
    OBVIOUS
  <2>4. SyncStep(r, k, "idle", b)
    <3> HIDE DEF b
    <3> QED
      BY <1>1, <2>1, <2>2, <2>3 DEF SyncStep, GoesTo
  <2> QED
    BY <2>4, SyncInv
<1>7. CASE SyncFails(r)
  <2>1. /\ Goto(r, "idle") /\ job' = [job EXCEPT ![r] = NoJob]
        /\ rows' = rows /\ strewn' = strewn /\ marred' = [marred EXCEPT ![k] = TRUE]
        /\ dense' \in {dense, Upserted(dense, PointsOf(job[r]))}
        /\ lexical' \in {lexical, Upserted(lexical, PointsOf(job[r]))}
    BY <1>7 DEF SyncFails, Done, tables
  <2>2. SyncStep(r, k, "idle", TRUE)
    BY <1>1, <2>1 DEF SyncStep, GoesTo
  <2> QED
    BY <2>2, SyncInv
<1> QED
  BY <1>4, <1>5, <1>6, <1>7 DEF Sync

LEMMA UnsyncInv ==
    ASSUME KbInv, NEW r \in Requests, Unsync(r)
    PROVE  KbInv'
<1> DEFINE k == job[r].key
<1>1. KbTypeOK /\ at[r] \in DropStages /\ JobOf(r)
  BY DEF KbInv, RequestsOK, Unsync, DeleteDense, DeleteLexical, DeleteFails, DropStages
<1>2. k \in Keys /\ strewn[k] \in BOOLEAN /\ strewn = [strewn EXCEPT ![k] = strewn[k]]
  BY <1>1 DEF JobOf, KbTypeOK
<1>3. CASE DeleteDense(r)
  <2>1. DropStep(r, k, "unlexical", strewn[k])
    BY <1>1, <1>2, <1>3 DEF DropStep, GoesTo, DeleteDense, tables, history
  <2> QED
    BY <2>1, DropInv
<1>4. CASE DeleteLexical(r)
  <2>1. DropStep(r, k, "idle", strewn[k])
    BY <1>1, <1>2, <1>4 DEF DropStep, GoesTo, DeleteLexical, Done, tables, history
  <2> QED
    BY <2>1, DropInv
<1>5. CASE DeleteFails(r)
  <2>1. /\ Goto(r, "idle") /\ job' = [job EXCEPT ![r] = NoJob]
        /\ rows' = rows /\ marred' = marred /\ strewn' = [strewn EXCEPT ![k] = TRUE]
        /\ dense' \in {dense, Without(dense, job[r])}
        /\ lexical' \in {lexical, WithoutIds(lexical, job[r])}
    BY <1>5 DEF DeleteFails, Done, tables
  <2>2. DropStep(r, k, "idle", TRUE)
    BY <1>1, <2>1 DEF DropStep, GoesTo
  <2> QED
    BY <2>2, DropInv
<1> QED
  BY <1>3, <1>4, <1>5 DEF Unsync

LEMMA NothingInv ==
    ASSUME KbInv, UNCHANGED <<tables, stores, request, history>>
    PROVE  KbInv'
<1>1. /\ at' = at /\ job' = job /\ rows' = rows /\ dense' = dense /\ lexical' = lexical
      /\ marred' = marred /\ strewn' = strewn
  BY DEF tables, stores, request, history
<1>2. KbTypeOK'
  BY <1>1 DEF KbInv, KbTypeOK
<1> QED
  BY <1>1, <1>2, SameInv

LEMMA StoresStep == ASSUME KbInv, [KbNext]_kbVars PROVE KbInv'
<1>1. CASE Searching
  <2>1. UNCHANGED <<tables, stores, request, history>>
    BY <1>1 DEF Searching, SearchDense, Grounded, SearchLexical
  <2> QED
    BY <2>1, NothingInv
<1>2. CASE \E r \in Requests :
              Console(r) \/ WriteRows(r) \/ DeleteRows(r) \/ Sync(r) \/ Unsync(r) \/ Dies(r)
  BY <1>2, ConsoleInv, WriteRowsInv, DeleteRowsInv, SyncStepInv, UnsyncInv, DiesInv
<1>3. CASE UNCHANGED kbVars
  <2>1. UNCHANGED <<tables, stores, request, history>>
    BY <1>3 DEF kbVars
  <2> QED
    BY <2>1, NothingInv
<1> QED
  BY <1>1, <1>2, <1>3 DEF KbNext

\* The stores follow Postgres (retrieval/knowledge.py): of a document whose last sync met
\* no failure and no other request both search stores hold every chunk, as it is; and
\* outside a removal under way neither holds a chunk whose row is gone, unless the document
\* shrank or moved, a removal of it stopped half-way, or two requests met on it.
THEOREM StoresFollow == KbSpec => []StoresFollowPostgres
<1>1. KbInit => KbInv
  BY InitStores
<1>2. KbInv /\ [KbNext]_kbVars => KbInv'
  BY StoresStep
<1>3. KbInv => StoresFollowPostgres
  BY StoresAreKept
<1> QED
  BY <1>1, <1>2, <1>3, PTL DEF KbSpec
-----------------------------------------------------------------------------
\* A document's chunks are its text's.
ChunkedFrom(row) == row = NoDoc \/ (row.hash \in Texts /\ row.chunks = ChunkText(row.hash))
ChunkedInv == \A k \in Keys : ChunkedFrom(rows[k])

LEMMA NoDocIsSound == Covers(NoDoc.hash, NoDoc.chunks) /\ WarnsOfSentences(NoDoc.chunks)
<1>1. NoDoc.hash = <<>> /\ NoDoc.chunks = <<>>
  BY DEF NoDoc
<1>2. DOMAIN <<>> = {} /\ Len(<<>>) = 0 /\ \A i \in 2 .. 0 : FALSE
  OBVIOUS
<1> DEFINE none == [i \in {} |-> 1]
<1>3. none \in [{} -> {}]
  OBVIOUS
<1> HIDE DEF none
<1>4. Covers(<<>>, <<>>)
  BY <1>2, <1>3 DEF Covers
<1>5. WarnsOfSentences(<<>>)
  BY <1>2 DEF WarnsOfSentences
<1> QED
  BY <1>1, <1>4, <1>5

LEMMA ChunkedIsSound == ASSUME ChunkedInv PROVE ChunksAreSound
<1> SUFFICES ASSUME NEW k \in Keys
             PROVE  Covers(rows[k].hash, rows[k].chunks) /\ WarnsOfSentences(rows[k].chunks)
  BY DEF ChunksAreSound
<1>1. CASE rows[k] = NoDoc
  BY <1>1, NoDocIsSound
<1>2. CASE rows[k] # NoDoc
  <2> DEFINE text == rows[k].hash
  <2>1. text \in Texts /\ rows[k].chunks = ChunkText(text)
    BY <1>2 DEF ChunkedInv, ChunkedFrom
  <2> HIDE DEF text
  <2>2. Covers(text, ChunkText(text)) /\ WarnsOfSentences(ChunkText(text))
    BY <2>1, TextIs, ChunksCover, ChunksWarn
  <2> QED
    BY <2>1, <2>2 DEF text
<1> QED
  BY <1>1, <1>2

LEMMA RowsStayChunked ==
    ASSUME KbInv, ChunkedInv, [KbNext]_kbVars
    PROVE  ChunkedInv'
<1> SUFFICES ASSUME NEW k \in Keys PROVE ChunkedFrom(rows'[k])
  BY DEF ChunkedInv
<1>1. KbTypeOK /\ ChunkedFrom(rows[k])
  BY DEF KbInv, ChunkedInv
<1>2. CASE rows' = rows
  BY <1>1, <1>2
<1>3. ASSUME NEW r \in Requests, WriteRows(r) PROVE ChunkedFrom(rows'[k])
  <2> DEFINE j == job[r]
             doc == [hash |-> j.text, vertical |-> j.vertical, chunks |-> ChunkText(j.text)]
  <2>1. JobOf(r) /\ at[r] = "write"
    BY <1>3 DEF KbInv, RequestsOK, WriteRows
  <2>2. j.text \in Texts
    BY <2>1 DEF JobOf
  <2>3. ChunkedFrom(doc)
    BY <2>2 DEF ChunkedFrom
  <2>4. rows' = [rows EXCEPT ![j.key] = doc]
    BY <1>3 DEF WriteRows
  <2> HIDE DEF doc, j
  <2>5. rows'[k] = IF k = j.key THEN doc ELSE rows[k]
    BY <1>1, <2>4 DEF KbTypeOK
  <2> QED
    BY <1>1, <2>3, <2>5
<1>4. ASSUME NEW r \in Requests, DeleteRows(r) PROVE ChunkedFrom(rows'[k])
  <2>1. rows' = rows \/ rows' = [rows EXCEPT ![job[r].key] = NoDoc]
    BY <1>4 DEF DeleteRows
  <2>2. rows'[k] = rows[k] \/ rows'[k] = NoDoc
    BY <1>1, <2>1 DEF KbTypeOK
  <2> QED
    BY <1>1, <2>2 DEF ChunkedFrom
<1>5. CASE Searching
  BY <1>2, <1>5 DEF Searching, SearchLexical, SearchDense, Grounded, tables
<1>6. ASSUME NEW r \in Requests, Console(r) \/ Dies(r) PROVE rows' = rows
  BY <1>6 DEF Console, RemoveDocument, Upload, Dies, tables
<1>7. ASSUME NEW r \in Requests, Sync(r) PROVE rows' = rows
  BY <1>7 DEF Sync, Embed, SyncDense, SyncLexical, SyncFails, tables
<1>8. ASSUME NEW r \in Requests, Unsync(r) PROVE rows' = rows
  BY <1>8 DEF Unsync, DeleteDense, DeleteLexical, DeleteFails, tables
<1>9. CASE UNCHANGED kbVars
  BY <1>2, <1>9 DEF kbVars, tables
<1> QED
  BY <1>2, <1>3, <1>4, <1>5, <1>6, <1>7, <1>8, <1>9 DEF KbNext

\* The chunker keeps every sentence whole and in place (retrieval/chunker.py), whatever the
\* text: a stored document's chunks are runs of its sentences that begin within the chunk
\* before them and reach the end, and the preview (retrieval/preview.py) calls one
\* oversized only for a sentence that fills a chunk by itself.
THEOREM ChunksStaySound == KbSpec => []ChunksAreSound
<1>1. KbInit => KbInv /\ ChunkedInv
  BY InitStores DEF KbInit, ChunkedInv, ChunkedFrom
<1>2. KbInv /\ ChunkedInv /\ [KbNext]_kbVars => KbInv' /\ ChunkedInv'
  BY StoresStep, RowsStayChunked
<1>3. ChunkedInv => ChunksAreSound
  BY ChunkedIsSound
<1> QED
  BY <1>1, <1>2, <1>3, PTL DEF KbSpec
-----------------------------------------------------------------------------
\* What an arm answers with, cut: at most PerArm hits, of one tenant's chunks.
Arm(arm, t) ==
    /\ \E n \in 0 .. PerArm : DOMAIN arm = 1 .. n
    /\ \A i \in DOMAIN arm : arm[i].chunk \in ChunksOfKeys /\ arm[i].chunk[1][1] = t

LEMMA SharesAreWhole ==
    ASSUME NEW n \in 1 .. PerArm
    PROVE  /\ RrfK + n \in Nat \ {0} /\ Parts \div (RrfK + n) \in Nat
           /\ (Parts \div (RrfK + n)) * (RrfK + n) = Parts
<1> DEFINE m == RrfK + n
<1>1. m \in Nat \ {0} /\ Parts \in Nat \ {0} /\ Parts % m = 0
  BY FusionAssumption
<1> HIDE DEF m
<1>2. Parts \div m \in Nat /\ (Parts \div m) * m = Parts
  BY <1>1
<1> QED
  BY <1>1, <1>2 DEF m

\* A chunk's share of an arm: a whole number, and within a factor of two of any other's.
LEMMA SharesAre ==
    ASSUME NEW arm, NEW t, Arm(arm, t), NEW c
    PROVE  /\ Share(arm, c) \in Nat /\ (c \notin ChunksOf(arm) => Share(arm, c) = 0)
           /\ c \in ChunksOf(arm) =>
                 /\ RankIn(arm, c) \in DOMAIN arm /\ arm[RankIn(arm, c)].chunk = c
                 /\ \E m \in (RrfK + 1) .. (RrfK + PerArm) : Share(arm, c) * m = Parts
<1>1. CASE c \notin ChunksOf(arm)
  BY <1>1 DEF Share
<1>2. CASE c \in ChunksOf(arm)
  <2>1. PICK i \in DOMAIN arm : arm[i].chunk = c
    BY <1>2 DEF ChunksOf
  <2>2. RankIn(arm, c) \in DOMAIN arm /\ arm[RankIn(arm, c)].chunk = c
    BY <2>1 DEF RankIn
  <2>3. RankIn(arm, c) \in 1 .. PerArm
    BY <2>2, FusionAssumption DEF Arm
  <2>4. Share(arm, c) = Parts \div (RrfK + RankIn(arm, c))
    BY <1>2 DEF Share
  <2>5. RrfK + RankIn(arm, c) \in (RrfK + 1) .. (RrfK + PerArm)
    BY <2>3, FusionAssumption
  <2> QED
    BY <1>2, <2>2, <2>3, <2>4, <2>5, SharesAreWhole
<1> QED
  BY <1>1, <1>2

\* Two shares are more than one, as no list is much longer than k.
LEMMA TwoAreMore ==
    ASSUME NEW x \in Nat, NEW y \in Nat, NEW z \in Nat,
           NEW a \in (RrfK + 1) .. (RrfK + PerArm), NEW b \in (RrfK + 1) .. (RrfK + PerArm),
           NEW c \in (RrfK + 1) .. (RrfK + PerArm), x * a = Parts, y * b = Parts, z * c = Parts
    PROVE  x + y > z
<1>1. /\ a \in Nat /\ b \in Nat /\ c \in Nat /\ Parts \in Nat \ {0}
      /\ a < 2 * c /\ b < 2 * c /\ c > 0
  BY FusionAssumption, ListsAreShort
<1>2. ASSUME NEW u \in Nat, NEW v \in Nat, v < 2 * c, u * v = z * c, z * c > 0
      PROVE  z < 2 * u
  <2>1. u > 0
    BY <1>2
  <2>2. u * v < u * (2 * c)
    BY <1>1, <1>2, <2>1
  <2>3. u * (2 * c) = (2 * u) * c
    BY <1>1
  <2>4. z * c < (2 * u) * c
    BY <1>2, <2>2, <2>3
  <2> QED
    BY <1>1, <2>4
<1>3. z < 2 * x /\ z < 2 * y
  BY <1>1, <1>2
<1> QED
  BY <1>3

\* The order of the fused list is strict and total on one tenant's chunks.
LEMMA OrderIs ==
    ASSUME NEW a, NEW b, NEW t, Arm(a, t), Arm(b, t), NEW all, all = ChunksOf(a) \cup ChunksOf(b)
    PROVE  /\ \A c \in all : ~Above(a, b, c, c)
           /\ \A c, d, e \in all : Above(a, b, c, d) /\ Above(a, b, d, e) => Above(a, b, c, e)
           /\ \A c, d \in all : c # d => Above(a, b, c, d) \/ Above(a, b, d, c)
<1>1. \A c \in all : RrfScore(a, b, c) \in Nat
  BY SharesAre DEF RrfScore
<1>2. \A c \in all : c \in ChunksOfKeys /\ c[1][1] = t
  BY DEF Arm, ChunksOf
<1>3. \A c \in all : c = <<c[1], c[2]>> /\ c[1] = <<t, c[1][2]>> /\ c[1][2] \in Nat /\ c[2] \in Nat
  BY <1>2, KnowledgeAssumption DEF ChunksOfKeys, Keys
<1>4. \A c, d \in all : c # d => c[1][2] # d[1][2] \/ c[2] # d[2]
  BY <1>3
<1>5. \A c, d \in all : Above(a, b, c, d) <=>
          \/ RrfScore(a, b, c) > RrfScore(a, b, d)
          \/ RrfScore(a, b, c) = RrfScore(a, b, d)
             /\ (c[1][2] < d[1][2] \/ (c[1][2] = d[1][2] /\ c[2] < d[2]))
  BY DEF Above, Before
<1> QED
  BY <1>1, <1>3, <1>4, <1>5

LEMMA ArmIsFinite ==
    ASSUME NEW arm, NEW t, Arm(arm, t)
    PROVE  IsFiniteSet(ChunksOf(arm))
<1>1. PICK n \in 0 .. PerArm : DOMAIN arm = 1 .. n
  BY DEF Arm
<1> DEFINE f == [i \in DOMAIN arm |-> arm[i].chunk]
<1>2. n \in Nat /\ IsFiniteSet(1 .. n)
  BY FusionAssumption, FS_Interval
<1>3. f \in Surjection(DOMAIN arm, ChunksOf(arm))
  BY DEF Surjection, ChunksOf
<1> QED
  BY <1>1, <1>2, <1>3, FS_Surjection

\* Every place of the fused list is one chunk's, and the one above is in front.
LEMMA PlacesAre ==
    ASSUME NEW a, NEW b, NEW t, Arm(a, t), Arm(b, t), NEW all, all = ChunksOf(a) \cup ChunksOf(b)
    PROVE  /\ Cardinality(all) \in Nat
           /\ \A i \in 1 .. Cardinality(all) :
                 \E c \in all : Cardinality(Better(a, b, c)) = i - 1
           /\ \A c, d \in all : Above(a, b, c, d) =>
                 Cardinality(Better(a, b, c)) < Cardinality(Better(a, b, d))
           /\ \A c \in all : Cardinality(Better(a, b, c)) \in Nat
<1> DEFINE B(c) == Better(a, b, c)
           n    == Cardinality(all)
           f    == [c \in all |-> Cardinality(B(c))]
<1>1. IsFiniteSet(all) /\ n \in Nat
  BY ArmIsFinite, FS_Union, FS_CardinalityType
<1>2. \A c \in all : B(c) \subseteq all /\ c \notin B(c)
  BY OrderIs DEF Better
<1>3. ASSUME NEW c \in all PROVE IsFiniteSet(B(c)) /\ Cardinality(B(c)) \in 0 .. n - 1
  <2>1. IsFiniteSet(B(c)) /\ Cardinality(B(c)) <= n /\ Cardinality(B(c)) # n
    BY <1>1, <1>2, FS_Subset
  <2>2. Cardinality(B(c)) \in Nat
    BY <2>1, FS_CardinalityType
  <2> QED
    BY <1>1, <2>1, <2>2
<1>4. ASSUME NEW c \in all, NEW d \in all, Above(a, b, c, d)
      PROVE  Cardinality(B(c)) < Cardinality(B(d))
  <2>1. B(c) \subseteq B(d) /\ c \in B(d) /\ c \notin B(c)
    BY <1>2, <1>4, OrderIs DEF Better
  <2>2. Cardinality(B(c)) <= Cardinality(B(d)) /\ Cardinality(B(c)) # Cardinality(B(d))
    BY <2>1, <1>3, FS_Subset
  <2> QED
    BY <1>3, <2>2
<1> HIDE DEF B
<1>5. f \in Injection(all, 0 .. n - 1)
  <2>1. f \in [all -> 0 .. n - 1]
    BY <1>3
  <2>2. ASSUME NEW c \in all, NEW d \in all, f[c] = f[d] PROVE c = d
    <3>1. f[c] \in Nat /\ f[d] \in Nat /\ ~(f[c] < f[d]) /\ ~(f[d] < f[c])
      BY <2>2, <1>3, <1>1
    <3>2. ~Above(a, b, c, d) /\ ~Above(a, b, d, c)
      BY <3>1, <1>4
    <3> QED
      BY <3>2, OrderIs
  <2> QED
    BY <2>1, <2>2 DEF Injection, IsInjective
<1>6. IsFiniteSet(0 .. n - 1) /\ Cardinality(0 .. n - 1) = n
  BY <1>1, FS_Interval
<1>7. f \in Surjection(all, 0 .. n - 1)
  BY <1>5, <1>6, FS_Injection
<1>8. ASSUME NEW i \in 1 .. n PROVE \E c \in all : Cardinality(B(c)) = i - 1
  <2>1. i - 1 \in 0 .. n - 1
    BY <1>1
  <2>2. PICK c \in all : f[c] = i - 1
    BY <2>1, <1>7 DEF Surjection
  <2> QED
    BY <2>2
<1> QED
  BY <1>1, <1>3, <1>4, <1>8 DEF B

LEMMA LesserOf ==
    ASSUME NEW k \in Nat, NEW n \in Nat
    PROVE  Min({k, n}) \in 0 .. k /\ Min({k, n}) \in 0 .. n
<1>1. \E x \in {k, n} : \A y \in {k, n} : x <= y
  OBVIOUS
<1>2. Min({k, n}) \in {k, n} /\ \A y \in {k, n} : Min({k, n}) <= y
  BY <1>1 DEF Min
<1> QED
  BY <1>2

\* A cut list: its first m elements.
LEMMA CutIs ==
    ASSUME NEW S, NEW s \in Seq(S), NEW m \in 0 .. Len(s)
    PROVE  /\ DOMAIN SubSeq(s, 1, m) = 1 .. m
           /\ \A i \in 1 .. m : i \in DOMAIN s /\ SubSeq(s, 1, m)[i] = s[i]
<1>1. m \in Nat /\ \A i \in 1 .. m : i \in DOMAIN s /\ s[i] \in S
  OBVIOUS
<1>2. /\ SubSeq(s, 1, m) \in Seq(S)
      /\ Len(SubSeq(s, 1, m)) = IF 1 <= m THEN m - 1 + 1 ELSE 0
      /\ \A i \in 1 .. m - 1 + 1 : SubSeq(s, 1, m)[i] = s[1 + i - 1]
  BY <1>1, SubSeqProperties
<1>3. m - 1 + 1 = m /\ \A i \in 1 .. m : 1 + i - 1 = i
  BY <1>1
<1>4. Len(SubSeq(s, 1, m)) = m /\ \A i \in 1 .. m : SubSeq(s, 1, m)[i] = s[i]
  BY <1>1, <1>2, <1>3
<1>5. DOMAIN SubSeq(s, 1, m) = 1 .. m
  BY <1>2, <1>4
<1> QED
  BY <1>1, <1>4, <1>5

LEMMA AnsweredIs ==
    ASSUME NEW S, NEW arm, arm = Missing \/ arm \in Seq(S)
    PROVE  /\ \E m \in 0 .. PerArm : DOMAIN Answered(arm) = 1 .. m
           /\ \A i \in DOMAIN Answered(arm) :
                 arm # Missing /\ i \in DOMAIN arm /\ Answered(arm)[i] = arm[i]
<1>1. CASE arm = Missing
  <2>1. Answered(arm) = <<>>
    BY <1>1 DEF Answered
  <2>2. DOMAIN Answered(arm) = 1 .. 0 /\ DOMAIN Answered(arm) = {}
    BY <2>1
  <2>3. 0 \in 0 .. PerArm
    BY FusionAssumption
  <2> QED
    BY <2>2, <2>3
<1>2. CASE arm # Missing
  <2> DEFINE m == Min({PerArm, Len(arm)})
  <2>1. arm \in Seq(S) /\ Answered(arm) = SubSeq(arm, 1, m)
    BY <1>2 DEF Answered
  <2>2. m \in 0 .. PerArm /\ m \in 0 .. Len(arm)
    BY <2>1, FusionAssumption, LesserOf
  <2> HIDE DEF m
  <2>3. /\ DOMAIN SubSeq(arm, 1, m) = 1 .. m
        /\ \A i \in 1 .. m : i \in DOMAIN arm /\ SubSeq(arm, 1, m)[i] = arm[i]
    BY <2>1, <2>2, CutIs
  <2> QED
    BY <1>2, <2>1, <2>2, <2>3
<1> QED
  BY <1>1, <1>2

\* What is said of one chunk: where its text is from, and how many arms ranked it.
LEMMA HitIs ==
    ASSUME NEW a, NEW b, NEW t, Arm(a, t), Arm(b, t), NEW c \in ChunksOf(a) \cup ChunksOf(b)
    PROVE  LET hit == FusedHit(a, b, c)
           IN  /\ hit.chunk = c
               /\ hit.text # NoText =>
                     \/ \E i \in DOMAIN a : a[i].chunk = c /\ a[i].text = hit.text
                     \/ \E i \in DOMAIN b : b[i].chunk = c /\ b[i].text = hit.text
               /\ Cardinality(hit.arms) =
                     IF c \in ChunksOf(a) /\ c \in ChunksOf(b) THEN 2 ELSE 1
<1> DEFINE hit == FusedHit(a, b, c)
<1>1. /\ hit.chunk = c
      /\ hit.text = IF TextIn(a, c) # NoText THEN TextIn(a, c) ELSE TextIn(b, c)
      /\ hit.arms = {x \in {"dense", "sparse"} : c \in ChunksOf(IF x = "dense" THEN a ELSE b)}
  BY DEF FusedHit
<1> HIDE DEF hit
<1>2. hit.text # NoText =>
         \/ \E i \in DOMAIN a : a[i].chunk = c /\ a[i].text = hit.text
         \/ \E i \in DOMAIN b : b[i].chunk = c /\ b[i].text = hit.text
  <2>1. \A arm \in {a, b} : TextIn(arm, c) # NoText =>
           \E i \in DOMAIN arm : arm[i].chunk = c /\ arm[i].text = TextIn(arm, c)
    BY SharesAre DEF TextIn
  <2> QED
    BY <1>1, <2>1
<1>3. CASE c \in ChunksOf(a) /\ c \in ChunksOf(b)
  <2>1. hit.arms = {"dense"} \cup {"sparse"}
    BY <1>1, <1>3
  <2>2. Cardinality(hit.arms) = 2
    <3>1. IsFiniteSet({"dense"}) /\ Cardinality({"dense"}) = 1 /\ "sparse" \notin {"dense"}
      BY FS_Singleton
    <3> QED
      BY <2>1, <3>1, FS_AddElement
  <2> QED
    BY <1>1, <1>2, <1>3, <2>2 DEF hit
<1>4. CASE ~(c \in ChunksOf(a) /\ c \in ChunksOf(b))
  <2>1. hit.arms = {"dense"} \/ hit.arms = {"sparse"}
    BY <1>1, <1>4
  <2>2. Cardinality(hit.arms) = 1
    BY <2>1, FS_Singleton
  <2> QED
    BY <1>1, <1>2, <1>4, <2>2 DEF hit
<1> QED
  BY <1>3, <1>4

\* A chunk both arms ranked is above one that either ranked alone.
LEMMA BothAreAbove ==
    ASSUME NEW a, NEW b, NEW t, Arm(a, t), Arm(b, t),
           NEW c \in ChunksOf(a) \cap ChunksOf(b), NEW d \in ChunksOf(a) \cup ChunksOf(b),
           d \notin ChunksOf(a) \cap ChunksOf(b)
    PROVE  Above(a, b, c, d)
<1>1. /\ Share(a, c) \in Nat /\ \E m \in (RrfK + 1) .. (RrfK + PerArm) : Share(a, c) * m = Parts
      /\ Share(b, c) \in Nat /\ \E m \in (RrfK + 1) .. (RrfK + PerArm) : Share(b, c) * m = Parts
  BY SharesAre
<1>2. PICK z \in Nat : /\ Share(a, d) + Share(b, d) = z
                       /\ \E m \in (RrfK + 1) .. (RrfK + PerArm) : z * m = Parts
  <2>1. CASE d \in ChunksOf(a) /\ d \notin ChunksOf(b)
    <3>1. Share(b, d) = 0 /\ Share(a, d) \in Nat
      BY <2>1, SharesAre
    <3>2. Share(a, d) + Share(b, d) = Share(a, d)
      BY <3>1
    <3> QED
      BY <2>1, <3>1, <3>2, SharesAre
  <2>2. CASE d \notin ChunksOf(a) /\ d \in ChunksOf(b)
    <3>1. Share(a, d) = 0 /\ Share(b, d) \in Nat
      BY <2>2, SharesAre
    <3>2. Share(a, d) + Share(b, d) = Share(b, d)
      BY <3>1
    <3> QED
      BY <2>2, <3>1, <3>2, SharesAre
  <2> QED
    BY <2>1, <2>2
<1>3. Share(a, c) + Share(b, c) > z
  BY <1>1, <1>2, TwoAreMore
<1> QED
  BY <1>1, <1>2, <1>3 DEF Above, RrfScore

\* The fused list: hits of the arms' chunks, in the order of agreement.
LEMMA RankedIs ==
    ASSUME NEW a, NEW b, NEW t, Arm(a, t), Arm(b, t)
    PROVE  /\ Ranked(a, b) \in Seq(Range(Ranked(a, b)))
           /\ \A i \in DOMAIN Ranked(a, b) :
                 \E c \in ChunksOf(a) \cup ChunksOf(b) : Ranked(a, b)[i] = FusedHit(a, b, c)
           /\ AgreementOutranks(Ranked(a, b))
<1> DEFINE all    == ChunksOf(a) \cup ChunksOf(b)
           n      == Cardinality(all)
           nth(i) == CHOOSE c \in all : Cardinality(Better(a, b, c)) = i - 1
           list   == Ranked(a, b)
<1>1. /\ n \in Nat /\ \A c \in all : Cardinality(Better(a, b, c)) \in Nat
      /\ \A i \in 1 .. n : \E c \in all : Cardinality(Better(a, b, c)) = i - 1
      /\ \A c, d \in all : Above(a, b, c, d) =>
            Cardinality(Better(a, b, c)) < Cardinality(Better(a, b, d))
  BY PlacesAre
<1>2. \A i \in 1 .. n : nth(i) \in all /\ Cardinality(Better(a, b, nth(i))) = i - 1
  BY <1>1
<1>3. list = [i \in 1 .. n |-> FusedHit(a, b, nth(i))]
  BY DEF Ranked
<1> HIDE DEF nth, list, n
<1>4. DOMAIN list = 1 .. n /\ \A i \in 1 .. n : list[i] = FusedHit(a, b, nth(i))
  BY <1>3
<1>5. list \in Seq(Range(list))
  <2>1. \A i \in 1 .. n : list[i] \in Range(list)
    BY <1>4 DEF Range
  <2>2. list = [i \in 1 .. n |-> list[i]]
    BY <1>3
  <2> QED
    BY <1>1, <2>1, <2>2
<1>6. AgreementOutranks(list)
  <2> SUFFICES ASSUME NEW i \in 1 .. n, NEW j \in 1 .. n,
                      Cardinality(list[i].arms) > Cardinality(list[j].arms)
               PROVE  i < j
    BY <1>4 DEF AgreementOutranks
  <2>1. /\ Cardinality(list[i].arms) =
              IF nth(i) \in ChunksOf(a) /\ nth(i) \in ChunksOf(b) THEN 2 ELSE 1
        /\ Cardinality(list[j].arms) =
              IF nth(j) \in ChunksOf(a) /\ nth(j) \in ChunksOf(b) THEN 2 ELSE 1
    BY <1>2, <1>4, HitIs
  <2>2. nth(i) \in ChunksOf(a) \cap ChunksOf(b) /\ nth(j) \notin ChunksOf(a) \cap ChunksOf(b)
    BY <2>1
  <2>3. Above(a, b, nth(i), nth(j))
    BY <1>2, <2>2, BothAreAbove
  <2>4. i - 1 < j - 1
    BY <1>1, <1>2, <2>3
  <2> QED
    BY <1>1, <2>4
<1> QED
  BY <1>2, <1>4, <1>5, <1>6 DEF list

\* Of each passage, its chunk is the tenant's and its text a ranked hit's of that chunk.
Quoted(hits, s, t) == \A i \in DOMAIN hits :
    /\ hits[i].chunk[1][1] = t
    /\ hits[i].text # NoText =>
          \E j \in DOMAIN s : s[j].chunk = hits[i].chunk /\ s[j].text = hits[i].text

\* What fusion hands on: of each hit, a chunk some arm ranked, and a text that arm gave it;
\* the ones both arms ranked first.
LEMMA FusedAre ==
    ASSUME NEW S, NEW s \in Seq(S), NEW d, d = Missing \/ d \in Seq(S), NEW t,
           \A i \in DOMAIN s : s[i].chunk \in ChunksOfKeys /\ s[i].chunk[1][1] = t,
           d # Missing => \A i \in DOMAIN d : /\ d[i].chunk \in ChunksOfKeys
                                              /\ d[i].chunk[1][1] = t /\ d[i].text = NoText,
           NEW hits, hits = Fuse(d, s).hits
    PROVE  AgreementOutranks(hits) /\ Quoted(hits, s, t)
<1> DEFINE a    == Answered(d)
           b    == Answered(s)
           list == Ranked(a, b)
           cut  == Min({FinalK, Len(list)})
           top  == SubSeq(list, 1, cut)
<1>1. Arm(a, t) /\ \A i \in DOMAIN a : a[i].text = NoText
  BY AnsweredIs DEF Arm
<1>2. Arm(b, t) /\ \A i \in DOMAIN b : i \in DOMAIN s /\ b[i] = s[i]
  BY AnsweredIs DEF Arm
<1> HIDE DEF a, b
<1>3. /\ list \in Seq(Range(list)) /\ AgreementOutranks(list)
      /\ \A i \in DOMAIN list : \E c \in ChunksOf(a) \cup ChunksOf(b) : list[i] = FusedHit(a, b, c)
  BY <1>1, <1>2, RankedIs
<1> HIDE DEF list
<1>4. Len(list) \in Nat /\ DOMAIN list = 1 .. Len(list) /\ FinalK \in Nat
  BY <1>3, FusionAssumption
<1>5. cut \in 0 .. Len(list)
  BY <1>4, LesserOf
<1> HIDE DEF cut
<1>6. DOMAIN top = 1 .. cut /\ \A i \in 1 .. cut : i \in DOMAIN list /\ top[i] = list[i]
  BY <1>3, <1>5, CutIs
<1> HIDE DEF top
<1>7. AgreementOutranks(top)
  BY <1>3, <1>6 DEF AgreementOutranks
<1>8. ASSUME NEW i \in DOMAIN top
      PROVE  /\ top[i].chunk[1][1] = t
             /\ top[i].text # NoText =>
                   \E j \in DOMAIN s : s[j].chunk = top[i].chunk /\ s[j].text = top[i].text
  <2>1. PICK c \in ChunksOf(a) \cup ChunksOf(b) : top[i] = FusedHit(a, b, c)
    BY <1>3, <1>6
  <2>2. c[1][1] = t
    BY <1>1, <1>2 DEF Arm, ChunksOf
  <2>3. /\ top[i].chunk = c
        /\ top[i].text # NoText =>
              \/ \E j \in DOMAIN a : a[j].chunk = c /\ a[j].text = top[i].text
              \/ \E j \in DOMAIN b : b[j].chunk = c /\ b[j].text = top[i].text
    BY <1>1, <1>2, <2>1, HitIs
  <2> QED
    BY <1>1, <1>2, <2>2, <2>3
<1>9. hits = IF GateClosed(top) THEN <<>> ELSE top
  BY DEF Fuse, a, b, list, cut, top
<1>10. CASE hits = top
  BY <1>7, <1>8, <1>10 DEF Quoted
<1>11. CASE hits = <<>>
  <2>1. DOMAIN hits = {}
    BY <1>11
  <2> QED
    BY <2>1 DEF AgreementOutranks, Quoted
<1> QED
  BY <1>9, <1>10, <1>11

\* Every point of a store, and every text a sync is about to file, was committed.
Committed(store) == \A p \in store : <<p.tenant, p.chunk, p.text>> \in wrote
JobCommitted(r) ==
    LET j == job[r]
    IN  at[r] \in SyncStages => \A i \in DOMAIN ChunkText(j.text) :
            <<j.key[1], <<j.key, i>>, ChunkText(j.text)[i]>> \in wrote

\* What the lexical arm has answered the search under way.
SparseOK ==
    /\ seek.sparse \in Seq(Range(seek.sparse))
    /\ \A i \in DOMAIN seek.sparse :
          LET hit == seek.sparse[i]
          IN  /\ hit.chunk \in ChunksOfKeys /\ hit.chunk[1][1] = seek.tenant
              /\ <<seek.tenant, hit.chunk, hit.text>> \in wrote

FindInv == /\ Committed(dense) /\ Committed(lexical) /\ \A r \in Requests : JobCommitted(r)
           /\ SparseOK /\ SearchIsSound

LEMMA NothingSought == NoSearch.sparse = <<>> /\ DOMAIN NoSearch.sparse = {}
<1>1. NoSearch.sparse = <<>>
  BY DEF NoSearch
<1> QED
  BY <1>1

LEMMA FindStarts == ASSUME KbInit PROVE FindInv
<1>1. /\ dense = {} /\ lexical = {} /\ \A r \in Requests : at[r] = "idle"
      /\ seek = NoSearch /\ found = <<>>
  BY DEF KbInit
<1>2. DOMAIN found = {}
  BY <1>1
<1> QED
  BY <1>1, <1>2, NothingSought DEF FindInv, Committed, JobCommitted, SyncStages, SparseOK,
              SearchIsSound, AnsweredFromItsOwn, FoundInAgreement, AgreementOutranks

\* What was committed stays so; what a step does to the stores and requests is all
\* there is to see to.
LEMMA FindKept ==
    ASSUME FindInv, UNCHANGED search, wrote \subseteq wrote',
           Committed(dense)', Committed(lexical)', \A r \in Requests : JobCommitted(r)'
    PROVE  FindInv'
<1>1. seek' = seek /\ found' = found
  BY DEF search
<1>2. SparseOK'
  BY <1>1 DEF FindInv, SparseOK
<1>3. SearchIsSound'
  BY <1>1 DEF FindInv, SearchIsSound, AnsweredFromItsOwn, FoundInAgreement
<1> QED
  BY <1>2, <1>3 DEF FindInv

LEMMA StoresKept ==
    ASSUME FindInv, wrote \subseteq wrote', dense' \subseteq dense, lexical' \subseteq lexical
    PROVE  Committed(dense)' /\ Committed(lexical)'
  BY DEF FindInv, Committed

\* A request that takes up nothing new to sync.
LEMMA JobsKept ==
    ASSUME FindInv, wrote \subseteq wrote',
           \A r \in Requests : at'[r] \in SyncStages =>
              at[r] \in SyncStages /\ job'[r].key = job[r].key /\ job'[r].text = job[r].text
    PROVE  \A r \in Requests : JobCommitted(r)'
<1> SUFFICES ASSUME NEW r \in Requests PROVE JobCommitted(r)'
  OBVIOUS
<1>1. JobCommitted(r)
  BY DEF FindInv
<1> QED
  BY <1>1 DEF JobCommitted

\* What a sync files is what was committed.
LEMMA FiledIsCommitted ==
    ASSUME FindInv, KbInv, NEW r \in Requests, at[r] \in SyncStages
    PROVE  \A store \in {dense, lexical} : Committed(Upserted(store, PointsOf(job[r])))
<1> DEFINE j      == job[r]
           pieces == ChunkText(j.text)
           P(i)   == [id |-> PointId(<<j.key, i>>), vertical |-> j.vertical,
                      tenant |-> j.key[1], chunk |-> <<j.key, i>>, text |-> pieces[i]]
<1>1. PointsOf(j) = {P(i) : i \in DOMAIN pieces}
  BY DEF PointsOf
<1>2. \A i \in DOMAIN pieces : <<j.key[1], <<j.key, i>>, pieces[i]>> \in wrote
  BY DEF FindInv, JobCommitted
<1>3. \A i \in DOMAIN pieces : P(i).tenant = j.key[1] /\ P(i).chunk = <<j.key, i>>
                               /\ P(i).text = pieces[i]
  OBVIOUS
<1> HIDE DEF P, pieces
<1>4. Committed(PointsOf(j))
  <2> SUFFICES ASSUME NEW p \in PointsOf(j) PROVE <<p.tenant, p.chunk, p.text>> \in wrote
    BY DEF Committed
  <2>1. PICK i \in DOMAIN pieces : p = P(i)
    BY <1>1
  <2> QED
    BY <1>2, <1>3, <2>1
<1>5. Committed(dense) /\ Committed(lexical)
  BY DEF FindInv
<1> QED
  BY <1>4, <1>5 DEF Committed, Upserted

LEMMA UploadFinds ==
    ASSUME FindInv, KbInv, NEW r \in Requests, Console(r)
    PROVE  FindInv'
<1>1. UNCHANGED <<stores, search, wrote>>
  BY DEF Console, Upload, RemoveDocument
<1>2. \A q \in Requests : at'[q] \in SyncStages =>
         at[q] \in SyncStages /\ job'[q].key = job[q].key /\ job'[q].text = job[q].text
  <2>1. at \in [Requests -> KbStages] /\ at[r] = "idle"
    BY DEF KbInv, KbTypeOK, Console, Upload, RemoveDocument
  <2>2. job \in [Requests -> [key : Keys \cup {<<>>}, text : Texts \cup {<<>>},
                              vertical : Verticals \cup {""}, chunks : SUBSET ChunksOfKeys,
                              alone : BOOLEAN]]
    BY DEF KbInv, KbTypeOK
  <2>3. CASE Done(r)
    BY <2>1, <2>2, <2>3 DEF Done, Goto, SyncStages
  <2>4. ASSUME NEW k, NEW text, NEW v, NEW chunks, NEW stage \in {"write", "delete"},
               TakeUp(r, k, text, v, chunks, stage)
        PROVE  \A q \in Requests : at'[q] \in SyncStages =>
                  at[q] \in SyncStages /\ job'[q].key = job[q].key /\ job'[q].text = job[q].text
    <3>1. \A q \in Requests : q # r => at'[q] = at[q] /\ job'[q].key = job[q].key
                                       /\ job'[q].text = job[q].text
      BY <2>1, <2>2, <2>4 DEF TakeUp, Goto, Crossed, Job
    <3>2. at'[r] = stage
      BY <2>1, <2>4 DEF TakeUp, Goto
    <3> QED
      BY <3>1, <3>2 DEF SyncStages
  <2> QED
    BY <2>3, <2>4 DEF Console, Upload, RemoveDocument
<1>3. dense' = dense /\ lexical' = lexical /\ wrote' = wrote /\ UNCHANGED search
  BY <1>1 DEF stores
<1> QED
  BY <1>2, <1>3, StoresKept, JobsKept, FindKept

LEMMA WriteRowsFinds ==
    ASSUME FindInv, KbInv, NEW r \in Requests, WriteRows(r)
    PROVE  FindInv'
<1> DEFINE j      == job[r]
           k      == j.key
           chunks == ChunkText(j.text)
<1>1. /\ UNCHANGED <<stores, search>> /\ at[r] = "write"
      /\ wrote' = wrote \cup {<<k[1], <<k, i>>, chunks[i]>> : i \in DOMAIN chunks}
      /\ Done(r) \/ (Goto(r, "embed") /\ job' = job)
  BY DEF WriteRows
<1>2. wrote \subseteq wrote' /\ dense' = dense /\ lexical' = lexical /\ UNCHANGED search
  BY <1>1 DEF stores
<1>3. at \in [Requests -> KbStages] /\ job = [q \in Requests |-> job[q]]
  BY DEF KbInv, KbTypeOK
<1>4. ASSUME NEW q \in Requests PROVE JobCommitted(q)'
  <2>1. CASE q # r
    <3>1. at'[q] = at[q] /\ job'[q] = job[q]
      BY <1>1, <1>3, <2>1 DEF Done, Goto
    <3>2. JobCommitted(q)
      BY DEF FindInv
    <3> QED
      BY <1>2, <3>1, <3>2 DEF JobCommitted
  <2>2. CASE q = r /\ Done(r)
    BY <1>3, <2>2 DEF Done, Goto, JobCommitted, SyncStages
  <2>3. CASE q = r /\ job' = job
    BY <1>1, <2>3 DEF JobCommitted
  <2> QED
    BY <1>1, <2>1, <2>2, <2>3
<1> QED
  BY <1>2, <1>4, StoresKept, FindKept

LEMMA SyncFinds ==
    ASSUME FindInv, KbInv, NEW r \in Requests,
           Sync(r) \/ Unsync(r) \/ DeleteRows(r) \/ Dies(r)
    PROVE  FindInv'
<1>1. wrote' = wrote /\ UNCHANGED search
  BY DEF Sync, Embed, SyncDense, SyncLexical, SyncFails, Unsync, DeleteDense, DeleteLexical,
         DeleteFails, DeleteRows, Dies, history
<1>2. at \in [Requests -> KbStages] /\ job = [q \in Requests |-> job[q]]
  BY DEF KbInv, KbTypeOK
<1>3. \A q \in Requests : at'[q] \in SyncStages =>
         at[q] \in SyncStages /\ job'[q].key = job[q].key /\ job'[q].text = job[q].text
  <2>1. \/ Done(r)
        \/ /\ job' = job
           /\ \/ (Goto(r, "dense") \/ Goto(r, "lexical")) /\ at[r] \in SyncStages
              \/ Goto(r, "undense") \/ Goto(r, "unlexical")
    BY DEF Sync, Embed, SyncDense, SyncLexical, SyncFails, Unsync, DeleteDense, DeleteLexical,
           DeleteFails, DeleteRows, Dies, SyncStages
  <2> QED
    BY <1>2, <2>1 DEF Done, Goto, SyncStages
<1>4. /\ dense' \subseteq dense
         \/ (at[r] \in SyncStages /\ dense' = Upserted(dense, PointsOf(job[r])))
      /\ lexical' \subseteq lexical
         \/ (at[r] \in SyncStages /\ lexical' = Upserted(lexical, PointsOf(job[r])))
  BY DEF Sync, Embed, SyncDense, SyncLexical, SyncFails, Unsync, DeleteDense, DeleteLexical,
         DeleteFails, DeleteRows, Dies, stores, SyncStages, Without, WithoutIds
<1>5. Committed(dense)' /\ Committed(lexical)'
  <2>1. CASE at[r] \in SyncStages
    BY <1>1, <1>4, <2>1, FiledIsCommitted DEF Committed, FindInv
  <2>2. CASE at[r] \notin SyncStages
    BY <1>1, <1>4, <2>2, StoresKept
  <2> QED
    BY <2>1, <2>2
<1> QED
  BY <1>1, <1>3, <1>5, JobsKept, FindKept

\* A ranking is a list of the points it ranks.
LEMMA RankingIs ==
    ASSUME NEW points, NEW hits \in Rankings(points)
    PROVE  \E n \in Nat : hits \in [1 .. n -> points]
<1>1. PerArm \in Nat
  BY FusionAssumption
<1> QED
  BY <1>1 DEF Rankings, SeqOf

LEMMA SearchLexicalFinds ==
    ASSUME FindInv, KbInv, NEW t, NEW v, SearchLexical(t, v)
    PROVE  FindInv'
<1>1. /\ UNCHANGED <<stores, request, found, history>> /\ DOMAIN found = {}
  BY DEF SearchLexical
<1>2. dense' = dense /\ lexical' = lexical /\ wrote' = wrote /\ at' = at /\ job' = job
      /\ found' = found
  BY <1>1 DEF stores, request, history
<1>3. PICK hits \in Rankings(ScopedTo(lexical, t, v)) :
          seek' = [tenant |-> t, vertical |-> v,
                   sparse |-> [i \in DOMAIN hits |->
                      [chunk |-> hits[i].chunk, text |-> hits[i].text, score |-> Unscored]]]
  BY DEF SearchLexical
<1>4. PICK n \in Nat : hits \in [1 .. n -> ScopedTo(lexical, t, v)]
  BY RankingIs
<1>5. \A i \in 1 .. n : /\ hits[i].tenant = t /\ hits[i].chunk \in ChunksOfKeys
                        /\ hits[i].chunk[1][1] = t
                        /\ <<t, hits[i].chunk, hits[i].text>> \in wrote
  BY <1>4 DEF ScopedTo, FindInv, Committed, KbInv, PointsOK, Filed
<1> DEFINE hit(i) == [chunk |-> hits[i].chunk, text |-> hits[i].text, score |-> Unscored]
           list   == [i \in 1 .. n |-> hit(i)]
<1>6. seek'.tenant = t /\ seek'.sparse = list
  BY <1>3, <1>4
<1>7. \A i \in 1 .. n : hit(i).chunk = hits[i].chunk /\ hit(i).text = hits[i].text
  OBVIOUS
<1> HIDE DEF hit
<1>8. list \in Seq(Range(list)) /\ DOMAIN list = 1 .. n /\ \A i \in 1 .. n : list[i] = hit(i)
  BY DEF Range
<1> HIDE DEF list
<1>9. SparseOK'
  BY <1>2, <1>5, <1>6, <1>7, <1>8 DEF SparseOK
<1>10. SearchIsSound'
  BY <1>1, <1>2 DEF SearchIsSound, AnsweredFromItsOwn, FoundInAgreement, AgreementOutranks
<1>11. Committed(dense)' /\ Committed(lexical)' /\ \A r \in Requests : JobCommitted(r)'
  BY <1>2 DEF FindInv, Committed, JobCommitted
<1> QED
  BY <1>9, <1>10, <1>11 DEF FindInv

LEMMA SearchDenseFinds == ASSUME FindInv, KbInv, SearchDense PROVE FindInv'
<1>1. UNCHANGED <<stores, request, history>>
  BY DEF SearchDense
<1>2. dense' = dense /\ lexical' = lexical /\ wrote' = wrote /\ at' = at /\ job' = job
  BY <1>1 DEF stores, request, history
<1> DEFINE t == seek.tenant
           s == seek.sparse
<1>3. /\ s \in Seq(Range(s))
      /\ \A i \in DOMAIN s : /\ s[i].chunk \in ChunksOfKeys /\ s[i].chunk[1][1] = t
                             /\ <<t, s[i].chunk, s[i].text>> \in wrote
  BY DEF FindInv, SparseOK
<1>4. \E d : /\ found' = Fuse(d, s).hits
             /\ d = Missing \/ d \in Seq(Range(d))
             /\ d # Missing => \A i \in DOMAIN d : /\ d[i].chunk \in ChunksOfKeys
                                                   /\ d[i].chunk[1][1] = t /\ d[i].text = NoText
  <2>1. CASE found' = Fuse(Missing, s).hits
    BY <2>1
  <2>2. ASSUME NEW hits \in Rankings(ScopedTo(dense, t, seek.vertical)), NEW best \in Scores,
               found' = Fuse([i \in DOMAIN hits |->
                                [chunk |-> hits[i].chunk, text |-> NoText, score |-> best]], s).hits
        PROVE  \E d : /\ found' = Fuse(d, s).hits /\ d \in Seq(Range(d))
                      /\ \A i \in DOMAIN d : /\ d[i].chunk \in ChunksOfKeys
                                             /\ d[i].chunk[1][1] = t /\ d[i].text = NoText
    <3>1. PICK n \in Nat : hits \in [1 .. n -> ScopedTo(dense, t, seek.vertical)]
      BY RankingIs
    <3>2. \A i \in 1 .. n : hits[i].chunk \in ChunksOfKeys /\ hits[i].chunk[1][1] = t
      BY <3>1 DEF ScopedTo, KbInv, PointsOK, Filed
    <3> DEFINE hit(i) == [chunk |-> hits[i].chunk, text |-> NoText, score |-> best]
               d      == [i \in 1 .. n |-> hit(i)]
    <3>3. \A i \in 1 .. n : hit(i).chunk = hits[i].chunk /\ hit(i).text = NoText
      OBVIOUS
    <3>4. found' = Fuse(d, s).hits
      BY <2>2, <3>1
    <3> HIDE DEF hit
    <3>5. d \in Seq(Range(d)) /\ DOMAIN d = 1 .. n /\ \A i \in 1 .. n : d[i] = hit(i)
      BY DEF Range
    <3> HIDE DEF d
    <3> QED
      BY <3>2, <3>3, <3>4, <3>5
  <2> QED
    BY <2>1, <2>2 DEF SearchDense
<1>5. PICK d, held, asker, hits :
         /\ held = s /\ asker = t /\ hits = found' /\ hits = Fuse(d, held).hits
         /\ d = Missing \/ d \in Seq(Range(d))
         /\ d # Missing => \A i \in DOMAIN d : /\ d[i].chunk \in ChunksOfKeys
                                               /\ d[i].chunk[1][1] = asker /\ d[i].text = NoText
  BY <1>4
<1> DEFINE S == Range(held) \cup Range(d)
<1>6. held \in Seq(S) /\ (d = Missing \/ d \in Seq(S))
  BY <1>3, <1>5
<1> HIDE DEF S
<1>7. AgreementOutranks(hits) /\ Quoted(hits, held, asker)
  <2>1. \A i \in DOMAIN held : held[i].chunk \in ChunksOfKeys /\ held[i].chunk[1][1] = asker
    BY <1>3, <1>5
  <2> QED
    BY <1>5, <1>6, <2>1, FusedAre
<1>8. \A i \in DOMAIN found' :
         /\ found'[i].chunk[1][1] = seek.tenant
         /\ found'[i].text # NoText => <<seek.tenant, found'[i].chunk, found'[i].text>> \in wrote
  <2>1. \A j \in DOMAIN held : <<asker, held[j].chunk, held[j].text>> \in wrote
    BY <1>3, <1>5
  <2>2. ASSUME NEW i \in DOMAIN hits
        PROVE  /\ hits[i].chunk[1][1] = asker
               /\ hits[i].text # NoText => <<asker, hits[i].chunk, hits[i].text>> \in wrote
    <3>1. hits[i].text # NoText => \E j \in DOMAIN held :
              held[j].chunk = hits[i].chunk /\ held[j].text = hits[i].text
      BY <1>7 DEF Quoted
    <3>2. hits[i].chunk[1][1] = asker
      BY <1>7 DEF Quoted
    <3> QED
      BY <2>1, <3>1, <3>2
  <2>3. hits = found' /\ asker = seek.tenant
    BY <1>5
  <2> HIDE DEF t, s
  <2> QED
    BY <2>2, <2>3
<1>9. AgreementOutranks(found')
  BY <1>5, <1>7 DEF AgreementOutranks
<1> HIDE DEF t, s
<1>10. CASE found' = <<>>
  <2>1. DOMAIN found' = {} /\ seek' = NoSearch
    BY <1>10 DEF SearchDense
  <2>2. seek'.sparse = <<>> /\ DOMAIN seek'.sparse = {}
    BY <2>1, NothingSought
  <2>3. SparseOK'
    BY <2>2 DEF SparseOK
  <2>4. SearchIsSound'
    BY <1>9, <2>1 DEF SearchIsSound, AnsweredFromItsOwn, FoundInAgreement
  <2> QED
    BY <1>2, <2>3, <2>4 DEF FindInv, Committed, JobCommitted
<1>11. CASE found' # <<>>
  <2>1. seek' = seek
    BY <1>11 DEF SearchDense
  <2>2. SparseOK'
    BY <1>2, <2>1 DEF FindInv, SparseOK
  <2>3. AnsweredFromItsOwn'
    BY <1>2, <1>8, <2>1 DEF AnsweredFromItsOwn
  <2>4. SearchIsSound'
    BY <1>9, <2>3 DEF SearchIsSound, FoundInAgreement
  <2> QED
    BY <1>2, <2>2, <2>4 DEF FindInv, Committed, JobCommitted
<1> QED
  BY <1>10, <1>11

LEMMA GroundedFinds == ASSUME FindInv, Grounded PROVE FindInv'
<1>1. /\ dense' = dense /\ lexical' = lexical /\ wrote' = wrote /\ at' = at /\ job' = job
      /\ found' = <<>> /\ seek' = NoSearch
  BY DEF Grounded, stores, request, history
<1>2. DOMAIN found' = {} /\ seek'.sparse = <<>> /\ DOMAIN seek'.sparse = {}
  BY <1>1, NothingSought
<1>3. SparseOK' /\ SearchIsSound'
  BY <1>2 DEF SparseOK, SearchIsSound, AnsweredFromItsOwn, FoundInAgreement, AgreementOutranks
<1> QED
  BY <1>1, <1>3 DEF FindInv, Committed, JobCommitted

\* A search is sound (retrieval/fusion.py, vectors.py, lexical.py), between whatever uploads
\* and removals: every passage is of a chunk of the tenant that asked, in words that tenant
\* committed for it, and what both arms found comes first.
THEOREM SearchStaysSound == KbSpec => []SearchIsSound
<1>1. KbInit => KbInv /\ FindInv
  BY InitStores, FindStarts
<1>2. KbInv /\ FindInv /\ [KbNext]_kbVars => KbInv' /\ FindInv'
  <2> SUFFICES ASSUME KbInv, FindInv, [KbNext]_kbVars PROVE FindInv'
    BY StoresStep
  <2>1. CASE Searching
    BY <2>1, SearchLexicalFinds, SearchDenseFinds, GroundedFinds DEF Searching
  <2>2. CASE \E r \in Requests :
                Console(r) \/ WriteRows(r) \/ DeleteRows(r) \/ Sync(r) \/ Unsync(r) \/ Dies(r)
    BY <2>2, UploadFinds, WriteRowsFinds, SyncFinds
  <2>3. CASE UNCHANGED kbVars
    <3>1. /\ dense' = dense /\ lexical' = lexical /\ wrote' = wrote /\ at' = at /\ job' = job
          /\ UNCHANGED search
      BY <2>3 DEF kbVars, stores, request, history
    <3> QED
      BY <3>1, StoresKept, JobsKept, FindKept
  <2> QED
    BY <2>1, <2>2, <2>3 DEF KbNext
<1>3. FindInv => SearchIsSound
  BY DEF FindInv
<1> QED
  BY <1>1, <1>2, <1>3, PTL DEF KbSpec
-----------------------------------------------------------------------------
\* What the engine decided: how often it has asked by now, and only for what it lacks.
DecisionOK(d) ==
    /\ d.action \in {"answer", "clarify", "handoff", "refuse"}
    /\ {"slots", "count"} \subseteq DOMAIN d.state
    /\ d.state.count = IF d.action = "clarify" THEN state.count + 1 ELSE 0
    /\ d.missing \cap DOMAIN d.state.slots = {}
    /\ d.missing = {} => d.ask = None

\* What a turn holds by the time it gets where it is.
Fields == {"at", "message", "read", "searches", "failed", "lang", "decision", "completion",
           "calls", "sent", "before", "usage", "audit"}
HeldOK(t) ==
    /\ DOMAIN t = Fields /\ t.searches \in Seq(Retrievals)
    /\ t.at # "idle" => t.message \in Messages /\ t.sent \subseteq ClearOf(t.message)
PlacedOK(t) ==
    /\ t.at \in {"requery", "decide", "resolve", "check", "send"} => t.searches # <<>>
    /\ t.at \in {"resolve", "check", "send"} => DecisionOK(t.decision)
    /\ t.at \in {"check", "send"} => t.decision.action = "answer"

\* What the last turn left behind.
CountOK == {"slots", "count"} \subseteq DOMAIN state /\ state.count = asked
AsksOK  == result.reply.key = "clarify" => result.reply.asks \cap DOMAIN state.slots = {}

DlgInv == HeldOK(turn) /\ PlacedOK(turn) /\ CountOK /\ AsksOK /\ OnlyGroundedFigures
-----------------------------------------------------------------------------
LEMMA Justified ==
    /\ \A i \in DOMAIN Script.nodes :
          Script.nodes[i].action \in {"answer", "clarify", "handoff", "refuse"}
    /\ \A m \in Messages : \A i \in DOMAIN m.matches :
          /\ m.matches[i].from \in Int /\ m.matches[i].to \in Int
          /\ m.matches[i].from < m.matches[i].to
    /\ \A m \in Messages : m.matches \in Seq(Range(m.matches))
    /\ \A r \in Retrievals : r.passages \in Seq(Range(r.passages)) /\ r.sources = r.passages
    /\ Nothing \notin {"inventory", "calculator", "chunk", "script"}
  BY DialogueAssumption DEF Range

\* The matches of a text are taken one after the other, so which are taken is settled.
LEMMA SomeAreTaken ==
    ASSUME NEW S, NEW matches \in Seq(S)
    PROVE  \E taken \in SUBSET DOMAIN matches : Taken(matches, taken)
<1> DEFINE n       == Len(matches)
           Over(i, j) == Overlaps(matches[i], matches[j])
           P(m, T) == T \subseteq 1 .. m /\ \A i \in 1 .. m :
                         i \in T <=> \A j \in T : j < i => ~Over(i, j)
           Short   == {m \in Nat : m <= n /\ ~ \E T \in SUBSET (1 .. m) : P(m, T)}
           R       == OpToRel(<, Nat)
<1>1. n \in Nat /\ DOMAIN matches = 1 .. n
  OBVIOUS
<1>2. IsWellFoundedOn(R, Nat)
  BY NatLessThanWellFounded
<1>5. \A x, y \in Nat : x < y => <<x, y>> \in R
  BY DEF OpToRel
<1> HIDE DEF n, R, Over
<1>3. \A m \in Nat : m <= n => \E T \in SUBSET (1 .. m) : P(m, T)
  <2> SUFFICES ASSUME NEW k \in Nat, k <= n, ~ \E T \in SUBSET (1 .. k) : P(k, T) PROVE FALSE
    OBVIOUS
  <2>0. k \in Short
    OBVIOUS
  <2>1. PICK m \in Short : \A w \in Short : ~ (<<w, m>> \in R)
    <3>1. Short \subseteq Nat /\ Short # {}
      BY <2>0
    <3> HIDE DEF Short
    <3> QED
      BY <1>2, <3>1, WFMin
  <2>2. m # 0
    <3> SUFFICES ASSUME m = 0 PROVE FALSE
      OBVIOUS
    <3>1. P(0, {}) /\ {} \in SUBSET (1 .. 0)
      OBVIOUS
    <3> QED
      BY <2>1, <3>1
  <2>3. m - 1 \in Nat /\ m - 1 < m /\ m - 1 <= n /\ m \in Nat
    BY <1>1, <2>1, <2>2
  <2>4. m - 1 \notin Short
    BY <1>5, <2>1, <2>3
  <2>5. PICK T \in SUBSET (1 .. (m - 1)) : P(m - 1, T)
    BY <2>3, <2>4
  <2> DEFINE U == IF \A j \in T : ~Over(m, j) THEN T \cup {m} ELSE T
  <2>6. U \in SUBSET (1 .. m)
    BY <2>3
  <2>7. ASSUME NEW i \in 1 .. m PROVE i \in U <=> \A j \in U : j < i => ~Over(i, j)
    <3>1. CASE i = m
      <4>1. \A j \in T : j < i
        BY <2>3, <3>1
      <4>2. m \notin T
        BY <2>3
      <4> QED
        BY <2>3, <3>1, <4>1, <4>2
    <3>2. CASE i # m
      <4>1. i \in 1 .. (m - 1) /\ ~ (m < i)
        BY <2>3, <2>7, <3>2
      <4>2. i \in T <=> \A j \in T : j < i => ~Over(i, j)
        BY <2>5, <4>1
      <4>3. i \in U <=> i \in T
        BY <3>2
      <4> QED
        BY <4>1, <4>2, <4>3
    <3> QED
      BY <3>1, <3>2
  <2>8. P(m, U)
    BY <2>6, <2>7
  <2> QED
    BY <2>1, <2>6, <2>8
<1>4. PICK T \in SUBSET (1 .. n) : P(n, T)
  <2>1. n \in Nat /\ n <= n
    BY <1>1
  <2> QED
    BY <1>3, <2>1
<1> QED
  BY <1>1, <1>4 DEF Taken, Over

\* Of everything a pattern matched, something is cut out.
LEMMA SomethingIsCut ==
    ASSUME NEW m \in Messages, NEW hit \in Range(m.matches)
    PROVE  ~(hit.from..(hit.to - 1) \subseteq ClearOf(m))
<1> DEFINE T == CHOOSE taken \in SUBSET DOMAIN m.matches : Taken(m.matches, taken)
<1>1. T \in SUBSET DOMAIN m.matches /\ Taken(m.matches, T)
  <2>1. \E taken \in SUBSET DOMAIN m.matches : Taken(m.matches, taken)
    BY Justified, SomeAreTaken
  <2> QED
    BY <2>1
<1>2. RedactedSpans(m.matches) = {m.matches[i] : i \in T}
  BY DEF RedactedSpans
<1> HIDE DEF T
<1>3. PICK i \in DOMAIN m.matches : hit = m.matches[i]
  BY DEF Range
<1>4. hit.from \in Int /\ hit.to \in Int /\ hit.from < hit.to
  BY <1>3, Justified
<1>5. \A j \in T : \A x \in m.matches[j].from..(m.matches[j].to - 1) : x \notin ClearOf(m)
  BY <1>2 DEF ClearOf
<1>6. CASE i \in T
  <2>1. hit.from \in hit.from..(hit.to - 1)
    BY <1>4
  <2> QED
    BY <1>3, <1>5, <1>6, <2>1
<1>7. CASE i \notin T
  <2>1. PICK j \in T : Overlaps(hit, m.matches[j])
    BY <1>1, <1>3, <1>7 DEF Taken
  <2> DEFINE own == m.matches[j]
  <2>2. own.from \in Int /\ own.to \in Int /\ own.from < own.to
    BY <1>1, Justified
  <2>3. hit.from < own.to /\ own.from < hit.to
    BY <2>1 DEF Overlaps
  <2> DEFINE x == IF own.from <= hit.from THEN hit.from ELSE own.from
  <2>4. x \in hit.from..(hit.to - 1) /\ x \in own.from..(own.to - 1)
    BY <1>4, <2>2, <2>3
  <2> HIDE DEF x
  <2> QED
    BY <1>5, <2>4
<1> QED
  BY <1>6, <1>7
-----------------------------------------------------------------------------
\* The engine counts a question, and asks for no slot that is filled.
LEMMA DecisionIsOK ==
    ASSUME NEW read, {"slots", "count"} \subseteq DOMAIN state,
           Advance(Script, state, read) # Raised
    PROVE  DecisionOK(Advance(Script, state, read))
<1> DEFINE name == ChosenNode(Script, state, read)
           gone == read.cleared \cup Stale(Script, state.slots, read.slots)
           said == WithSlots(state.slots, read.slots, gone)
           held == [state EXCEPT !.slots = said]
           node == NodeOf(Script, name)
           missing == {s \in node.requires : s \notin DOMAIN held.slots}
           d    == Decide(Script, held, read, name)
<1>1. Advance(Script, state, read) = d /\ name \in NodeNames(Script) /\ d # Raised
  BY DEF Advance, Pinned
<1>2. {"slots", "count"} \subseteq DOMAIN held /\ held.count = state.count
  OBVIOUS
<1>3. node.action \in {"answer", "clarify", "handoff", "refuse"}
  <2>1. \E i \in DOMAIN Script.nodes : Script.nodes[i].name = name
    BY <1>1 DEF NodeNames
  <2>2. \E i \in DOMAIN Script.nodes : node = Script.nodes[i]
    BY <2>1 DEF NodeOf
  <2> QED
    BY <2>2, Justified
<1> HIDE DEF name, said, gone, held, node
<1>4. \A x, k : LET s == [held EXCEPT !.node = x, !.count = k]
                IN  {"slots", "count"} \subseteq DOMAIN s /\ s.count = k /\ s.slots = held.slots
  BY <1>2
<1>5. ASSUME NEW x, NEW lacks, NEW gate, lacks \cap DOMAIN held.slots = {}
      PROVE  DecisionOK(Clarify(Script, held, x, lacks, gate))
  <2> DEFINE c == Clarify(Script, held, x, lacks, gate)
  <2>1. /\ c.action = "clarify" /\ c.missing = lacks /\ (lacks = {} => c.ask = None)
        /\ c.state = [held EXCEPT !.node = x, !.count = held.count + 1]
    BY DEF Clarify, Decision, Counted
  <2> HIDE DEF c
  <2>2. {"slots", "count"} \subseteq DOMAIN c.state /\ c.state.count = state.count + 1
        /\ c.state.slots = held.slots
    BY <2>1, <1>2, <1>4
  <2>3. DecisionOK(c)
    BY <2>1, <2>2, <1>5 DEF DecisionOK
  <2> QED
    BY <2>3 DEF c
<1>6. ASSUME NEW action \in {"answer", "handoff", "refuse"}, NEW x, NEW e,
             e.action = action, e.state = ResetCount(held, x), e.missing = {}, e.ask = None
      PROVE  DecisionOK(e)
  <2>1. {"slots", "count"} \subseteq DOMAIN e.state /\ e.state.count = 0
    BY <1>4, <1>6 DEF ResetCount
  <2> QED
    BY <2>1, <1>6 DEF DecisionOK
<1>7. CASE read.human \/ AtLimit(Script, held) \/ node.action = "handoff"
  <2>1. d = Handoff(held, name)
    BY <1>7 DEF Decide, node
  <2>2. d.action = "handoff" /\ d.state = ResetCount(held, name) /\ d.missing = {} /\ d.ask = None
    BY <2>1 DEF Handoff, Decision
  <2> HIDE DEF d
  <2> QED
    BY <1>1, <1>6, <2>2
<1>8. CASE ~(read.human \/ AtLimit(Script, held) \/ node.action = "handoff")
  <2>1. CASE missing # {}
    <3>1. d = Clarify(Script, held, name, missing, FALSE)
      BY <1>8, <2>1 DEF Decide, node
    <3> QED
      BY <1>1, <1>5, <3>1
  <2>2. CASE missing = {} /\ node.any # {} /\ node.any \cap DOMAIN held.slots = {}
    <3>1. d = Clarify(Script, held, name, node.any, FALSE)
      BY <1>8, <2>2 DEF Decide, node
    <3> QED
      BY <1>1, <1>5, <2>2, <3>1
  <2>3. CASE missing = {} /\ ~(node.any # {} /\ node.any \cap DOMAIN held.slots = {})
    <3>1. CASE node.action = "answer" /\ GateShut(read)
      <4>1. d = IF Fallback \in NodeNames(Script)
                THEN Clarify(Script, held, Fallback, {}, TRUE) ELSE Raised
        BY <1>8, <2>3, <3>1 DEF Decide, node
      <4>2. d = Clarify(Script, held, Fallback, {}, TRUE)
        BY <1>1, <4>1
      <4> QED
        BY <1>1, <1>5, <4>2
    <3>2. CASE ~(node.action = "answer" /\ GateShut(read)) /\ node.action = "clarify"
      <4>1. d = Clarify(Script, held, name, {}, FALSE)
        BY <1>8, <2>3, <3>2 DEF Decide, node
      <4> QED
        BY <1>1, <1>5, <4>1
    <3>3. CASE ~(node.action = "answer" /\ GateShut(read)) /\ node.action # "clarify"
      <4>1. d = [Decision(node.action, name, ResetCount(held, name)) EXCEPT
                    !.grounding = node.grounding]
        BY <1>8, <2>3, <3>3 DEF Decide, node
      <4>2. /\ d.action = node.action /\ d.state = ResetCount(held, name)
            /\ d.missing = {} /\ d.ask = None
        BY <4>1 DEF Decision
      <4>3. node.action \in {"answer", "handoff", "refuse"}
        BY <1>3, <3>3
      <4> HIDE DEF d
      <4> QED
        BY <1>1, <1>6, <4>2, <4>3
    <3> QED
      BY <3>1, <3>2, <3>3
  <2> QED
    BY <2>1, <2>2, <2>3
<1> QED
  BY <1>7, <1>8
-----------------------------------------------------------------------------
LEMMA DlgStarts == ASSUME Init PROVE DlgInv
<1>1. turn = Idle /\ state = StartState(Script) /\ result = NoResult /\ asked = 0
  BY DEF Init
<1>2. HeldOK(turn) /\ PlacedOK(turn)
  BY <1>1 DEF Idle, HeldOK, PlacedOK, Fields
<1>3. CountOK
  BY <1>1 DEF StartState, CountOK
<1>4. result.reply.key = "none" /\ ~result.composed
  BY <1>1 DEF NoResult, Nobody, Outcome, NoReply, Reply
<1> QED
  BY <1>2, <1>3, <1>4 DEF DlgInv, AsksOK, OnlyGroundedFigures

\* A step inside a turn.
LEMMA GoesOn ==
    ASSUME DlgInv, HeldOK(turn)', PlacedOK(turn'), UNCHANGED <<state, result, asked>>
    PROVE  DlgInv'
<1>1. PlacedOK(turn)'
  BY DEF PlacedOK, DecisionOK
<1>2. CountOK' /\ AsksOK' /\ OnlyGroundedFigures'
  BY DEF DlgInv, CountOK, AsksOK, OnlyGroundedFigures
<1> QED
  BY <1>1, <1>2 DEF DlgInv

\* A step that ends one.
LEMMA EndsThere ==
    ASSUME DlgInv, turn' = Idle, CountOK', AsksOK', OnlyGroundedFigures'
    PROVE  DlgInv'
<1>1. (HeldOK(turn) /\ PlacedOK(turn))'
  BY DEF Idle, HeldOK, PlacedOK, Fields
<1> QED
  BY <1>1 DEF DlgInv

LEMMA KilledInv == ASSUME DlgInv, NEW why, Killed(why) PROVE DlgInv'
<1>1. turn' = Idle /\ state' = state /\ asked' = asked /\ result' = Nobody(why)
  BY DEF Killed
<1>2. result'.reply.key = "none" /\ ~result'.composed
  BY <1>1 DEF Nobody, Outcome, NoReply, Reply
<1>3. CountOK' /\ AsksOK' /\ OnlyGroundedFigures'
  BY <1>1, <1>2 DEF DlgInv, CountOK, AsksOK, OnlyGroundedFigures
<1> QED
  BY <1>1, <1>3, EndsThere

LEMMA ReceiveInv == ASSUME DlgInv, NEW m \in Messages, Receive(m) PROVE DlgInv'
<1>1. /\ turn' = [Idle EXCEPT !.at = "gather", !.message = m, !.before = ledger]
      /\ state' = state /\ asked' = asked /\ result' = NoResult
  BY DEF Receive
<1>2. HeldOK(turn)' /\ PlacedOK(turn)'
  BY <1>1 DEF Idle, HeldOK, PlacedOK, Fields
<1>3. result'.reply.key = "none" /\ ~result'.composed
  BY <1>1 DEF NoResult, Nobody, Outcome, NoReply, Reply
<1>4. CountOK' /\ AsksOK' /\ OnlyGroundedFigures'
  BY <1>1, <1>3 DEF DlgInv, CountOK, AsksOK, OnlyGroundedFigures
<1> QED
  BY <1>2, <1>4 DEF DlgInv

\* What a step leaves of a turn whose message it has still to answer.
Same(t)  == DOMAIN t = Fields /\ t.message = turn.message
Sends(t) == t.sent \in {turn.sent, turn.sent \cup ClearText}

LEMMA HeldStill ==
    ASSUME HeldOK(turn), turn.at # "idle", NEW t, Same(t), Sends(t), t.searches \in Seq(Retrievals)
    PROVE  HeldOK(t)
  BY DEF HeldOK, Same, Sends, ClearText

LEMMA ExtractInv == ASSUME DlgInv, Extract PROVE DlgInv'
<1>1. turn.at = "gather" /\ HeldOK(turn) /\ UNCHANGED <<state, result, asked>>
  BY DEF Extract, DlgInv
<1>2. DOMAIN turn = Fields /\ turn.searches \in Seq(Retrievals)
  BY <1>1 DEF HeldOK
<1> DEFINE Read(t) == Same(t) /\ Sends(t) /\ t.at = "gather" /\ t.searches = turn.searches
<1>3. ASSUME NEW why, turn' = [Failing1(why) EXCEPT !.read = Refused] PROVE Read(turn')
  BY <1>1, <1>2, <1>3 DEF Failing1, Same, Sends, Fields
<1>4. ASSUME NEW doc \in turn.message.docs,
             LET read   == Parse(doc, Script, Specs, Catalogue)
                 called == Calling(Extracting)
             IN  turn' = IF read = Refused THEN [called EXCEPT !.read = read, !.failed = "unread"]
                         ELSE [called EXCEPT !.read = read, !.usage = Extracting]
      PROVE Read(turn')
  <2> DEFINE read == Parse(doc, Script, Specs, Catalogue)
  <2> HIDE DEF read
  <2>1. \/ turn' = [Calling(Extracting) EXCEPT !.read = read, !.failed = "unread"]
        \/ turn' = [Calling(Extracting) EXCEPT !.read = read, !.usage = Extracting]
    BY <1>4 DEF read
  <2> QED
    BY <1>1, <1>2, <2>1 DEF Calling, Same, Sends, Fields
<1>5. Read(turn')
  BY <1>3, <1>4 DEF Extract
<1>6. HeldOK(turn') /\ PlacedOK(turn')
  BY <1>1, <1>2, <1>5, HeldStill DEF PlacedOK
<1> QED
  BY <1>1, <1>6, GoesOn DEF HeldOK

LEMMA SearchedIs ==
    ASSUME HeldOK(turn), turn.at # "idle", NEW r \in Retrievals
    PROVE  LET t == Searched(r)
           IN  /\ Same(t) /\ Sends(t) /\ t.at = turn.at /\ t.searches = Append(turn.searches, r)
               /\ t.searches \in Seq(Retrievals) /\ t.searches # <<>>
<1>1. DOMAIN turn = Fields /\ turn.searches \in Seq(Retrievals)
  BY DEF HeldOK
<1>2. \E c \in {turn, Calling(Embedding)} :
          Searched(r) = [c EXCEPT !.searches = Append(c.searches, r)]
  BY DEF Searched
<1>3. Append(turn.searches, r) \in Seq(Retrievals) /\ Append(turn.searches, r) # <<>>
  BY <1>1
<1>4. ASSUME NEW c \in {turn, Calling(Embedding)}
      PROVE  Same(c) /\ Sends(c) /\ c.at = turn.at /\ c.searches = turn.searches
  BY <1>1 DEF Calling, Same, Sends, Fields
<1>5. ASSUME NEW c, NEW more, Same(c), Sends(c)
      PROVE  LET t == [c EXCEPT !.searches = more]
             IN  Same(t) /\ Sends(t) /\ t.at = c.at /\ t.searches = more
  BY <1>5 DEF Same, Sends, Fields
<1> DEFINE more == Append(turn.searches, r)
<1>6. PICK c \in {turn, Calling(Embedding)} :
          Searched(r) = [c EXCEPT !.searches = Append(c.searches, r)]
  BY <1>2
<1>7. Same(c) /\ Sends(c) /\ c.at = turn.at /\ c.searches = turn.searches
  BY <1>4
<1>8. Searched(r) = [c EXCEPT !.searches = more]
  BY <1>6, <1>7
<1> HIDE DEF more
<1>9. /\ Same(Searched(r)) /\ Sends(Searched(r)) /\ Searched(r).at = turn.at
      /\ Searched(r).searches = more
  BY <1>5, <1>7, <1>8
<1> QED
  BY <1>3, <1>9 DEF more

LEMMA SearchInv == ASSUME DlgInv, Search PROVE DlgInv'
<1>1. turn.at = "gather" /\ HeldOK(turn) /\ UNCHANGED <<state, result, asked>>
  BY DEF Search, DlgInv
<1>2. DOMAIN turn = Fields /\ turn.searches \in Seq(Retrievals)
  BY <1>1 DEF HeldOK
<1>3. Same(turn') /\ Sends(turn') /\ turn'.at = "gather" /\ turn'.searches \in Seq(Retrievals)
  <2>1. CASE turn' = Failing1("embedding")
    BY <1>1, <1>2, <2>1 DEF Failing1, Same, Sends, Fields
  <2>2. CASE \E r \in Retrievals : turn' = Searched(r)
    BY <1>1, <2>2, SearchedIs
  <2> QED
    BY <2>1, <2>2 DEF Search
<1>4. HeldOK(turn') /\ PlacedOK(turn')
  BY <1>1, <1>3, HeldStill DEF PlacedOK
<1> QED
  BY <1>1, <1>4, GoesOn DEF HeldOK

LEMMA ResumeInv == ASSUME DlgInv, Resume PROVE DlgInv'
<1>1. /\ turn.at = "gather" /\ turn.searches # <<>> /\ HeldOK(turn)
      /\ UNCHANGED <<state, result, asked>>
  BY DEF Resume, DlgInv
<1>2. DOMAIN turn = Fields /\ turn.searches \in Seq(Retrievals)
  BY <1>1 DEF HeldOK
<1>3. \E stage \in {"requery", "decide"} : turn' = [turn EXCEPT !.at = stage]
  BY DEF Resume
<1>4. /\ Same(turn') /\ Sends(turn') /\ turn'.at \in {"requery", "decide"}
      /\ turn'.searches = turn.searches
  BY <1>2, <1>3 DEF Same, Sends, Fields
<1>5. HeldOK(turn') /\ PlacedOK(turn')
  BY <1>1, <1>2, <1>4, HeldStill DEF PlacedOK
<1> QED
  BY <1>1, <1>5, GoesOn DEF HeldOK

LEMMA RequeryInv == ASSUME DlgInv, Requery PROVE DlgInv'
<1>1. turn.at = "requery" /\ HeldOK(turn)
  BY DEF Requery, DlgInv
<1>2. CASE Killed("embedding")
  BY <1>2, KilledInv
<1>3. ASSUME NEW r \in Retrievals, turn' = [Searched(r) EXCEPT !.at = "decide"],
             UNCHANGED <<state, result, asked>>
      PROVE  DlgInv'
  <2> DEFINE t == Searched(r)
  <2>1. Same(t) /\ Sends(t) /\ t.searches \in Seq(Retrievals) /\ t.searches # <<>>
    BY <1>1, SearchedIs
  <2> HIDE DEF t
  <2>2. turn' = [t EXCEPT !.at = "decide"]
    BY <1>3 DEF t
  <2>3. /\ Same(turn') /\ Sends(turn') /\ turn'.at = "decide"
        /\ turn'.searches \in Seq(Retrievals) /\ turn'.searches # <<>>
    BY <2>1, <2>2 DEF Same, Sends, Fields
  <2>4. HeldOK(turn') /\ PlacedOK(turn')
    BY <1>1, <2>3, HeldStill DEF PlacedOK
  <2> QED
    BY <1>3, <2>4, GoesOn DEF HeldOK
<1> QED
  BY <1>2, <1>3 DEF Requery

LEMMA ChooseInv == ASSUME DlgInv, Choose PROVE DlgInv'
<1>1. turn.at = "decide" /\ HeldOK(turn) /\ PlacedOK(turn) /\ CountOK
  BY DEF Choose, DlgInv
<1>2. DOMAIN turn = Fields /\ turn.searches \in Seq(Retrievals) /\ turn.searches # <<>>
  BY <1>1 DEF HeldOK, PlacedOK
<1>3. CASE Decided = Raised
  BY <1>3, KilledInv DEF Choose
<1>4. CASE Decided # Raised
  <2>1. DecisionOK(Decided)
    BY <1>1, <1>4, DecisionIsOK DEF Decided, CountOK
  <2>2. /\ \E lang : turn' = [turn EXCEPT !.at = "resolve", !.decision = Decided, !.lang = lang]
        /\ UNCHANGED <<state, result, asked>>
    BY <1>4 DEF Choose
  <2>3. /\ Same(turn') /\ Sends(turn') /\ turn'.at = "resolve"
        /\ turn'.searches = turn.searches /\ turn'.decision = Decided
    BY <1>2, <2>2 DEF Same, Sends, Fields
  <2>4. HeldOK(turn')
    BY <1>1, <1>2, <2>3, HeldStill
  <2>5. PlacedOK(turn')
    BY <1>2, <2>1, <2>3 DEF PlacedOK
  <2> QED
    BY <2>2, <2>4, <2>5, GoesOn DEF HeldOK
<1> QED
  BY <1>3, <1>4
-----------------------------------------------------------------------------
\* The words of a reply: the slots it asks for are missing, and only a clarification asks.
LEMMA ReplyAsks ==
    ASSUME NEW key, NEW d, DecisionOK(d), NEW lang
    PROVE  LET reply == ReplyText(key, d, lang)
           IN  /\ reply.key = key
               /\ reply.asks \cap DOMAIN d.state.slots = {}
<1>1. AskFor(d) \subseteq d.missing
  <2> DEFINE missing == IF d.missing # {} THEN d.missing ELSE {d.ask} \ {None}
  <2>1. missing = d.missing
    BY DEF DecisionOK
  <2>2. AskFor(d) \subseteq missing
    BY DEF AskFor
  <2> QED
    BY <2>1, <2>2
<1>2. d.missing \cap DOMAIN d.state.slots = {}
  BY DEF DecisionOK
<1>3. \E of, asks, speaks : /\ ReplyText(key, d, lang) = Reply(key, of, asks, speaks)
                           /\ asks \in {{}, AskFor(d)}
  BY DEF ReplyText
<1> QED
  BY <1>1, <1>2, <1>3 DEF Reply

\* A scripted reply, whatever it says and why.
LEMMA ScriptedInv ==
    ASSUME DlgInv, NEW key, NEW lang, NEW degraded, NEW outage, Scripted(key, lang, degraded, outage),
           DecisionOK(turn.decision),
           key \in Clarifying <=> turn.decision.action = "clarify"
    PROVE  DlgInv'
<1> DEFINE d     == turn.decision
           reply == ReplyText(key, d, lang)
<1>1. /\ turn' = Idle /\ state' = d.state
      /\ \E action : result' = Outcome(reply, action, turn.lang, degraded, outage, None)
      /\ \A o : o = result' => asked' = IF o.reply.key \in Clarifying THEN asked + 1 ELSE 0
  BY DEF Scripted, Finish
<1>2. reply.key = key /\ reply.asks \cap DOMAIN d.state.slots = {}
  BY ReplyAsks
<1> HIDE DEF reply
<1>3. result'.reply = reply /\ ~result'.composed
  BY <1>1 DEF Outcome
<1>4. asked' = IF d.action = "clarify" THEN asked + 1 ELSE 0
  BY <1>1, <1>2, <1>3
<1>5. CountOK'
  BY <1>1, <1>4 DEF DlgInv, CountOK, DecisionOK
<1>6. AsksOK' /\ OnlyGroundedFigures'
  BY <1>1, <1>2, <1>3 DEF AsksOK, OnlyGroundedFigures
<1> QED
  BY <1>1, <1>5, <1>6, EndsThere

LEMMA ScriptedReplyInv == ASSUME DlgInv, ScriptedReply PROVE DlgInv'
<1> DEFINE key == NonAnswerKey(turn.decision)
<1>1. DecisionOK(turn.decision) /\ turn.decision.action # "answer"
  BY DEF ScriptedReply, DlgInv, PlacedOK
<1>2. key \in Clarifying <=> turn.decision.action = "clarify"
  BY <1>1 DEF DecisionOK, NonAnswerKey, Clarifying
<1>3. Scripted(key, turn.lang, FALSE, FALSE)
  BY DEF ScriptedReply
<1> HIDE DEF key
<1> QED
  BY <1>1, <1>2, <1>3, ScriptedInv

\* An outage and a discarded reply come after a decision to answer.
LEMMA FailedAnswerInv ==
    ASSUME DlgInv, DecisionOK(turn.decision), turn.decision.action = "answer",
           NEW key \in Failing, NEW lang, NEW degraded, NEW outage, Scripted(key, lang, degraded, outage)
    PROVE  DlgInv'
<1>1. key \in Clarifying <=> turn.decision.action = "clarify"
  BY DEF Clarifying, Failing
<1> QED
  BY <1>1, ScriptedInv

\* A reply to a turn that never reached the engine.
LEMMA ApologyInv ==
    ASSUME DlgInv, NEW key \in {"provider_unavailable", "handoff"}, NEW degraded, NEW outage,
           Finish(Outcome(Plain(key), "handoff", None, degraded, outage, None), state, FALSE)
    PROVE  DlgInv'
<1>1. /\ turn' = Idle /\ state' = state /\ asked' = asked
      /\ result' = Outcome(Plain(key), "handoff", None, degraded, outage, None)
  BY DEF Finish
<1>2. result'.reply.key # "clarify" /\ ~result'.composed
  BY <1>1 DEF Plain, Reply, Outcome
<1>3. CountOK' /\ AsksOK' /\ OnlyGroundedFigures'
  BY <1>1, <1>2 DEF DlgInv, CountOK, AsksOK, OnlyGroundedFigures
<1> QED
  BY <1>1, <1>3, EndsThere

LEMMA ComposeInv == ASSUME DlgInv, Compose PROVE DlgInv'
<1>1. /\ turn.at = "resolve" /\ turn.decision.action = "answer" /\ DecisionOK(turn.decision)
      /\ HeldOK(turn) /\ turn.searches # <<>>
  BY DEF Compose, DlgInv, PlacedOK
<1>2. CASE Scripted("provider_unavailable", turn.message.looks, TRUE, TRUE)
  BY <1>1, <1>2, FailedAnswerInv DEF Failing
<1>3. CASE Killed("rejected")
  BY <1>3, KilledInv
<1>4. ASSUME NEW c \in Completions,
             turn' = [Calling([Composing EXCEPT !.model = c.model]) EXCEPT
                          !.at = "check", !.completion = c],
             UNCHANGED <<state, result, asked>>
      PROVE  DlgInv'
  <2>1. DOMAIN turn = Fields /\ turn.searches \in Seq(Retrievals)
    BY <1>1 DEF HeldOK
  <2>2. /\ Same(turn') /\ Sends(turn') /\ turn'.at = "check"
        /\ turn'.searches = turn.searches /\ turn'.decision = turn.decision
    BY <1>4, <2>1 DEF Calling, Same, Sends, Fields
  <2>3. HeldOK(turn')
    BY <1>1, <2>1, <2>2, HeldStill
  <2>4. PlacedOK(turn')
    BY <1>1, <2>2 DEF PlacedOK
  <2> QED
    BY <1>4, <2>3, <2>4, GoesOn DEF HeldOK
<1> QED
  BY <1>2, <1>3, <1>4 DEF Compose

LEMMA AuditInv == ASSUME DlgInv, AuditFigures PROVE DlgInv'
<1>1. /\ turn.at = "check" /\ turn.decision.action = "answer" /\ DecisionOK(turn.decision)
      /\ HeldOK(turn) /\ turn.searches # <<>> /\ UNCHANGED <<state, result, asked>>
  BY DEF AuditFigures, DlgInv, PlacedOK
<1>2. DOMAIN turn = Fields /\ turn.searches \in Seq(Retrievals)
  BY <1>1 DEF HeldOK
<1>3. \E c \in {turn, [turn EXCEPT !.calls = Append(@, Auditing)]} : \E audit :
          turn' = [c EXCEPT !.at = "send", !.audit = audit]
  BY DEF AuditFigures
<1>4. /\ Same(turn') /\ Sends(turn') /\ turn'.at = "send"
      /\ turn'.searches = turn.searches /\ turn'.decision = turn.decision
  BY <1>2, <1>3 DEF Same, Sends, Fields
<1>5. HeldOK(turn')
  BY <1>1, <1>2, <1>4, HeldStill
<1>6. PlacedOK(turn')
  BY <1>1, <1>4 DEF PlacedOK
<1> QED
  BY <1>1, <1>5, <1>6, GoesOn DEF HeldOK
-----------------------------------------------------------------------------
\* What the gate found in the material is shown with its source.
LEMMA PassageIsFound ==
    ASSUME NEW value, NEW S, NEW held \in Seq(S), NEW p \in Range(held), value \in p.figures
    PROVE  PassageWith(value, held) # 0
<1> DEFINE I == {i \in 1..Len(held) : value \in held[i].figures}
<1>1. PassageWith(value, held) = IF I # {} THEN Min(I) ELSE 0
  BY DEF PassageWith, SelectInSeq, IsGrounded
<1>2. \E i \in DOMAIN held : p = held[i]
  BY DEF Range
<1>3. I # {} /\ I \subseteq Nat /\ 0 \notin I
  BY <1>2
<1> HIDE DEF I
<1>4. Min(I) \in I
  BY <1>3, LeastIsOneOfThem
<1> QED
  BY <1>1, <1>3, <1>4

LEMMA SourceIsShown ==
    ASSUME NEW r \in Retrievals, NEW value, value \in SourceNumbers(r.passages, r.constants)
    PROVE  Trace(value, r.sources, r.constants, <<>>, <<>>).source # Nothing
<1> DEFINE t    == Trace(value, r.sources, r.constants, <<>>, <<>>)
           text == PassageWith(value, r.passages)
<1>1. Holding(value, <<>>) = 0
  BY DEF Holding, SelectInSeq
<1>2. r.passages \in Seq(Range(r.passages)) /\ r.sources = r.passages
  BY Justified
<1>3. text # 0 \/ value \in r.constants
  <2> SUFFICES ASSUME value \notin r.constants PROVE text # 0
    OBVIOUS
  <2>1. value \in UNION {p.figures : p \in Range(r.passages)}
    BY DEF SourceNumbers
  <2>2. PICK p \in Range(r.passages) : value \in p.figures
    BY <2>1
  <2> QED
    BY <1>2, <2>2, PassageIsFound
<1> HIDE DEF text
<1>4. CASE text # 0
  <2>1. t = From("chunk", r.passages[text].id, Excerpt(value, r.passages[text]))
    BY <1>1, <1>2, <1>4 DEF Trace, text
  <2> QED
    BY <2>1, Justified DEF From
<1>5. CASE text = 0
  <2>1. t = From("script", Nothing, {value})
    BY <1>1, <1>2, <1>3, <1>5 DEF Trace, text, IsGrounded
  <2> QED
    BY <2>1, Justified DEF From
<1> QED
  BY <1>4, <1>5

LEMMA SendComposedInv == ASSUME DlgInv, SendComposed PROVE DlgInv'
<1> DEFINE d == turn.decision
           c == turn.completion
<1>1. /\ MaySend(turn.audit) /\ DecisionOK(d) /\ d.action = "answer"
      /\ turn.searches \in Seq(Retrievals) /\ turn.searches # <<>>
  BY DEF SendComposed, DlgInv, HeldOK, PlacedOK
<1>2. Retrieved \in Retrievals
  BY <1>1 DEF Retrieved
<1>3. /\ turn' = Idle /\ state' = d.state
      /\ result'.reply = Reply("composed", {}, {}, Speaks(Registers[d.node], turn.lang))
      /\ result'.figures = c.figures /\ result'.searched = Retrieved /\ result'.gates = turn.audit
      /\ result'.provenance =
            TraceFigures(c.figures, Retrieved.sources, Retrieved.constants, <<>>, <<>>)
  BY DEF SendComposed, Finish
<1>4. result'.reply.key = "composed"
  BY <1>3 DEF Reply
<1>5. asked' = 0
  <2>1. \A o : o = result' => asked' = IF o.reply.key \in Clarifying THEN asked + 1 ELSE 0
    BY DEF SendComposed, Finish
  <2> QED
    BY <1>4, <2>1 DEF Clarifying
<1>6. CountOK'
  BY <1>1, <1>3, <1>5 DEF CountOK, DecisionOK
<1>7. AsksOK'
  BY <1>4 DEF AsksOK
<1>8. OnlyGroundedFigures'
  <2>1. turn.audit.passed /\ NumbersGrounded(c.figures, Retrieved.passages, Retrieved.constants)
    BY <1>1 DEF MaySend
  <2>2. ASSUME NEW i \in DOMAIN c.figures
        PROVE  /\ c.figures[i].value \in SourceNumbers(Retrieved.passages, Retrieved.constants)
               /\ ~c.figures[i].approx
    BY <2>1 DEF NumbersGrounded, IsGrounded, Range
  <2>3. ASSUME NEW i \in DOMAIN c.figures PROVE result'.provenance[i].source # Nothing
    <3>1. result'.provenance[i] =
              Trace(c.figures[i].value, Retrieved.sources, Retrieved.constants, <<>>, <<>>)
      BY <1>3, <2>3 DEF TraceFigures
    <3> QED
      BY <1>2, <2>2, <2>3, <3>1, SourceIsShown
  <2> QED
    BY <1>3, <2>1, <2>2, <2>3 DEF OnlyGroundedFigures
<1> QED
  BY <1>3, <1>6, <1>7, <1>8, EndsThere

LEMMA FailsInv == ASSUME DlgInv, Silence \/ Discard PROVE DlgInv'
<1>1. DecisionOK(turn.decision) /\ turn.decision.action = "answer"
  BY DEF Silence, Discard, DlgInv, PlacedOK
<1>2. CASE Silence
  BY <1>1, <1>2, FailedAnswerInv DEF Silence, Failing
<1>3. CASE Discard
  <2>1. Scripted("grounding_failed", turn.message.looks,
                 turn.completion.degraded \/ turn.audit.degraded, FALSE)
    BY <1>3 DEF Discard
  <2> QED
    BY <1>1, <2>1, FailedAnswerInv DEF Failing
<1> QED
  BY <1>2, <1>3
-----------------------------------------------------------------------------
\* A conversation's turns hold together: the count is of the questions just asked, a decision
\* has counted its own, and nothing is sent but the redacted text (agent/orchestrator.py).
THEOREM DialogueHolds == Spec => []DlgInv
<1>1. Init => DlgInv
  BY DlgStarts
<1>2. DlgInv /\ [Next]_vars => DlgInv'
  <2> SUFFICES ASSUME DlgInv, [Next]_vars PROVE DlgInv'
    OBVIOUS
  <2>1. CASE \E m \in Messages : Receive(m)
    BY <2>1, ReceiveInv
  <2>2. CASE Unavailable
    BY <2>2, ApologyInv DEF Unavailable
  <2>3. CASE BeyondVocabulary
    BY <2>3, ApologyInv DEF BeyondVocabulary
  <2>4. CASE KilledInGather
    BY <2>4, KilledInv DEF KilledInGather
  <2>5. CASE Extract \/ Search \/ Resume \/ Requery \/ Choose
    BY <2>5, ExtractInv, SearchInv, ResumeInv, RequeryInv, ChooseInv
  <2>6. CASE ScriptedReply \/ Compose \/ Silence \/ AuditFigures \/ Discard \/ SendComposed
    BY <2>6, ScriptedReplyInv, ComposeInv, FailsInv, AuditInv, SendComposedInv
  <2>7. CASE UNCHANGED vars
    <3>1. turn' = turn /\ UNCHANGED <<state, result, asked>>
      BY <2>7 DEF vars
    <3>2. HeldOK(turn)' /\ PlacedOK(turn')
      BY <3>1 DEF DlgInv, HeldOK, PlacedOK
    <3> QED
      BY <3>1, <3>2, GoesOn
  <2> QED
    BY <2>1, <2>2, <2>3, <2>4, <2>5, <2>6, <2>7 DEF Next
<1> QED
  BY <1>1, <1>2, PTL DEF Spec

\* No figure reaches a customer that the search behind the reply does not hold exactly
\* (agent/guards.py, orchestrator.py), whatever the model and the auditor answer.
THEOREM FiguresAreGrounded == Spec => []OnlyGroundedFigures
<1>1. DlgInv => OnlyGroundedFigures
  BY DEF DlgInv
<1> QED
  BY <1>1, DialogueHolds, PTL

\* The count that ends in a handover is of the questions a customer was sent in a row,
\* and none asks for what the conversation holds, through every way a turn can fail.
THEOREM QuestionsStayKept == Spec => []QuestionsAreKept
<1>1. DlgInv => QuestionsAreKept
  BY DEF DlgInv, CountOK, AsksOK, QuestionsAreKept, CountsTheQuestions, NeverAsksWhatItHolds
<1> QED
  BY <1>1, DialogueHolds, PTL

\* No provider is given the whole of anything a redaction pattern matched
\* (agent/guards.py: redact), however the matches overlap.
THEOREM MatchesAreCut == Spec => []NoMatchIsSent
<1>1. DlgInv => NoMatchIsSent
  <2> SUFFICES ASSUME DlgInv, turn.at # "idle", NEW m \in Range(turn.message.matches)
               PROVE  ~(m.from..(m.to - 1) \subseteq turn.sent)
    BY DEF NoMatchIsSent
  <2>1. turn.message \in Messages /\ turn.sent \subseteq ClearOf(turn.message)
    BY DEF DlgInv, HeldOK
  <2>2. ~(m.from..(m.to - 1) \subseteq ClearOf(turn.message))
    BY <2>1, SomethingIsCut
  <2> QED
    BY <2>1, <2>2
<1> QED
  BY <1>1, DialogueHolds, PTL
-----------------------------------------------------------------------------
\* How many of a sequence are of a set.
CountIn(seq, S) == Cardinality({i \in DOMAIN seq : seq[i] \in S})
RowsFor(T)      == {Row(u) : u \in T}
LedgerRows == RowsFor(Uses) \cup {Row(Message("message_in")), Row(Message("message_out"))}
Embedded   == {r \in Retrievals : r.tokens > 0}

\* Of each set of uses: what is on the ledger, what turns owe it, and what this turn adds.
Balance(t, book, due, T) ==
    LET on       == CountIn(book, RowsFor(T))
        owing    == CountIn(due, T)
        calls    == CountIn(t.calls, T)
        read     == IF Extracting \in T THEN 1 ELSE 0
        searched == IF Embedding \in T THEN CountIn(t.searches, Embedded) ELSE 0
    IN  /\ t.at \in {"idle", "gather"} => on = owing
        /\ t.at # "idle" => CountIn(t.before, RowsFor(T)) = owing
        /\ t.at = "gather" /\ t.failed = None =>
              calls = searched + (IF t.usage = None THEN 0 ELSE read)
        /\ t.at \in {"requery", "decide"} => calls = read + searched /\ on = owing + read
        /\ t.at \in {"resolve", "check", "send"} => on = owing + calls

Books(t, book, due) ==
    /\ book \in Seq(LedgerRows) /\ due \in Seq(Uses) /\ t.calls \in Seq(Uses)
    /\ t.at # "idle" => t.before \in Seq(LedgerRows)
    /\ t.usage \in {None, Extracting}
    /\ \A T \in SUBSET Uses : Balance(t, book, due, T)

BooksInv == Books(turn, ledger, owed)

LEMMA CountIsNat ==
    ASSUME NEW A, NEW s \in Seq(A), NEW S
    PROVE  /\ CountIn(s, S) \in Nat /\ IsFiniteSet({i \in DOMAIN s : s[i] \in S})
           /\ CountIn(s, S) = 0 <=> \A i \in DOMAIN s : s[i] \notin S
<1> DEFINE D == {i \in DOMAIN s : s[i] \in S}
<1>1. Len(s) \in Nat /\ DOMAIN s = 1 .. Len(s)
  OBVIOUS
<1>2. IsFiniteSet(1 .. Len(s))
  BY <1>1, FS_Interval
<1>3. IsFiniteSet(D)
  <2>1. D \in SUBSET (1 .. Len(s))
    BY <1>1
  <2> QED
    BY <1>2, <2>1, FS_Subset
<1>4. Cardinality(D) \in Nat
  BY <1>3, FS_CardinalityType
<1>5. Cardinality(D) = 0 <=> D = {}
  BY <1>3, FS_EmptySet
<1> QED
  BY <1>3, <1>4, <1>5 DEF CountIn

LEMMA CountOfNone == ASSUME NEW S PROVE CountIn(<<>>, S) = 0
<1>1. {i \in DOMAIN <<>> : <<>>[i] \in S} = {}
  OBVIOUS
<1> QED
  BY <1>1, FS_EmptySet DEF CountIn

LEMMA CountOfOneMore ==
    ASSUME NEW A, NEW s \in Seq(A), NEW x \in A, NEW S
    PROVE  CountIn(Append(s, x), S) = CountIn(s, S) + (IF x \in S THEN 1 ELSE 0)
<1> DEFINE D == {i \in DOMAIN s : s[i] \in S}
           E == {i \in DOMAIN Append(s, x) : Append(s, x)[i] \in S}
           n == Len(s) + 1
<1>1. /\ Len(s) \in Nat /\ DOMAIN s = 1 .. Len(s) /\ DOMAIN Append(s, x) = 1 .. n
      /\ \A i \in 1 .. Len(s) : Append(s, x)[i] = s[i]
      /\ Append(s, x)[n] = x
  OBVIOUS
<1>2. n \notin D /\ \A i \in 1 .. n : i = n \/ i \in 1 .. Len(s)
  BY <1>1
<1>3. IsFiniteSet(D) /\ Cardinality(D) \in Nat
  BY CountIsNat DEF CountIn
<1>4. E = IF x \in S THEN D \cup {n} ELSE D
  BY <1>1, <1>2
<1>5. Cardinality(D \cup {n}) = Cardinality(D) + 1
  BY <1>2, <1>3, FS_AddElement
<1>7. CountIn(Append(s, x), S) = Cardinality(E) /\ CountIn(s, S) = Cardinality(D)
  BY DEF CountIn
<1> HIDE DEF D, E
<1>6. Cardinality(E) = Cardinality(D) + (IF x \in S THEN 1 ELSE 0)
  BY <1>3, <1>4, <1>5
<1> QED
  BY <1>6, <1>7

LEMMA CountOfMore ==
    ASSUME NEW A, NEW s \in Seq(A), NEW t \in Seq(A), NEW S
    PROVE  CountIn(s \o t, S) = CountIn(s, S) + CountIn(t, S)
<1> DEFINE m == Len(s)
           D == {i \in DOMAIN s : s[i] \in S}
           F == {i \in DOMAIN t : t[i] \in S}
           G == {i + m : i \in F}
           E == {i \in DOMAIN (s \o t) : (s \o t)[i] \in S}
<1>0. /\ CountIn(s \o t, S) = Cardinality(E) /\ CountIn(s, S) = Cardinality(D)
      /\ CountIn(t, S) = Cardinality(F)
  BY DEF CountIn
<1>1. /\ m \in Nat /\ Len(t) \in Nat /\ DOMAIN s = 1 .. m /\ DOMAIN t = 1 .. Len(t)
      /\ DOMAIN (s \o t) = 1 .. (m + Len(t))
      /\ \A i \in 1 .. m : (s \o t)[i] = s[i]
      /\ \A i \in 1 .. Len(t) : (s \o t)[i + m] = t[i]
  OBVIOUS
<1>2. IsFiniteSet(D) /\ IsFiniteSet(F) /\ Cardinality(D) \in Nat /\ Cardinality(F) \in Nat
  BY CountIsNat DEF CountIn
<1>3. IsFiniteSet(G) /\ Cardinality(G) = Cardinality(F)
  <2> DEFINE f == [i \in F |-> i + m]
  <2>1. f \in Bijection(F, G)
    BY <1>1 DEF Bijection, Injection, Surjection, IsInjective
  <2> HIDE DEF f
  <2>2. ExistsBijection(F, G)
    BY <2>1 DEF ExistsBijection
  <2> HIDE DEF F, G
  <2> QED
    BY <1>2, <2>2, FS_Bijection
<1>4. E = D \cup G
  <2>1. ASSUME NEW i \in E PROVE i \in D \cup G
    <3>1. CASE i \in 1 .. m
      BY <1>1, <3>1
    <3>2. CASE i \notin 1 .. m
      <4>1. i - m \in 1 .. Len(t) /\ i = (i - m) + m
        BY <1>1, <3>2
      <4>2. i - m \in F
        BY <1>1, <4>1
      <4> QED
        BY <4>1, <4>2
    <3> QED
      BY <3>1, <3>2
  <2>2. ASSUME NEW i \in D PROVE i \in E
    BY <1>1
  <2>3. ASSUME NEW i \in F PROVE i + m \in E
    BY <1>1
  <2> QED
    BY <2>1, <2>2, <2>3
<1>5. D \cap G = {}
  BY <1>1
<1> HIDE DEF D, E, F, G
<1>6. Cardinality(D \cup G) = Cardinality(D) + Cardinality(G) - Cardinality(D \cap G)
  BY <1>2, <1>3, FS_Union
<1>7. Cardinality(D \cap G) = 0
  BY <1>5, FS_EmptySet
<1>8. Cardinality(E) = Cardinality(D) + Cardinality(F)
  BY <1>2, <1>3, <1>4, <1>6, <1>7
<1> QED
  BY <1>0, <1>8

\* A use's row tells it from every other use, and from what is no use.
LEMMA RowsAre ==
    ASSUME NEW T \in SUBSET Uses
    PROVE  /\ \A u \in Uses : /\ Row(u) \in RowsFor(T) <=> u \in T
                              /\ Row(u).model # NoModel /\ Row(u).usd = Price(u).usd
           /\ \A kind : Row(Message(kind)) \notin RowsFor(T) /\ Row(Message(kind)).model = NoModel
<1>1. \A u \in Uses : /\ Row(u).model = u.model /\ Row(u).kind = u.kind /\ Row(u).input = u.input
                      /\ Row(u).output = u.output /\ Row(u).cached = u.cached
                      /\ Row(u).write = u.write /\ Row(u).usd = Price(u).usd /\ u.model # NoModel
  BY DialogueAssumption DEF Row
<1>2. \A u, v \in Uses : Row(u) = Row(v) => u = v
  BY <1>1, DialogueAssumption
<1>3. \A kind : Row(Message(kind)).model = NoModel
  BY DEF Row, Message, Use
<1>4. \A u \in Uses : Row(u) \in RowsFor(T) <=> u \in T
  BY <1>2 DEF RowsFor
<1>5. \A kind : Row(Message(kind)) \notin RowsFor(T)
  BY <1>1, <1>3 DEF RowsFor
<1> QED
  BY <1>1, <1>3, <1>4, <1>5

One(u, T) == IF u \in T THEN 1 ELSE 0

LEMMA BookedOnce ==
    ASSUME NEW book \in Seq(LedgerRows), NEW T \in SUBSET Uses
    PROVE  /\ CountIn(book, RowsFor(T)) \in Nat
           /\ \A u \in Uses : /\ RecordUsage(book, u) \in Seq(LedgerRows)
                              /\ CountIn(RecordUsage(book, u), RowsFor(T))
                                    = CountIn(book, RowsFor(T)) + One(u, T)
           /\ \A kind \in {"message_in", "message_out"} :
                 /\ RecordUsage(book, Message(kind)) \in Seq(LedgerRows)
                 /\ CountIn(RecordUsage(book, Message(kind)), RowsFor(T)) = CountIn(book, RowsFor(T))
<1>1. ASSUME NEW row \in LedgerRows
      PROVE  /\ Append(book, row) \in Seq(LedgerRows)
             /\ CountIn(Append(book, row), RowsFor(T))
                   = CountIn(book, RowsFor(T)) + (IF row \in RowsFor(T) THEN 1 ELSE 0)
  BY CountOfOneMore
<1>2. CountIn(book, RowsFor(T)) \in Nat
  BY CountIsNat
<1>3. \A u \in Uses : Row(u) \in LedgerRows
  BY DEF LedgerRows, RowsFor
<1>4. \A kind \in {"message_in", "message_out"} : Row(Message(kind)) \in LedgerRows
  BY DEF LedgerRows
<1>5. ASSUME NEW u \in Uses
      PROVE  /\ RecordUsage(book, u) \in Seq(LedgerRows)
             /\ CountIn(RecordUsage(book, u), RowsFor(T)) = CountIn(book, RowsFor(T)) + One(u, T)
  BY <1>1, <1>3, RowsAre DEF RecordUsage, One
<1>6. ASSUME NEW kind \in {"message_in", "message_out"}
      PROVE  /\ RecordUsage(book, Message(kind)) \in Seq(LedgerRows)
             /\ CountIn(RecordUsage(book, Message(kind)), RowsFor(T)) = CountIn(book, RowsFor(T))
  BY <1>1, <1>2, <1>4, RowsAre DEF RecordUsage
<1> QED
  BY <1>2, <1>5, <1>6

LEMMA CalledOnce ==
    ASSUME NEW calls \in Seq(Uses), NEW T
    PROVE  /\ CountIn(calls, T) \in Nat
           /\ \A u \in Uses : /\ Append(calls, u) \in Seq(Uses)
                              /\ CountIn(Append(calls, u), T) = CountIn(calls, T) + One(u, T)
<1>1. CountIn(calls, T) \in Nat
  BY CountIsNat
<1>2. ASSUME NEW u \in Uses
      PROVE  /\ Append(calls, u) \in Seq(Uses)
             /\ CountIn(Append(calls, u), T) = CountIn(calls, T) + (IF u \in T THEN 1 ELSE 0)
  BY CountOfOneMore
<1> QED
  BY <1>1, <1>2 DEF One

\* What is recorded one after the other is counted as it was listed.
LEMMA BookedEach ==
    ASSUME NEW book \in Seq(LedgerRows), NEW uses \in Seq(Uses), NEW T \in SUBSET Uses
    PROVE  /\ RecordEach(book, uses) \in Seq(LedgerRows)
           /\ CountIn(RecordEach(book, uses), RowsFor(T)) = CountIn(book, RowsFor(T)) + CountIn(uses, T)
<1> DEFINE more == [i \in DOMAIN uses |-> Row(uses[i])]
<1>1. Len(uses) \in Nat /\ DOMAIN uses = 1 .. Len(uses) /\ \A i \in DOMAIN uses : uses[i] \in Uses
  OBVIOUS
<1>2. \A i \in DOMAIN uses : Row(uses[i]) \in LedgerRows
  BY <1>1 DEF LedgerRows, RowsFor
<1>3. more \in Seq(LedgerRows)
  BY <1>1, <1>2
<1>4. {i \in DOMAIN more : more[i] \in RowsFor(T)} = {i \in DOMAIN uses : uses[i] \in T}
  BY <1>1, RowsAre
<1>5. CountIn(more, RowsFor(T)) = CountIn(uses, T)
  BY <1>4 DEF CountIn
<1> HIDE DEF more
<1>6. book \o more \in Seq(LedgerRows)
  BY <1>3
<1>7. CountIn(book \o more, RowsFor(T)) = CountIn(book, RowsFor(T)) + CountIn(more, RowsFor(T))
  BY <1>3, CountOfMore
<1>8. RecordEach(book, uses) = book \o more
  BY DEF RecordEach, more
<1> QED
  BY <1>5, <1>6, <1>7, <1>8

LEMMA EmbeddingsAre ==
    ASSUME HeldOK(turn), NEW T
    PROVE  /\ Embeddings \in Seq(Uses)
           /\ CountIn(Embeddings, T) =
                 IF Embedding \in T THEN CountIn(turn.searches, Embedded) ELSE 0
<1> DEFINE k == CountIn(turn.searches, Embedded)
<1>1. turn.searches \in Seq(Retrievals)
  BY DEF HeldOK
<1>2. k \in Nat
  BY <1>1, CountIsNat
<1>3. {i \in DOMAIN turn.searches : turn.searches[i].tokens > 0}
         = {i \in DOMAIN turn.searches : turn.searches[i] \in Embedded}
  BY <1>1 DEF Embedded
<1>4. k = Cardinality({i \in DOMAIN turn.searches : turn.searches[i].tokens > 0})
  BY <1>3 DEF CountIn
<1> HIDE DEF k
<1>5. Embeddings = [n \in 1 .. k |-> Embedding]
  BY <1>4 DEF Embeddings
<1>6. Embedding \in Uses
  BY DEF Uses
<1>7. Embeddings \in Seq(Uses)
  BY <1>2, <1>5, <1>6
<1>8. {i \in DOMAIN Embeddings : Embeddings[i] \in T} = IF Embedding \in T THEN 1 .. k ELSE {}
  BY <1>2, <1>5
<1>9. Cardinality(1 .. k) = k /\ Cardinality({}) = 0
  BY <1>2, FS_Interval, FS_EmptySet
<1>10. CountIn(Embeddings, T) = Cardinality(IF Embedding \in T THEN 1 .. k ELSE {})
  BY <1>8 DEF CountIn
<1>11. CountIn(Embeddings, T) = IF Embedding \in T THEN k ELSE 0
  BY <1>9, <1>10
<1> QED
  BY <1>7, <1>11 DEF k

LEMMA BooksStart == ASSUME Init PROVE BooksInv
<1>1. turn = Idle /\ ledger = <<>> /\ owed = <<>>
  BY DEF Init
<1>2. /\ turn.at = "idle" /\ turn.calls = <<>> /\ turn.usage = None
  BY <1>1 DEF Idle
<1>3. \A S : CountIn(<<>>, S) = 0
  BY CountOfNone
<1>4. \A T : Balance(turn, <<>>, <<>>, T)
  BY <1>2, <1>3 DEF Balance
<1> QED
  BY <1>1, <1>2, <1>4 DEF BooksInv, Books

\* A turn that is over leaves what it added owed.
LEMMA BooksAtRest ==
    ASSUME turn' = Idle, ledger' \in Seq(LedgerRows), owed' \in Seq(Uses),
           \A T \in SUBSET Uses : CountIn(ledger', RowsFor(T)) = CountIn(owed', T)
    PROVE  BooksInv'
<1>1. turn'.at = "idle" /\ turn'.calls = <<>> /\ turn'.usage = None
  BY DEF Idle
<1>2. \A T \in SUBSET Uses : Balance(turn', ledger', owed', T)
  BY <1>1 DEF Balance
<1>3. Books(turn', ledger', owed')
  BY <1>1, <1>2 DEF Books
<1> QED
  BY <1>3 DEF BooksInv, Books, Balance

LEMMA KilledBooks == ASSUME BooksInv, turn.at # "idle", NEW why, Killed(why) PROVE BooksInv'
<1>1. turn' = Idle /\ ledger' = turn.before /\ owed' = owed
  BY DEF Killed
<1>2. turn.before \in Seq(LedgerRows) /\ owed \in Seq(Uses)
  BY DEF BooksInv, Books
<1>3. \A T \in SUBSET Uses : CountIn(turn.before, RowsFor(T)) = CountIn(owed, T)
  BY DEF BooksInv, Books, Balance
<1> QED
  BY <1>1, <1>2, <1>3, BooksAtRest

LEMMA FinishBooks ==
    ASSUME BooksInv, NEW outcome, NEW saved, NEW reached \in BOOLEAN,
           Finish(outcome, saved, reached),
           turn.at \in IF reached THEN {"resolve", "check", "send"} ELSE {"gather"}
    PROVE  BooksInv'
<1>1. /\ turn' = Idle /\ ledger' = RecordUsage(ledger, Message("message_out"))
      /\ owed' = IF reached THEN owed \o turn.calls ELSE owed
  BY DEF Finish
<1>2. ledger \in Seq(LedgerRows) /\ owed \in Seq(Uses) /\ turn.calls \in Seq(Uses)
  BY DEF BooksInv, Books
<1>3. owed' \in Seq(Uses)
  BY <1>1, <1>2
<1>4. ASSUME NEW T \in SUBSET Uses
      PROVE  /\ ledger' \in Seq(LedgerRows)
             /\ CountIn(ledger', RowsFor(T)) = CountIn(owed', T)
  <2>1. /\ ledger' \in Seq(LedgerRows)
        /\ CountIn(ledger', RowsFor(T)) = CountIn(ledger, RowsFor(T))
    BY <1>1, <1>2, BookedOnce
  <2>2. CountIn(owed \o turn.calls, T) = CountIn(owed, T) + CountIn(turn.calls, T)
    BY <1>2, CountOfMore
  <2>3. Balance(turn, ledger, owed, T)
    BY DEF BooksInv, Books
  <2> QED
    BY <1>1, <2>1, <2>2, <2>3 DEF Balance
<1>5. ledger' \in Seq(LedgerRows)
  BY <1>4
<1> QED
  BY <1>1, <1>3, <1>4, <1>5, BooksAtRest

LEMMA ReceiveBooks ==
    ASSUME BooksInv, turn.at = "idle", NEW m \in Messages, Receive(m) PROVE BooksInv'
<1>1. /\ turn' = [Idle EXCEPT !.at = "gather", !.message = m, !.before = ledger]
      /\ ledger' = RecordUsage(ledger, Message("message_in")) /\ owed' = owed
  BY DEF Receive
<1>2. /\ turn'.at = "gather" /\ turn'.calls = <<>> /\ turn'.usage = None /\ turn'.before = ledger
      /\ turn'.searches = <<>>
  BY <1>1 DEF Idle
<1>3. ledger \in Seq(LedgerRows) /\ owed \in Seq(Uses)
  BY DEF BooksInv, Books
<1>4. \A S : CountIn(<<>>, S) = 0
  BY CountOfNone
<1>5. ASSUME NEW T \in SUBSET Uses
      PROVE  Balance(turn', ledger', owed', T) /\ ledger' \in Seq(LedgerRows)
  <2>1. /\ ledger' \in Seq(LedgerRows)
        /\ CountIn(ledger', RowsFor(T)) = CountIn(ledger, RowsFor(T))
    BY <1>1, <1>3, BookedOnce
  <2>2. CountIn(ledger, RowsFor(T)) = CountIn(owed, T)
    BY DEF BooksInv, Books, Balance
  <2> QED
    BY <1>1, <1>2, <1>4, <2>1, <2>2 DEF Balance
<1>6. ledger' \in Seq(LedgerRows) /\ turn'.calls \in Seq(Uses)
  <2>1. {} \in SUBSET Uses /\ <<>> \in Seq(Uses)
    OBVIOUS
  <2> QED
    BY <1>2, <1>5, <2>1
<1>7. Books(turn', ledger', owed')
  BY <1>1, <1>2, <1>3, <1>5, <1>6 DEF Books
<1> QED
  BY <1>7 DEF BooksInv, Books, Balance

\* A step of a turn: what it must keep, and what it may not touch.
Kept(t) == t.before = turn.before /\ t.usage \in {None, Extracting} /\ t.calls \in Seq(Uses)

LEMMA BooksGoOn ==
    ASSUME BooksInv, turn.at # "idle", Kept(turn'), turn'.at # "idle", owed' = owed,
           ledger' \in Seq(LedgerRows), \A T \in SUBSET Uses : Balance(turn', ledger', owed, T)
    PROVE  BooksInv'
<1>1. Books(turn', ledger', owed')
  BY DEF Kept, BooksInv, Books
<1> QED
  BY <1>1 DEF BooksInv, Books, Balance

\* A step of the gather: it adds a call or none.
LEMMA ExtractBooks == ASSUME DlgInv, BooksInv, Extract PROVE BooksInv'
<1>1. /\ turn.at = "gather" /\ turn.usage = None /\ turn.failed = None
      /\ ledger' = ledger /\ owed' = owed /\ DOMAIN turn = Fields
  BY DEF Extract, DlgInv, HeldOK
<1>2. turn.calls \in Seq(Uses) /\ ledger \in Seq(LedgerRows)
  BY DEF BooksInv, Books
<1>3. Extracting \in Uses
  BY DEF Uses
<1> DEFINE Tried(t) == t.before = turn.before /\ t.at = "gather" /\ t.searches = turn.searches
           Fails(t) == t.usage = None /\ (t.calls = turn.calls \/ t.failed # None)
           Reads(t) == t.usage = Extracting /\ t.calls = Append(turn.calls, Extracting)
<1>4. /\ Tried(turn') /\ (Fails(turn') \/ Reads(turn'))
      /\ turn'.calls \in {turn.calls, Append(turn.calls, Extracting)}
  <2>1. ASSUME NEW why, turn' = [Failing1(why) EXCEPT !.read = Refused]
        PROVE  Tried(turn') /\ Fails(turn') /\ turn'.calls = turn.calls
    BY <1>1, <2>1 DEF Failing1, Fields
  <2>2. ASSUME NEW doc, LET read   == Parse(doc, Script, Specs, Catalogue)
                            called == Calling(Extracting)
                        IN  turn' = IF read = Refused
                                    THEN [called EXCEPT !.read = read, !.failed = "unread"]
                                    ELSE [called EXCEPT !.read = read, !.usage = Extracting]
        PROVE  /\ Tried(turn') /\ (Fails(turn') \/ Reads(turn'))
               /\ turn'.calls = Append(turn.calls, Extracting)
    <3> DEFINE read == Parse(doc, Script, Specs, Catalogue)
    <3> HIDE DEF read
    <3>1. \/ turn' = [Calling(Extracting) EXCEPT !.read = read, !.failed = "unread"]
          \/ turn' = [Calling(Extracting) EXCEPT !.read = read, !.usage = Extracting]
      BY <2>2 DEF read
    <3>2. None # "unread"
      BY DialogueAssumption
    <3>3. CASE turn' = [Calling(Extracting) EXCEPT !.read = read, !.failed = "unread"]
      BY <1>1, <3>2, <3>3 DEF Calling, Fields
    <3>4. CASE turn' = [Calling(Extracting) EXCEPT !.read = read, !.usage = Extracting]
      BY <1>1, <3>4 DEF Calling, Fields
    <3> QED
      BY <3>1, <3>3, <3>4
  <2> QED
    BY <2>1, <2>2 DEF Extract
<1>5. Kept(turn') /\ turn'.at # "idle"
  <2>1. Append(turn.calls, Extracting) \in Seq(Uses)
    BY <1>2, <1>3
  <2> QED
    BY <1>2, <1>4, <2>1 DEF Kept
<1>6. ASSUME NEW T \in SUBSET Uses PROVE Balance(turn', ledger', owed, T)
  <2>1. CountIn(Append(turn.calls, Extracting), T) = CountIn(turn.calls, T) + One(Extracting, T)
    BY <1>2, <1>3, CalledOnce
  <2>2. Balance(turn, ledger, owed, T) /\ CountIn(turn.calls, T) \in Nat
    BY <1>2, CalledOnce DEF BooksInv, Books
  <2>3. Extracting # None
    BY <1>3, DialogueAssumption
  <2>4. Embedding \in T => CountIn(turn.searches, Embedded) \in Nat
    BY <1>1, CountIsNat DEF DlgInv, HeldOK
  <2> DEFINE now == CountIn(turn'.calls, T)
             was == CountIn(turn.calls, T)
  <2>5. \/ turn'.usage = None /\ (now = was \/ turn'.failed # None)
        \/ turn'.usage = Extracting /\ now = was + One(Extracting, T)
    BY <1>4, <2>1
  <2>6. turn'.before = turn.before /\ turn'.at = "gather" /\ turn'.searches = turn.searches
    BY <1>4
  <2> QED
    BY <1>1, <2>2, <2>3, <2>4, <2>5, <2>6 DEF Balance, One
<1> QED
  BY <1>1, <1>2, <1>5, <1>6, BooksGoOn

\* A search adds itself, and the call that embedded it.
LEMMA SearchedBooks ==
    ASSUME DlgInv, BooksInv, turn.at # "idle", NEW r \in Retrievals
    PROVE  LET t == Searched(r)
           IN  /\ Kept(t) /\ t.usage = turn.usage /\ t.failed = turn.failed /\ DOMAIN t = Fields
               /\ \A T : CountIn(t.calls, T) - CountIn(turn.calls, T)
                            = IF Embedding \in T THEN CountIn(t.searches, Embedded)
                                                       - CountIn(turn.searches, Embedded) ELSE 0
<1>1. DOMAIN turn = Fields /\ turn.searches \in Seq(Retrievals) /\ turn.calls \in Seq(Uses)
  BY DEF DlgInv, HeldOK, BooksInv, Books
<1>2. Embedding \in Uses /\ turn.usage \in {None, Extracting}
  BY DEF Uses, BooksInv, Books
<1> DEFINE t     == Searched(r)
           more  == IF r.tokens > 0 THEN Append(turn.calls, Embedding) ELSE turn.calls
           added == Append(turn.searches, r)
<1>3. /\ t.before = turn.before /\ t.usage = turn.usage /\ t.failed = turn.failed
      /\ DOMAIN t = Fields /\ t.calls = more /\ t.searches = added
  <2>1. CASE r.tokens > 0
    <3>1. t = [Calling(Embedding) EXCEPT !.searches = Append(@, r)]
      BY <2>1 DEF Searched
    <3> QED
      BY <1>1, <2>1, <3>1 DEF Calling, Fields
  <2>2. CASE ~(r.tokens > 0)
    <3>1. t = [turn EXCEPT !.searches = Append(@, r)]
      BY <2>2 DEF Searched
    <3> QED
      BY <1>1, <2>2, <3>1 DEF Fields
  <2> QED
    BY <2>1, <2>2
<1>4. more \in Seq(Uses)
  BY <1>1, <1>2
<1>5. CountIn(added, Embedded) = CountIn(turn.searches, Embedded) + (IF r.tokens > 0 THEN 1 ELSE 0)
  BY <1>1, CountOfOneMore DEF Embedded
<1>6. CountIn(turn.searches, Embedded) \in Nat
  BY <1>1, CountIsNat
<1>7. ASSUME NEW T
      PROVE  CountIn(more, T) = CountIn(turn.calls, T)
                                   + (IF r.tokens > 0 THEN One(Embedding, T) ELSE 0)
  BY <1>1, <1>2, CalledOnce
<1>8. \A T : CountIn(turn.calls, T) \in Nat
  BY <1>1, CalledOnce
<1> HIDE DEF t, more, added
<1>9. Kept(t)
  BY <1>2, <1>3, <1>4 DEF Kept
<1>10. \A T : CountIn(t.calls, T) - CountIn(turn.calls, T)
                  = IF Embedding \in T THEN CountIn(t.searches, Embedded)
                                             - CountIn(turn.searches, Embedded) ELSE 0
  BY <1>3, <1>5, <1>6, <1>7, <1>8 DEF One
<1> QED
  BY <1>3, <1>9, <1>10 DEF t

LEMMA SearchBooks == ASSUME DlgInv, BooksInv, Search PROVE BooksInv'
<1>1. /\ turn.at = "gather" /\ ledger' = ledger /\ owed' = owed /\ turn.failed = None
      /\ DOMAIN turn = Fields /\ turn.searches \in Seq(Retrievals)
  BY DEF Search, DlgInv, HeldOK
<1>2. /\ turn.calls \in Seq(Uses) /\ ledger \in Seq(LedgerRows)
      /\ turn.usage \in {None, Extracting}
  BY DEF BooksInv, Books
<1>3. ASSUME turn' = Failing1("embedding") PROVE BooksInv'
  <2>1. /\ Kept(turn') /\ turn'.at = "gather" /\ turn'.calls = turn.calls
        /\ turn'.usage = turn.usage /\ turn'.before = turn.before
        /\ turn'.searches = turn.searches
    BY <1>1, <1>2, <1>3 DEF Failing1, Fields, Kept
  <2>2. ASSUME NEW T \in SUBSET Uses PROVE Balance(turn', ledger', owed, T)
    <3>1. Balance(turn, ledger, owed, T)
      BY DEF BooksInv, Books
    <3> QED
      BY <1>1, <2>1, <3>1 DEF Balance
  <2> QED
    BY <1>1, <1>2, <2>1, <2>2, BooksGoOn
<1>4. ASSUME NEW r \in Retrievals, turn' = Searched(r) PROVE BooksInv'
  <2>1. /\ Kept(turn') /\ turn'.usage = turn.usage /\ turn'.failed = None
        /\ turn'.before = turn.before
        /\ \A T : CountIn(turn'.calls, T) - CountIn(turn.calls, T)
                     = IF Embedding \in T THEN CountIn(turn'.searches, Embedded)
                                                - CountIn(turn.searches, Embedded) ELSE 0
    BY <1>1, <1>4, SearchedBooks DEF Kept
  <2>2. turn'.at = "gather" /\ turn'.searches \in Seq(Retrievals)
    BY <1>1, <1>4, SearchedIs DEF DlgInv
  <2>3. ASSUME NEW T \in SUBSET Uses PROVE Balance(turn', ledger', owed, T)
    <3>1. Balance(turn, ledger, owed, T)
      BY DEF BooksInv, Books
    <3>2. /\ CountIn(turn.calls, T) \in Nat /\ CountIn(turn.searches, Embedded) \in Nat
          /\ CountIn(turn'.calls, T) \in Nat /\ CountIn(turn'.searches, Embedded) \in Nat
      BY <1>1, <1>2, <2>1, <2>2, CountIsNat DEF Kept
    <3> QED
      BY <1>1, <2>1, <2>2, <3>1, <3>2 DEF Balance
  <2> QED
    BY <1>1, <1>2, <2>1, <2>2, <2>3, BooksGoOn
<1> QED
  BY <1>3, <1>4 DEF Search

LEMMA ResumeBooks == ASSUME DlgInv, BooksInv, Resume PROVE BooksInv'
<1>1. /\ turn.at = "gather" /\ turn.failed = None /\ turn.usage # None /\ owed' = owed
      /\ ledger' = RecordUsage(ledger, turn.usage) /\ DOMAIN turn = Fields
  BY DEF Resume, DlgInv, HeldOK
<1>2. /\ turn.calls \in Seq(Uses) /\ ledger \in Seq(LedgerRows)
      /\ turn.usage = Extracting /\ Extracting \in Uses
  BY <1>1 DEF BooksInv, Books, Uses
<1>3. \E stage \in {"requery", "decide"} : turn' = [turn EXCEPT !.at = stage]
  BY DEF Resume
<1>4. /\ Kept(turn') /\ turn'.at \in {"requery", "decide"} /\ turn'.calls = turn.calls
      /\ turn'.before = turn.before /\ turn'.searches = turn.searches
  BY <1>1, <1>2, <1>3 DEF Kept, Fields
<1>5. ASSUME NEW T \in SUBSET Uses
      PROVE  Balance(turn', ledger', owed, T) /\ ledger' \in Seq(LedgerRows)
  <2>1. /\ ledger' \in Seq(LedgerRows) /\ CountIn(ledger, RowsFor(T)) \in Nat
        /\ CountIn(ledger', RowsFor(T)) = CountIn(ledger, RowsFor(T)) + One(Extracting, T)
    BY <1>1, <1>2, BookedOnce
  <2>2. Balance(turn, ledger, owed, T)
    BY DEF BooksInv, Books
  <2>3. turn.searches \in Seq(Retrievals)
    BY DEF DlgInv, HeldOK
  <2>4. CountIn(turn.searches, Embedded) \in Nat
    BY <2>3, CountIsNat
  <2> QED
    BY <1>1, <1>2, <1>4, <2>1, <2>2, <2>4 DEF Balance, One
<1>6. ledger' \in Seq(LedgerRows)
  <2>1. {} \in SUBSET Uses
    OBVIOUS
  <2> QED
    BY <1>5, <2>1
<1> QED
  BY <1>1, <1>4, <1>5, <1>6, BooksGoOn

LEMMA RequeryBooks == ASSUME DlgInv, BooksInv, Requery PROVE BooksInv'
<1>1. turn.at = "requery" /\ DOMAIN turn = Fields /\ turn.searches \in Seq(Retrievals)
  BY DEF Requery, DlgInv, HeldOK
<1>2. turn.calls \in Seq(Uses) /\ ledger \in Seq(LedgerRows)
  BY DEF BooksInv, Books
<1>3. CASE Killed("embedding")
  BY <1>1, <1>3, KilledBooks
<1>4. ASSUME NEW r \in Retrievals, turn' = [Searched(r) EXCEPT !.at = "decide"],
             ledger' = ledger, owed' = owed
      PROVE  BooksInv'
  <2> DEFINE t == Searched(r)
             Grows(u) == \A T : CountIn(u.calls, T) - CountIn(turn.calls, T)
                            = IF Embedding \in T THEN CountIn(u.searches, Embedded)
                                                       - CountIn(turn.searches, Embedded) ELSE 0
  <2>1. Kept(t) /\ t.usage = turn.usage /\ DOMAIN t = Fields /\ Grows(t)
    BY <1>1, SearchedBooks
  <2>2. t.searches \in Seq(Retrievals)
    BY <1>1, SearchedIs DEF DlgInv
  <2> HIDE DEF t
  <2>3. /\ turn'.at = "decide" /\ turn'.usage = t.usage /\ turn'.before = t.before
        /\ turn'.calls = t.calls /\ turn'.searches = t.searches
    BY <1>4, <2>1 DEF t, Fields
  <2>4. Kept(turn') /\ Grows(turn') /\ turn'.before = turn.before
    BY <2>1, <2>3 DEF Kept
  <2>5. ASSUME NEW T \in SUBSET Uses PROVE Balance(turn', ledger', owed, T)
    <3>1. Balance(turn, ledger, owed, T)
      BY DEF BooksInv, Books
    <3>2. turn'.calls \in Seq(Uses) /\ turn'.searches \in Seq(Retrievals)
      BY <2>2, <2>3, <2>4 DEF Kept
    <3>3. /\ CountIn(turn.calls, T) \in Nat /\ CountIn(turn.searches, Embedded) \in Nat
          /\ CountIn(turn'.calls, T) \in Nat /\ CountIn(turn'.searches, Embedded) \in Nat
      BY <1>1, <1>2, <3>2, CountIsNat
    <3>4. CountIn(turn'.calls, T) - CountIn(turn.calls, T)
             = IF Embedding \in T THEN CountIn(turn'.searches, Embedded)
                                        - CountIn(turn.searches, Embedded) ELSE 0
      BY <2>4
    <3> QED
      BY <1>1, <1>4, <2>3, <2>4, <3>1, <3>3, <3>4 DEF Balance
  <2> QED
    BY <1>1, <1>2, <1>4, <2>3, <2>4, <2>5, BooksGoOn
<1> QED
  BY <1>3, <1>4 DEF Requery

LEMMA ChooseBooks == ASSUME DlgInv, BooksInv, Choose PROVE BooksInv'
<1>1. turn.at = "decide" /\ DOMAIN turn = Fields /\ HeldOK(turn)
  BY DEF Choose, DlgInv, HeldOK
<1>2. /\ turn.calls \in Seq(Uses) /\ ledger \in Seq(LedgerRows) /\ Embeddings \in Seq(Uses)
      /\ turn.usage \in {None, Extracting}
  BY <1>1, EmbeddingsAre DEF BooksInv, Books
<1>3. CASE Decided = Raised
  BY <1>1, <1>3, KilledBooks DEF Choose
<1>4. CASE Decided # Raised
  <2>1. /\ ledger' = RecordEach(ledger, Embeddings) /\ owed' = owed
        /\ \E lang : turn' = [turn EXCEPT !.at = "resolve", !.decision = Decided, !.lang = lang]
    BY <1>4 DEF Choose
  <2>2. /\ Kept(turn') /\ turn'.at = "resolve" /\ turn'.calls = turn.calls
        /\ turn'.before = turn.before
    BY <1>1, <1>2, <2>1 DEF Kept, Fields
  <2>3. ASSUME NEW T \in SUBSET Uses
        PROVE  Balance(turn', ledger', owed, T) /\ ledger' \in Seq(LedgerRows)
    <3>1. /\ ledger' \in Seq(LedgerRows)
          /\ CountIn(ledger', RowsFor(T)) = CountIn(ledger, RowsFor(T)) + CountIn(Embeddings, T)
      BY <1>2, <2>1, BookedEach
    <3>2. CountIn(Embeddings, T) = IF Embedding \in T THEN CountIn(turn.searches, Embedded) ELSE 0
      BY <1>1, EmbeddingsAre
    <3>3. Balance(turn, ledger, owed, T) /\ CountIn(owed, T) \in Nat
      BY CalledOnce DEF BooksInv, Books
    <3>4. CountIn(turn.searches, Embedded) \in Nat
      BY <1>1, CountIsNat DEF HeldOK
    <3> QED
      BY <1>1, <2>2, <3>1, <3>2, <3>3, <3>4 DEF Balance
  <2>4. ledger' \in Seq(LedgerRows)
    <3>1. {} \in SUBSET Uses
      OBVIOUS
    <3> QED
      BY <2>3, <3>1
  <2> QED
    BY <1>1, <2>1, <2>2, <2>3, <2>4, BooksGoOn
<1> QED
  BY <1>3, <1>4

\* The ways a turn that reached the engine ends.
LEMMA EndedBooks ==
    ASSUME BooksInv, turn.at \in {"resolve", "check", "send"},
           \/ ScriptedReply \/ Silence \/ Discard \/ SendComposed
           \/ Scripted("provider_unavailable", turn.message.looks, TRUE, TRUE)
    PROVE  BooksInv'
<1>1. \E outcome, saved : Finish(outcome, saved, TRUE)
  BY DEF ScriptedReply, Silence, Discard, SendComposed, Scripted
<1>2. turn.at \in IF TRUE THEN {"resolve", "check", "send"} ELSE {"gather"}
  OBVIOUS
<1> QED
  BY <1>1, <1>2, FinishBooks

LEMMA ApologyBooks == ASSUME BooksInv, Unavailable \/ BeyondVocabulary PROVE BooksInv'
<1>1. \E outcome, saved : Finish(outcome, saved, FALSE)
  BY DEF Unavailable, BeyondVocabulary
<1>2. turn.at \in IF FALSE THEN {"resolve", "check", "send"} ELSE {"gather"}
  BY DEF Unavailable, BeyondVocabulary
<1> QED
  BY <1>1, <1>2, FinishBooks

\* A call that is metered as it is made.
LEMMA MeteredBooks ==
    ASSUME BooksInv, turn.at \in {"resolve", "check"}, NEW u \in Uses,
           Kept(turn'), turn'.at \in {"check", "send"}, owed' = owed,
           \/ turn'.calls = Append(turn.calls, u) /\ ledger' = RecordUsage(ledger, u)
           \/ turn'.calls = turn.calls /\ ledger' = ledger
    PROVE  BooksInv'
<1>1. turn.calls \in Seq(Uses) /\ ledger \in Seq(LedgerRows) /\ owed \in Seq(Uses)
  BY DEF BooksInv, Books
<1>2. ASSUME NEW T \in SUBSET Uses
      PROVE  Balance(turn', ledger', owed, T) /\ ledger' \in Seq(LedgerRows)
  <2> DEFINE on  == CountIn(ledger, RowsFor(T))
             was == CountIn(turn.calls, T)
  <2>1. /\ on \in Nat /\ RecordUsage(ledger, u) \in Seq(LedgerRows)
        /\ CountIn(RecordUsage(ledger, u), RowsFor(T)) = on + One(u, T)
    BY <1>1, BookedOnce
  <2>2. /\ was \in Nat /\ CountIn(Append(turn.calls, u), T) = was + One(u, T)
        /\ CountIn(owed, T) \in Nat
    BY <1>1, CalledOnce
  <2>3. \/ CountIn(ledger', RowsFor(T)) = on /\ CountIn(turn'.calls, T) = was
        \/ /\ CountIn(ledger', RowsFor(T)) = on + One(u, T)
           /\ CountIn(turn'.calls, T) = was + One(u, T)
    <3>1. CASE turn'.calls = Append(turn.calls, u) /\ ledger' = RecordUsage(ledger, u)
      BY <2>1, <2>2, <3>1
    <3>2. CASE turn'.calls = turn.calls /\ ledger' = ledger
      BY <3>2
    <3> QED
      BY <3>1, <3>2
  <2>4. Balance(turn, ledger, owed, T)
    BY DEF BooksInv, Books
  <2>5. on = CountIn(owed, T) + was /\ CountIn(turn.before, RowsFor(T)) = CountIn(owed, T)
    BY <2>4 DEF Balance
  <2>6. CountIn(ledger', RowsFor(T)) = CountIn(owed, T) + CountIn(turn'.calls, T)
    BY <2>1, <2>2, <2>3, <2>5 DEF One
  <2>7. CountIn(turn'.before, RowsFor(T)) = CountIn(owed, T)
    BY <2>5 DEF Kept
  <2>8. Balance(turn', ledger', owed, T)
    BY <2>6, <2>7 DEF Balance
  <2> QED
    BY <1>1, <2>1, <2>8
<1>3. ledger' \in Seq(LedgerRows)
  <2>1. {} \in SUBSET Uses
    OBVIOUS
  <2> QED
    BY <1>2, <2>1
<1> QED
  BY <1>2, <1>3, BooksGoOn

LEMMA ComposeBooks == ASSUME DlgInv, BooksInv, Compose PROVE BooksInv'
<1>1. turn.at = "resolve" /\ DOMAIN turn = Fields
  BY DEF Compose, DlgInv, HeldOK
<1>2. turn.calls \in Seq(Uses) /\ turn.usage \in {None, Extracting}
  BY DEF BooksInv, Books
<1>3. CASE Scripted("provider_unavailable", turn.message.looks, TRUE, TRUE)
  BY <1>1, <1>3, EndedBooks
<1>4. CASE Killed("rejected")
  BY <1>1, <1>4, KilledBooks
<1>5. ASSUME NEW c \in Completions,
             turn' = [Calling([Composing EXCEPT !.model = c.model]) EXCEPT
                         !.at = "check", !.completion = c],
             ledger' = RecordUsage(ledger, [Composing EXCEPT !.model = c.model]), owed' = owed
      PROVE  BooksInv'
  <2> DEFINE u == [Composing EXCEPT !.model = c.model]
  <2>1. u \in Uses
    BY DEF Uses
  <2>2. ledger' = RecordUsage(ledger, u)
    BY <1>5
  <2>3. turn' = [Calling(u) EXCEPT !.at = "check", !.completion = c]
    BY <1>5
  <2> HIDE DEF u
  <2>4. Append(turn.calls, u) \in Seq(Uses)
    BY <1>2, <2>1
  <2>5. /\ turn'.at = "check" /\ turn'.calls = Append(turn.calls, u)
        /\ turn'.before = turn.before /\ turn'.usage = turn.usage
    BY <1>1, <2>3 DEF Calling, Fields
  <2>6. Kept(turn')
    BY <1>2, <2>4, <2>5 DEF Kept
  <2> QED
    BY <1>1, <1>5, <2>1, <2>2, <2>5, <2>6, MeteredBooks
<1> QED
  BY <1>3, <1>4, <1>5 DEF Compose

LEMMA AuditBooks == ASSUME DlgInv, BooksInv, AuditFigures PROVE BooksInv'
<1>1. turn.at = "check" /\ DOMAIN turn = Fields /\ owed' = owed
  BY DEF AuditFigures, DlgInv, HeldOK
<1>2. turn.calls \in Seq(Uses) /\ turn.usage \in {None, Extracting} /\ Auditing \in Uses
  BY DEF BooksInv, Books, Uses
<1>3. \E called \in BOOLEAN : \E audit :
         /\ turn' = [(IF called THEN [turn EXCEPT !.calls = Append(@, Auditing)] ELSE turn)
                        EXCEPT !.at = "send", !.audit = audit]
         /\ ledger' = IF called THEN RecordUsage(ledger, Auditing) ELSE ledger
  BY DEF AuditFigures
<1>4. /\ turn'.at = "send" /\ turn'.before = turn.before /\ turn'.usage = turn.usage
      /\ \/ turn'.calls = Append(turn.calls, Auditing) /\ ledger' = RecordUsage(ledger, Auditing)
         \/ turn'.calls = turn.calls /\ ledger' = ledger
  BY <1>1, <1>3 DEF Fields
<1>5. Append(turn.calls, Auditing) \in Seq(Uses)
  BY <1>2
<1>6. Kept(turn')
  BY <1>2, <1>4, <1>5 DEF Kept
<1> QED
  BY <1>1, <1>2, <1>4, <1>6, MeteredBooks

\* The books balance, whatever ends a turn and wherever.
THEOREM BooksBalance == Spec => []BooksInv
<1>1. Init => BooksInv
  BY BooksStart
<1>2. DlgInv /\ BooksInv /\ [Next]_vars => BooksInv'
  <2> SUFFICES ASSUME DlgInv, BooksInv, [Next]_vars PROVE BooksInv'
    OBVIOUS
  <2>1. CASE turn.at = "idle" /\ \E m \in Messages : Receive(m)
    BY <2>1, ReceiveBooks
  <2>2. CASE Unavailable \/ BeyondVocabulary
    BY <2>2, ApologyBooks
  <2>3. CASE KilledInGather
    <3>1. turn.at # "idle" /\ \E why : Killed(why)
      BY <2>3 DEF KilledInGather
    <3> QED
      BY <3>1, KilledBooks
  <2>4. CASE Extract \/ Search \/ Resume \/ Requery \/ Choose
    BY <2>4, ExtractBooks, SearchBooks, ResumeBooks, RequeryBooks, ChooseBooks
  <2>5. CASE Compose \/ AuditFigures
    BY <2>5, ComposeBooks, AuditBooks
  <2>6. CASE ScriptedReply \/ Silence \/ Discard \/ SendComposed
    <3>1. turn.at \in {"resolve", "check", "send"}
      BY <2>6 DEF ScriptedReply, Silence, Discard, SendComposed
    <3> QED
      BY <2>6, <3>1, EndedBooks
  <2>7. CASE UNCHANGED vars
    BY <2>7 DEF vars, BooksInv, Books, Balance
  <2> QED
    BY <2>1, <2>2, <2>3, <2>4, <2>5, <2>6, <2>7 DEF Next
<1> QED
  BY <1>1, <1>2, DialogueHolds, PTL DEF Spec

LEMMA BooksAreComplete == ASSUME BooksInv PROVE LedgerIsComplete
<1> SUFFICES ASSUME turn.at = "idle"
             PROVE  /\ Cardinality(ModelRows(ledger)) = Len(owed)
                    /\ \A u \in Range(owed) : Times(ledger, Row(u)) = Times(owed, u)
                    /\ Report(ledger, 1, 0).complete
                          = (\A u \in Range(owed) : Price(u).usd # Unpriced)
  BY DEF LedgerIsComplete
<1>1. ledger \in Seq(LedgerRows) /\ owed \in Seq(Uses)
  BY DEF BooksInv, Books
<1>2. \A T \in SUBSET Uses : CountIn(ledger, RowsFor(T)) = CountIn(owed, T)
  BY DEF BooksInv, Books, Balance
<1>3. Range(owed) \subseteq Uses /\ \A u \in Range(owed) : \E i \in DOMAIN owed : owed[i] = u
  BY <1>1 DEF Range
<1>4. \A i \in DOMAIN ledger : ledger[i].model # NoModel <=> ledger[i] \in RowsFor(Uses)
  <2>1. \A i \in DOMAIN ledger : ledger[i] \in LedgerRows
    BY <1>1
  <2>2. \A row \in LedgerRows : row.model # NoModel <=> row \in RowsFor(Uses)
    <3>1. /\ \A u \in Uses : Row(u).model # NoModel
          /\ \A kind : Row(Message(kind)) \notin RowsFor(Uses) /\ Row(Message(kind)).model = NoModel
      BY RowsAre
    <3> QED
      BY <3>1 DEF LedgerRows, RowsFor
  <2> QED
    BY <2>1, <2>2
<1>5. ModelRows(ledger) = {i \in DOMAIN ledger : ledger[i] \in RowsFor(Uses)}
  BY <1>4 DEF ModelRows
<1>6. Cardinality(ModelRows(ledger)) = Len(owed)
  <2>1. Cardinality(ModelRows(ledger)) = CountIn(owed, Uses)
    BY <1>2, <1>5 DEF CountIn
  <2>2. {i \in DOMAIN owed : owed[i] \in Uses} = 1 .. Len(owed) /\ Len(owed) \in Nat
    BY <1>1
  <2>3. Cardinality(1 .. Len(owed)) = Len(owed)
    <3>1. \A k \in Nat : Cardinality(1 .. k) = k
      BY FS_Interval
    <3> QED
      BY <2>2, <3>1
  <2> QED
    BY <2>1, <2>2, <2>3 DEF CountIn
<1>7. ASSUME NEW u \in Uses
      PROVE  /\ Times(ledger, Row(u)) = Times(owed, u)
             /\ (\E i \in DOMAIN ledger : ledger[i] = Row(u)) <=> \E i \in DOMAIN owed : owed[i] = u
  <2>1. RowsFor({u}) = {Row(u)}
    BY DEF RowsFor
  <2>2. CountIn(ledger, {Row(u)}) = CountIn(owed, {u})
    BY <1>2, <2>1
  <2>3. CountIn(ledger, {Row(u)}) = Times(ledger, Row(u)) /\ CountIn(owed, {u}) = Times(owed, u)
    <3>1. /\ {i \in DOMAIN ledger : ledger[i] \in {Row(u)}} = {i \in DOMAIN ledger : ledger[i] = Row(u)}
          /\ {i \in DOMAIN owed : owed[i] \in {u}} = {i \in DOMAIN owed : owed[i] = u}
      OBVIOUS
    <3> QED
      BY <3>1 DEF CountIn, Times
  <2>4. /\ CountIn(ledger, {Row(u)}) = 0 <=> \A i \in DOMAIN ledger : ledger[i] \notin {Row(u)}
        /\ CountIn(owed, {u}) = 0 <=> \A i \in DOMAIN owed : owed[i] \notin {u}
    BY <1>1, CountIsNat
  <2> QED
    BY <2>2, <2>3, <2>4
<1>8. Report(ledger, 1, 0).complete = (\A u \in Range(owed) : Price(u).usd # Unpriced)
  <2> DEFINE bad == {i \in ModelRows(ledger) : ledger[i].usd = Unpriced}
  <2>1. Report(ledger, 1, 0).complete = (Cardinality(bad) = 0)
    BY DEF Report, UnpricedIn
  <2>2. IsFiniteSet(bad)
    <3>1. IsFiniteSet({i \in DOMAIN ledger : ledger[i] \in RowsFor(Uses)})
      BY <1>1, CountIsNat
    <3>2. bad \in SUBSET ModelRows(ledger)
      OBVIOUS
    <3> QED
      BY <1>5, <3>1, <3>2, FS_Subset
  <2>3. Cardinality(bad) = 0 <=> bad = {}
    BY <2>2, FS_EmptySet
  <2>4. \A u \in Uses : Row(u).usd = Price(u).usd
    BY RowsAre
  <2>5. ASSUME NEW i \in bad PROVE \E u \in Range(owed) : Price(u).usd = Unpriced
    <3>1. PICK u \in Uses : ledger[i] = Row(u)
      BY <1>5 DEF RowsFor
    <3>2. \E j \in DOMAIN owed : owed[j] = u
      BY <1>5, <1>7, <3>1
    <3> QED
      BY <2>4, <3>1, <3>2 DEF Range
  <2>6. ASSUME NEW u \in Range(owed), Price(u).usd = Unpriced PROVE bad # {}
    <3>1. PICK i \in DOMAIN ledger : ledger[i] = Row(u)
      BY <1>3, <1>7
    <3>2. i \in ModelRows(ledger)
      BY <1>3, <1>5, <3>1 DEF RowsFor
    <3> QED
      BY <1>3, <2>4, <2>6, <3>1, <3>2
  <2> QED
    BY <2>1, <2>3, <2>5, <2>6
<1>9. \A u \in Range(owed) : Times(ledger, Row(u)) = Times(owed, u)
  BY <1>3, <1>7
<1> QED
  BY <1>6, <1>8, <1>9

\* Every provider call of every turn that reached the engine is on the ledger once, as
\* itself, and nothing else is; and the report reads complete exactly when all could be
\* priced (metering.py, analytics.py), wherever a turn fails or is rolled back.
THEOREM EveryCallIsMetered == Spec => []LedgerIsComplete
  BY BooksBalance, BooksAreComplete, PTL
=============================================================================
