------------------------- MODULE Speculation_proofs -------------------------
(***************************************************************************)
(* Proofs about Speculation and KvCaches, for every vocabulary, n-gram      *)
(* length, draft length, confidence, history cap and window.                *)
(***************************************************************************)
EXTENDS Speculation, InductionLemmas, SequenceTheorems

-----------------------------------------------------------------------------
(* Folds.  FoldLeft recurs over the parts of its domain; each fold of the   *)
(* model is a list of values, one for each element that was taken.          *)

\* The updates of a ring.
LEMMA UpdatesFold ==
    ASSUME NEW r, NEW n \in Nat, NEW maxSize, NEW keep
    PROVE  \E acc : /\ acc[0] = r
                    /\ \A i \in 1 .. n : acc[i] = Update(acc[i - 1], maxSize, keep)
                    /\ acc[n] = Updates(r, n, maxSize, keep)
<1> DEFINE Is(k, f) == f = [s \in SUBSET (1 .. k) |->
                                IF s = {} THEN r ELSE Update(f[s \ {Max(s)}], maxSize, keep)]
           Reached == {k \in Nat : \E f : Is(k, f)}
<1>1. 0 \in Reached
  <2>1. \A s \in SUBSET (1 .. 0) : s = {}
    OBVIOUS
  <2>2. Is(0, [s \in SUBSET (1 .. 0) |-> r])
    BY <2>1
  <2> QED BY <2>2
<1>2. ASSUME NEW k \in Reached
      PROVE  k + 1 \in Reached
  <2>1. PICK f : Is(k, f)
    OBVIOUS
  <2>2. PICK g : g = [s \in SUBSET (1 .. k + 1) |->
                          IF s = {} THEN r ELSE Update(f[s \ {Max(s)}], maxSize, keep)]
    OBVIOUS
  <2>3. ASSUME NEW s \in SUBSET (1 .. k)
        PROVE  g[s] = f[s]
    <3>1. s \in SUBSET (1 .. k + 1)
      OBVIOUS
    <3>2. g[s] = IF s = {} THEN r ELSE Update(f[s \ {Max(s)}], maxSize, keep)
      BY <2>2, <3>1
    <3>3. f[s] = IF s = {} THEN r ELSE Update(f[s \ {Max(s)}], maxSize, keep)
      BY <2>1
    <3> QED BY <3>2, <3>3
  <2>4. ASSUME NEW s \in SUBSET (1 .. k + 1), s # {}
        PROVE  g[s \ {Max(s)}] = f[s \ {Max(s)}]
    <3>1. s \ {Max(s)} \in SUBSET (1 .. k)
      BY <2>4, MaxDropped
    <3> QED BY <2>3, <3>1
  <2>5. Is(k + 1, g)
    <3>1. ASSUME NEW s \in SUBSET (1 .. k + 1)
          PROVE  (IF s = {} THEN r ELSE Update(f[s \ {Max(s)}], maxSize, keep))
                     = (IF s = {} THEN r ELSE Update(g[s \ {Max(s)}], maxSize, keep))
      <4>1. CASE s = {}
        BY <4>1
      <4>2. CASE s # {}
        <5>1. g[s \ {Max(s)}] = f[s \ {Max(s)}]
          BY <2>4, <4>2
        <5> QED BY <5>1, Zenon
      <4> QED BY <4>1, <4>2
    <3>2. g = [s \in SUBSET (1 .. k + 1) |-> IF s = {} THEN r ELSE Update(g[s \ {Max(s)}], maxSize, keep)]
      BY <2>2, <3>1, Zenon
    <3> QED BY <3>2
  <2>6. k + 1 \in Nat
    OBVIOUS
  <2> QED BY <2>5, <2>6, Zenon
<1>3. Reached = Nat
  <2>1. Reached \in SUBSET Nat
    OBVIOUS
  <2> HIDE DEF Reached
  <2> QED BY <1>1, <1>2, <2>1, SetInduction
<1>4. \E f : Is(n, f)
  BY <1>3
<1> DEFINE it == CHOOSE g : g = [s \in SUBSET (1 .. n) |->
                    IF s = {} THEN r ELSE Update(g[s \ {Max(s)}], maxSize, keep)]
<1>5. it = [s \in SUBSET (1 .. n) |-> IF s = {} THEN r ELSE Update(it[s \ {Max(s)}], maxSize, keep)]
  BY <1>4, Zenon
<1>6. Updates(r, n, maxSize, keep) = it[1 .. n]
  <2>1. DOMAIN [i \in 1 .. n |-> i] = 1 .. n
    OBVIOUS
  <2> QED BY <2>1, Zenon DEF Updates, FoldLeft, MapThenFoldSet
<1> HIDE DEF it
<1>7. PICK acc : acc = [i \in 0 .. n |-> it[1 .. i]]
  OBVIOUS
<1>8. acc[0] = r
  <2>1. 1 .. 0 = {} /\ 0 \in 0 .. n
    OBVIOUS
  <2> QED BY <1>5, <1>7, <2>1
<1>9. ASSUME NEW i \in 1 .. n
      PROVE  acc[i] = Update(acc[i - 1], maxSize, keep)
  <2>1. (1 .. i) \ {Max(1 .. i)} = 1 .. i - 1
    BY MaxOfInterval
  <2>2. 1 .. i \in SUBSET (1 .. n) /\ 1 .. i # {} /\ i \in 0 .. n /\ i - 1 \in 0 .. n
    OBVIOUS
  <2>3. it[1 .. i] = Update(it[1 .. i - 1], maxSize, keep)
    BY <1>5, <2>1, <2>2, Zenon
  <2> QED BY <1>7, <2>2, <2>3
<1>10. acc[n] = it[1 .. n]
  BY <1>7
<1> QED BY <1>6, <1>8, <1>9, <1>10

\* The tokens a proposer is given.
LEMMA AddAllFold ==
    ASSUME NEW d, NEW n \in Nat, NEW tokens, DOMAIN tokens = 1 .. n
    PROVE  \E acc : /\ acc[0] = d
                    /\ \A i \in 1 .. n : acc[i] = Add(acc[i - 1], tokens[i])
                    /\ acc[n] = AddAll(d, tokens)
<1> DEFINE Is(k, f) == f = [s \in SUBSET (1 .. k) |->
                                IF s = {} THEN d ELSE Add(f[s \ {Max(s)}], tokens[Max(s)])]
           Reached == {k \in Nat : \E f : Is(k, f)}
<1>1. 0 \in Reached
  <2>1. \A s \in SUBSET (1 .. 0) : s = {}
    OBVIOUS
  <2>2. Is(0, [s \in SUBSET (1 .. 0) |-> d])
    BY <2>1
  <2> QED BY <2>2
<1>2. ASSUME NEW k \in Reached
      PROVE  k + 1 \in Reached
  <2>1. PICK f : Is(k, f)
    OBVIOUS
  <2>2. PICK g : g = [s \in SUBSET (1 .. k + 1) |->
                          IF s = {} THEN d ELSE Add(f[s \ {Max(s)}], tokens[Max(s)])]
    OBVIOUS
  <2>3. ASSUME NEW s \in SUBSET (1 .. k)
        PROVE  g[s] = f[s]
    <3>1. s \in SUBSET (1 .. k + 1)
      OBVIOUS
    <3>2. g[s] = IF s = {} THEN d ELSE Add(f[s \ {Max(s)}], tokens[Max(s)])
      BY <2>2, <3>1
    <3>3. f[s] = IF s = {} THEN d ELSE Add(f[s \ {Max(s)}], tokens[Max(s)])
      BY <2>1
    <3> QED BY <3>2, <3>3
  <2>4. ASSUME NEW s \in SUBSET (1 .. k + 1), s # {}
        PROVE  g[s \ {Max(s)}] = f[s \ {Max(s)}]
    <3>1. s \ {Max(s)} \in SUBSET (1 .. k)
      BY <2>4, MaxDropped
    <3> QED BY <2>3, <3>1
  <2>5. Is(k + 1, g)
    <3>1. ASSUME NEW s \in SUBSET (1 .. k + 1)
          PROVE  (IF s = {} THEN d ELSE Add(f[s \ {Max(s)}], tokens[Max(s)]))
                     = (IF s = {} THEN d ELSE Add(g[s \ {Max(s)}], tokens[Max(s)]))
      <4>1. CASE s = {}
        BY <4>1
      <4>2. CASE s # {}
        <5>1. g[s \ {Max(s)}] = f[s \ {Max(s)}]
          BY <2>4, <4>2
        <5> QED BY <5>1, Zenon
      <4> QED BY <4>1, <4>2
    <3>2. g = [s \in SUBSET (1 .. k + 1) |-> IF s = {} THEN d ELSE Add(g[s \ {Max(s)}], tokens[Max(s)])]
      BY <2>2, <3>1, Zenon
    <3> QED BY <3>2
  <2>6. k + 1 \in Nat
    OBVIOUS
  <2> QED BY <2>5, <2>6, Zenon
<1>3. Reached = Nat
  <2>1. Reached \in SUBSET Nat
    OBVIOUS
  <2> HIDE DEF Reached
  <2> QED BY <1>1, <1>2, <2>1, SetInduction
<1>4. \E f : Is(n, f)
  BY <1>3
<1> DEFINE it == CHOOSE g : g = [s \in SUBSET (1 .. n) |->
                    IF s = {} THEN d ELSE Add(g[s \ {Max(s)}], tokens[Max(s)])]
<1>5. it = [s \in SUBSET (1 .. n) |-> IF s = {} THEN d ELSE Add(it[s \ {Max(s)}], tokens[Max(s)])]
  BY <1>4, Zenon
<1>6. AddAll(d, tokens) = it[1 .. n]
  BY Zenon DEF AddAll, FoldLeft, MapThenFoldSet
<1> HIDE DEF it
<1>7. PICK acc : acc = [i \in 0 .. n |-> it[1 .. i]]
  OBVIOUS
<1>8. acc[0] = d
  <2>1. 1 .. 0 = {} /\ 0 \in 0 .. n
    OBVIOUS
  <2> QED BY <1>5, <1>7, <2>1
<1>9. ASSUME NEW i \in 1 .. n
      PROVE  acc[i] = Add(acc[i - 1], tokens[i])
  <2>1. (1 .. i) \ {Max(1 .. i)} = 1 .. i - 1 /\ Max(1 .. i) = i
    BY MaxOfInterval
  <2>2. 1 .. i \in SUBSET (1 .. n) /\ 1 .. i # {} /\ i \in 0 .. n /\ i - 1 \in 0 .. n
    OBVIOUS
  <2>3. it[1 .. i] = Add(it[1 .. i - 1], tokens[i])
    BY <1>5, <2>1, <2>2, Zenon
  <2> QED BY <1>7, <2>2, <2>3
<1>10. acc[n] = it[1 .. n]
  BY <1>7
<1> QED BY <1>6, <1>8, <1>9, <1>10

\* The rounds of a vote.
LEMMA DraftFold ==
    ASSUME NEW d, NEW positions
    PROVE  \E acc : /\ acc[0] = [draft |-> <<>>, matches |-> positions, done |-> FALSE]
                    /\ \A i \in 1 .. MaxDraftTokens : acc[i] = Vote(d, acc[i - 1], i - 1)
                    /\ buildDraft(d, positions) = acc[MaxDraftTokens].draft
<1>n. PICK n \in Nat : n = MaxDraftTokens
  BY SpeculationAssumption
<1> DEFINE start == [draft |-> <<>>, matches |-> positions, done |-> FALSE]
           rounds == [i \in 1 .. MaxDraftTokens |-> i]
           Is(k, f) == f = [s \in SUBSET (1 .. k) |->
                                IF s = {} THEN start ELSE Vote(d, f[s \ {Max(s)}], rounds[Max(s)] - 1)]
           Reached == {k \in Nat : \E f : Is(k, f)}
<1> HIDE DEF start, rounds
<1>1. 0 \in Reached
  <2>1. \A s \in SUBSET (1 .. 0) : s = {}
    OBVIOUS
  <2>2. Is(0, [s \in SUBSET (1 .. 0) |-> start])
    BY <2>1
  <2> QED BY <2>2
<1>2. ASSUME NEW k \in Reached
      PROVE  k + 1 \in Reached
  <2>1. PICK f : Is(k, f)
    OBVIOUS
  <2>2. PICK g : g = [s \in SUBSET (1 .. k + 1) |->
                          IF s = {} THEN start ELSE Vote(d, f[s \ {Max(s)}], rounds[Max(s)] - 1)]
    OBVIOUS
  <2>3. ASSUME NEW s \in SUBSET (1 .. k)
        PROVE  g[s] = f[s]
    <3>1. s \in SUBSET (1 .. k + 1)
      OBVIOUS
    <3>2. g[s] = IF s = {} THEN start ELSE Vote(d, f[s \ {Max(s)}], rounds[Max(s)] - 1)
      BY <2>2, <3>1
    <3>3. f[s] = IF s = {} THEN start ELSE Vote(d, f[s \ {Max(s)}], rounds[Max(s)] - 1)
      BY <2>1
    <3> QED BY <3>2, <3>3
  <2>4. ASSUME NEW s \in SUBSET (1 .. k + 1), s # {}
        PROVE  g[s \ {Max(s)}] = f[s \ {Max(s)}]
    <3>1. s \ {Max(s)} \in SUBSET (1 .. k)
      BY <2>4, MaxDropped
    <3> QED BY <2>3, <3>1
  <2>5. Is(k + 1, g)
    <3>1. ASSUME NEW s \in SUBSET (1 .. k + 1)
          PROVE  (IF s = {} THEN start ELSE Vote(d, f[s \ {Max(s)}], rounds[Max(s)] - 1))
                     = (IF s = {} THEN start ELSE Vote(d, g[s \ {Max(s)}], rounds[Max(s)] - 1))
      <4>1. CASE s = {}
        BY <4>1
      <4>2. CASE s # {}
        <5>1. g[s \ {Max(s)}] = f[s \ {Max(s)}]
          BY <2>4, <4>2
        <5> QED BY <5>1, Zenon
      <4> QED BY <4>1, <4>2
    <3>2. g = [s \in SUBSET (1 .. k + 1) |-> IF s = {} THEN start ELSE Vote(d, g[s \ {Max(s)}], rounds[Max(s)] - 1)]
      BY <2>2, <3>1, Zenon
    <3> QED BY <3>2
  <2>6. k + 1 \in Nat
    OBVIOUS
  <2> QED BY <2>5, <2>6, Zenon
<1>3. Reached = Nat
  <2>1. Reached \in SUBSET Nat
    OBVIOUS
  <2> HIDE DEF Reached
  <2> QED BY <1>1, <1>2, <2>1, SetInduction
<1>4. \E f : Is(n, f)
  BY <1>3
<1> DEFINE it == CHOOSE g : g = [s \in SUBSET (1 .. n) |->
                    IF s = {} THEN start ELSE Vote(d, g[s \ {Max(s)}], rounds[Max(s)] - 1)]
<1>5. it = [s \in SUBSET (1 .. n) |-> IF s = {} THEN start ELSE Vote(d, it[s \ {Max(s)}], rounds[Max(s)] - 1)]
  BY <1>4, Zenon
<1>6. buildDraft(d, positions) = it[1 .. n].draft
  <2>1. DOMAIN rounds = 1 .. n
    BY <1>n DEF rounds
  <2> QED BY <1>n, <2>1, Zenon DEF buildDraft, FoldLeft, MapThenFoldSet, start, rounds
<1> HIDE DEF it
<1>7. PICK acc : acc = [i \in 0 .. n |-> it[1 .. i]]
  OBVIOUS
<1>8. acc[0] = start
  <2>1. 1 .. 0 = {} /\ 0 \in 0 .. n
    OBVIOUS
  <2> QED BY <1>5, <1>7, <2>1
<1>9. ASSUME NEW i \in 1 .. n
      PROVE  acc[i] = Vote(d, acc[i - 1], i - 1)
  <2>1. (1 .. i) \ {Max(1 .. i)} = 1 .. i - 1 /\ Max(1 .. i) = i
    BY MaxOfInterval
  <2>2. 1 .. i \in SUBSET (1 .. n) /\ 1 .. i # {} /\ i \in 0 .. n /\ i - 1 \in 0 .. n
    OBVIOUS
  <2>3. rounds[i] = i
    BY <1>n DEF rounds
  <2>4. it[1 .. i] = Vote(d, it[1 .. i - 1], i - 1)
    BY <1>5, <2>3, <2>1, <2>2, Zenon
  <2> QED BY <1>7, <2>2, <2>4
<1>10. acc[n] = it[1 .. n]
  BY <1>7
<1> QED BY <1>n, <1>6, <1>8, <1>9, <1>10 DEF start

-----------------------------------------------------------------------------
(* The index.  What a proposer holds is a function of the sequence.         *)

\* The k-gram that follows the first x tokens.
Gram(s, k, x) == SubSeq(s, x + 1, x + k)

\* The k-grams from lo on, each with the places it is filed under.
Bucket(s, lo, k, off) ==
    [g \in {Gram(s, k, x) : x \in lo .. Len(s) - k} |->
        {x + off : x \in {y \in lo .. Len(s) - k : Gram(s, k, y) = g}}]

BySuffix == config.proposer = "suffix"
Lo(s) == IF BySuffix /\ config.maxHistory > 0 THEN Max({0, Len(s) - config.maxHistory}) ELSE 0
Off(k) == IF BySuffix THEN k - 1 ELSE 0
Lengths == IF BySuffix THEN 1 .. MaxSuffixLen ELSE {NgramSize}
DecOf(s) == [tokens |-> SubSeq(s, Lo(s) + 1, Len(s)), shift |-> Lo(s),
             index |-> [k \in Lengths |-> Bucket(s, Lo(s), k, Off(k))]]

\* What the assumptions say of a configuration.
LEMMA ConfigFacts ==
    ASSUME config \in Configs
    PROVE  /\ config.proposer \in {"suffix", "lookup"}
           /\ config.maxHistory \in Int /\ config.maxSize \in Int /\ config.keep \in Nat
           /\ \A k \in Lengths : k \in Nat \ {0} /\ Off(k) \in Nat
           /\ Vocab \subseteq Nat /\ IsFiniteSet(Vocab)
           /\ MaxDraftTokens \in Nat \ {0} /\ MaxSuffixLen \in Nat \ {0} /\ NgramSize \in Nat \ {0}
           /\ MinMatches \in Nat \ {0} /\ MinConfidence \in Nat /\ MaxPrompt \in Nat /\ MaxSeq \in Nat
<1>1. config \in [proposer : {"suffix", "lookup"}, maxHistory : Int, maxSize : Int, keep : Nat]
  BY SpeculationAssumption
<1>2. /\ MaxDraftTokens \in Nat \ {0} /\ MaxSuffixLen \in Nat \ {0} /\ NgramSize \in Nat \ {0}
      /\ MinMatches \in Nat \ {0} /\ MinConfidence \in Nat /\ MaxPrompt \in Nat /\ MaxSeq \in Nat
  BY SpeculationAssumption
<1>3. \A k \in Lengths : k \in Nat \ {0} /\ Off(k) \in Nat
  BY <1>2 DEF Lengths, Off
<1> QED BY <1>1, <1>2, <1>3, SpeculationAssumption

\* The greater of zero and another number.
LEMMA MaxZero == \A a \in Int : Max({0, a}) = IF a > 0 THEN a ELSE 0
<1> SUFFICES ASSUME NEW a \in Int
             PROVE  Max({0, a}) = IF a > 0 THEN a ELSE 0
  OBVIOUS
<1>1. PICK b \in {0, a} : b = IF a > 0 THEN a ELSE 0
  OBVIOUS
<1>2. (\A y \in {0, a} : b >= y) /\ \A x \in {0, a} : (\A y \in {0, a} : x >= y) => x = b
  BY <1>1
<1>3. Max({0, a}) = b
  BY <1>2 DEF Max
<1> QED BY <1>1, <1>3

\* Where the remembered history begins.
LEMMA LoFacts ==
    ASSUME config \in Configs, NEW s \in Seq(Vocab)
    PROVE  /\ Len(s) \in Nat /\ Lo(s) \in Nat /\ Lo(s) <= Len(s)
           /\ Lo(s) = IF BySuffix /\ config.maxHistory > 0 /\ Len(s) > config.maxHistory
                      THEN Len(s) - config.maxHistory ELSE 0
<1>1. PICK h \in Int, n \in Nat : h = config.maxHistory /\ n = Len(s)
  BY ConfigFacts
<1>2. Max({0, n - h}) = IF n - h > 0 THEN n - h ELSE 0
  BY <1>1, MaxZero
<1> QED BY <1>1, <1>2 DEF Lo

\* What appending does.
LEMMA AppendFacts ==
    ASSUME NEW s \in Seq(Vocab), NEW t \in Vocab
    PROVE  /\ Len(s) \in Nat /\ Append(s, t) \in Seq(Vocab) /\ Len(Append(s, t)) = Len(s) + 1
           /\ Append(s, t)[Len(s) + 1] = t /\ Append(s, t) = s \o <<t>> /\ <<t>> \in Seq(Vocab)
           /\ \A i \in 1 .. Len(s) : Append(s, t)[i] = s[i]
<1>1. Len(s) \in Nat /\ <<t>> \in Seq(Vocab)
  OBVIOUS
<1>2. /\ Append(s, t) \in Seq(Vocab) /\ Len(Append(s, t)) = Len(s) + 1
      /\ Append(s, t)[Len(s) + 1] = t
  BY AppendProperties, Zenon
<1>3. Append(s, t) = s \o <<t>>
  BY AppendIsConcat, Zenon
<1>4. ASSUME NEW i \in 1 .. Len(s)
      PROVE  Append(s, t)[i] = s[i]
  BY AppendProperties
<1> QED BY <1>1, <1>2, <1>3, <1>4

\* A part of a part.
LEMMA SubSubSeq ==
    ASSUME NEW s \in Seq(Vocab), NEW i \in 1 .. Len(s), NEW j \in 1 .. Len(s),
           NEW m \in 1 .. j - i + 1, NEW e \in 1 .. j - i + 1
    PROVE  SubSeq(SubSeq(s, i, j), m, e) = SubSeq(s, i + m - 1, i + e - 1)
<1>1. \A x \in Seq(Vocab) : SubSeq(SubSeq(s, i, j), m, e) = SubSeq(s, i + m - 1, i + e - 1)
  BY SubSeqOfSubSeq
<1> QED BY <1>1

\* A token more leaves the n-grams before it as they were.
LEMMA GramKept ==
    ASSUME NEW s \in Seq(Vocab), NEW t \in Vocab, NEW k \in Nat \ {0}, NEW x \in 0 .. Len(s) - k
    PROVE  Gram(Append(s, t), k, x) = Gram(s, k, x)
<1>1. x + 1 \in 1 .. Len(s) /\ x + k \in 1 .. Len(s)
  OBVIOUS
<1>2. <<t>> \in Seq(Vocab) /\ Append(s, t) = s \o <<t>>
  BY AppendIsConcat
<1> QED BY <1>1, <1>2, SubSeqOfConcat1 DEF Gram

\* Filing the last k-gram keeps a bucket exact.
LEMMA BucketFile ==
    ASSUME NEW s \in Seq(Vocab), NEW t \in Vocab, NEW k \in Nat \ {0}, NEW lo \in Nat, NEW off \in Nat,
           lo <= Len(s) + 1 - k
    PROVE  File(Bucket(s, lo, k, off), Gram(Append(s, t), k, Len(s) + 1 - k), Len(s) + 1 - k + off)
               = Bucket(Append(s, t), lo, k, off)
<1>1. PICK z \in Nat, u \in Seq(Vocab) : z = Len(s) + 1 - k /\ u = Append(s, t)
  <2>1. Len(s) + 1 - k \in Nat /\ Append(s, t) \in Seq(Vocab)
    OBVIOUS
  <2> QED BY <2>1
<1>2. Len(s) - k = z - 1 /\ Len(u) - k = z
  <2>1. Len(u) = Len(s) + 1 /\ Len(s) \in Nat
    BY <1>1, AppendFacts
  <2> QED BY <1>1, <2>1
<1>3. PICK last : last = Gram(u, k, z)
  OBVIOUS
<1>4. lo .. z = (lo .. z - 1) \cup {z} /\ z \notin lo .. z - 1
  BY <1>1
<1>5. \A x \in lo .. z - 1 : Gram(u, k, x) = Gram(s, k, x)
  BY <1>1, GramKept
<1>6. PICK bucket : bucket = Bucket(s, lo, k, off)
  OBVIOUS
<1>7. /\ DOMAIN bucket = {Gram(s, k, x) : x \in lo .. z - 1}
      /\ \A g \in DOMAIN bucket : bucket[g] = {x + off : x \in {y \in lo .. z - 1 : Gram(s, k, y) = g}}
  BY <1>2, <1>6 DEF Bucket
<1>8. {Gram(u, k, x) : x \in lo .. z} = (DOMAIN bucket) \cup {last}
  BY <1>3, <1>4, <1>5, <1>7
<1>9. ASSUME NEW g \in (DOMAIN bucket) \cup {last}
      PROVE  {x + off : x \in {y \in lo .. z : Gram(u, k, y) = g}}
                 = (IF g \in DOMAIN bucket THEN bucket[g] ELSE {}) \cup (IF g = last THEN {z + off} ELSE {})
  <2>1. {y \in lo .. z : Gram(u, k, y) = g}
            = {y \in lo .. z - 1 : Gram(s, k, y) = g} \cup (IF g = last THEN {z} ELSE {})
    BY <1>3, <1>4, <1>5
  <2>2. g \notin DOMAIN bucket => {y \in lo .. z - 1 : Gram(s, k, y) = g} = {}
    BY <1>7
  <2>3. (IF g \in DOMAIN bucket THEN bucket[g] ELSE {})
            = {x + off : x \in {y \in lo .. z - 1 : Gram(s, k, y) = g}}
    BY <1>7, <2>2
  <2> QED BY <2>1, <2>3, ZenonT(40)
<1>10. Bucket(u, lo, k, off) = [g \in (DOMAIN bucket) \cup {last} |->
           {x + off : x \in {y \in lo .. z : Gram(u, k, y) = g}}]
  BY <1>2, <1>8 DEF Bucket
<1>11. File(bucket, last, z + off) = [g \in (DOMAIN bucket) \cup {last} |->
           (IF g \in DOMAIN bucket THEN bucket[g] ELSE {}) \cup (IF g = last THEN {z + off} ELSE {})]
  BY DEF File
<1>12. File(bucket, last, z + off) = Bucket(u, lo, k, off)
  BY <1>9, <1>10, <1>11
<1> QED BY <1>1, <1>3, <1>6, <1>12

\* A sequence that is too short has no k-gram, before and after a token.
LEMMA BucketShort ==
    ASSUME NEW s \in Seq(Vocab), NEW t \in Vocab, NEW k \in Nat \ {0}, NEW lo \in Nat, NEW off \in Nat,
           lo > Len(s) + 1 - k
    PROVE  Bucket(s, lo, k, off) = Bucket(Append(s, t), lo, k, off)
<1>1. lo .. Len(s) - k = {} /\ lo .. Len(Append(s, t)) - k = {}
  BY AppendProperties
<1> QED BY <1>1 DEF Bucket

\* What is left of a bucket from place m on, and without the empty lists.
Kept(bucket, m) == [g \in DOMAIN bucket |-> {e \in bucket[g] : e >= m}]
Pruned(f) == [g \in {x \in DOMAIN f : f[x] # {}} |-> f[g]]

\* Dropping the places before lo2 leaves the bucket from there on.
LEMMA BucketTrim ==
    ASSUME NEW s \in Seq(Vocab), NEW k \in Nat \ {0}, NEW lo \in Nat, NEW off \in Nat, NEW lo2 \in Nat,
           lo <= lo2
    PROVE  Pruned(Kept(Bucket(s, lo, k, off), lo2 + off)) = Bucket(s, lo2, k, off)
<1>b. PICK bucket : bucket = Bucket(s, lo, k, off)
  OBVIOUS
<1>k. PICK kept : kept = [g \in DOMAIN bucket |-> {e \in bucket[g] : e >= lo2 + off}]
  OBVIOUS
<1>1. PICK z \in Int : z = Len(s) - k
  <2>1. Len(s) - k \in Int
    OBVIOUS
  <2> QED BY <2>1
<1>2. /\ DOMAIN bucket = {Gram(s, k, x) : x \in lo .. z}
      /\ \A g \in DOMAIN bucket : bucket[g] = {x + off : x \in {y \in lo .. z : Gram(s, k, y) = g}}
  BY <1>1, <1>b DEF Bucket
<1>3. ASSUME NEW g \in DOMAIN bucket
      PROVE  kept[g] = {x + off : x \in {y \in lo2 .. z : Gram(s, k, y) = g}}
  <2>1. kept[g] = {e \in {x + off : x \in {y \in lo .. z : Gram(s, k, y) = g}} : e >= lo2 + off}
    BY <1>2, <1>k
  <2>2. \A x \in lo .. z : x + off >= lo2 + off <=> x \in lo2 .. z
    BY <1>1
  <2>3. lo2 .. z \subseteq lo .. z
    BY <1>1
  <2> QED BY <2>1, <2>2, <2>3
<1>4. {x \in DOMAIN bucket : kept[x] # {}} = {Gram(s, k, x) : x \in lo2 .. z}
  <2>1. lo2 .. z \subseteq lo .. z
    BY <1>1
  <2>2. \A g \in DOMAIN bucket : kept[g] # {} <=> \E y \in lo2 .. z : Gram(s, k, y) = g
    <3>1. ASSUME NEW g \in DOMAIN bucket
          PROVE  kept[g] # {} <=> \E y \in lo2 .. z : Gram(s, k, y) = g
      <4>1. kept[g] = {x + off : x \in {y \in lo2 .. z : Gram(s, k, y) = g}}
        BY <1>3
      <4> QED BY <4>1, Zenon
    <3> QED BY <3>1
  <2> QED BY <1>2, <2>1, <2>2
<1>5. Bucket(s, lo2, k, off) = [g \in {Gram(s, k, x) : x \in lo2 .. z} |->
          {x + off : x \in {y \in lo2 .. z : Gram(s, k, y) = g}}]
  BY <1>1 DEF Bucket
<1>6. \A g \in {x \in DOMAIN bucket : kept[x] # {}} :
          kept[g] = {x + off : x \in {y \in lo2 .. z : Gram(s, k, y) = g}}
  BY <1>3
<1>7. [g \in {x \in DOMAIN bucket : kept[x] # {}} |-> kept[g]] = Bucket(s, lo2, k, off)
  BY <1>4, <1>5, <1>6
<1>8. DOMAIN kept = DOMAIN bucket /\ kept = Kept(bucket, lo2 + off)
  BY <1>k DEF Kept
<1>9. Pruned(kept) = [g \in {x \in DOMAIN bucket : kept[x] # {}} |-> kept[g]]
  BY <1>8, Zenon DEF Pruned
<1> QED BY <1>b, <1>7, <1>8, <1>9

\* The remembered history with a token more.
LEMMA TailAppend ==
    ASSUME NEW s \in Seq(Vocab), NEW t \in Vocab, NEW lo \in 0 .. Len(s)
    PROVE  /\ Append(SubSeq(s, lo + 1, Len(s)), t) = SubSeq(Append(s, t), lo + 1, Len(s) + 1)
           /\ SubSeq(s, lo + 1, Len(s)) \in Seq(Vocab) /\ Len(SubSeq(s, lo + 1, Len(s))) = Len(s) - lo
<1>1. PICK n \in Nat, u \in Seq(Vocab) : n = Len(s) /\ u = Append(s, t)
  BY AppendFacts
<1>2. Len(u) = n + 1 /\ u[n + 1] = t /\ u = s \o <<t>> /\ <<t>> \in Seq(Vocab)
  BY <1>1, AppendFacts
<1>3. SubSeq(s, lo + 1, n) \in Seq(Vocab) /\ Len(SubSeq(s, lo + 1, n)) = n - lo
  <2>1. \A i \in lo + 1 .. n : s[i] \in Vocab
    BY <1>1
  <2>2. lo + 1 \in Int /\ n \in Int
    OBVIOUS
  <2>3. PICK q : q = SubSeq(s, lo + 1, n)
    OBVIOUS
  <2>4. q \in Seq(Vocab) /\ Len(q) = IF lo + 1 <= n THEN n - (lo + 1) + 1 ELSE 0
    BY <2>1, <2>2, <2>3, SubSeqProperties
  <2>5. lo <= n
    BY <1>1
  <2>6. Len(q) = n - lo
    BY <2>4, <2>5
  <2> QED BY <2>3, <2>4, <2>6
<1>4. SubSeq(u, lo + 1, n) = SubSeq(s, lo + 1, n)
  <2>1. CASE lo = n
    <3>1. n < lo + 1 /\ lo + 1 \in Int /\ n \in Int
      BY <2>1
    <3> QED BY <3>1, SubSeqEmpty
  <2>2. CASE lo < n
    <3>1. lo + 1 \in 1 .. Len(s) /\ n \in 1 .. Len(s)
      BY <1>1, <2>2
    <3> QED BY <1>2, <3>1, SubSeqOfConcat1
  <2> QED BY <1>1, <2>1, <2>2
<1>5. SubSeq(u, lo + 1, n + 1) = SubSeq(u, lo + 1, n) \o <<u[n + 1]>>
  <2>1. PICK m \in 1 .. Len(u) : m = lo + 1
    BY <1>1, <1>2
  <2>2. PICK e \in m .. Len(u) : e = n + 1
    BY <1>1, <1>2, <2>1
  <2>3. SubSeq(u, m, e) = SubSeq(u, m, e - 1) \o <<u[e]>>
    BY SubSeqRecursiveSecond
  <2>4. e - 1 = n
    BY <2>2
  <2> QED BY <2>1, <2>2, <2>3, <2>4
<1>6. Append(SubSeq(s, lo + 1, n), t) = SubSeq(s, lo + 1, n) \o <<t>>
  BY <1>3, AppendIsConcat
<1>7. Append(SubSeq(s, lo + 1, n), t) = SubSeq(u, lo + 1, n + 1)
  BY <1>2, <1>4, <1>5, <1>6
<1> QED BY <1>1, <1>3, <1>7

\* The last k tokens of the history are the last k of the sequence.
LEMMA LastOfTail ==
    ASSUME NEW u \in Seq(Vocab), NEW lo \in Nat, NEW k \in Nat \ {0}, k <= Len(u) - lo
    PROVE  LastOf(SubSeq(u, lo + 1, Len(u)), k) = Gram(u, k, Len(u) - k)
<1>1. PICK n \in Nat, l \in Nat : n = Len(u) /\ l = n - lo /\ k <= l
  <2>1. Len(u) \in Nat /\ Len(u) - lo \in Nat
    OBVIOUS
  <2> QED BY <2>1
<1>2. PICK q : q = SubSeq(u, lo + 1, n)
  OBVIOUS
<1>3. Len(q) = l
  <2>1. \A i \in lo + 1 .. n : u[i] \in Vocab
    BY <1>1
  <2>2. lo + 1 \in Int /\ n \in Int
    OBVIOUS
  <2>3. Len(q) = IF lo + 1 <= n THEN n - (lo + 1) + 1 ELSE 0
    BY <1>2, <2>1, <2>2, SubSeqProperties
  <2> QED BY <1>1, <2>3
<1>i. PICK i \in 1 .. Len(u) : i = lo + 1
  BY <1>1
<1>4. PICK m \in 1 .. n - i + 1, e \in 1 .. n - i + 1 : m = l - k + 1 /\ e = l
  <2>1. n - i + 1 = l
    BY <1>1, <1>i
  <2>2. l - k + 1 \in 1 .. l /\ l \in 1 .. l
    BY <1>1
  <2> QED BY <2>1, <2>2
<1>5. n \in 1 .. Len(u)
  BY <1>1
<1>6. SubSeq(SubSeq(u, i, n), m, e) = SubSeq(u, i + m - 1, i + e - 1)
  BY <1>5, SubSubSeq
<1>7. i + m - 1 = (n - k) + 1 /\ i + e - 1 = (n - k) + k
  BY <1>1, <1>i, <1>4
<1>8. LastOf(q, k) = SubSeq(q, m, e)
  BY <1>3, <1>4 DEF LastOf
<1>9. LastOf(q, k) = SubSeq(u, (n - k) + 1, (n - k) + k)
  BY <1>2, <1>i, <1>6, <1>7, <1>8
<1> QED BY <1>1, <1>2, <1>9 DEF Gram

\* A token more keeps the suffix decoder exact, whether it trims or not.
LEMMA SuffixAdds ==
    ASSUME config \in Configs, BySuffix, NEW s \in Seq(Vocab), NEW t \in Vocab
    PROVE  SuffixAdd(DecOf(s), t) = DecOf(Append(s, t))
<1>1. PICK n \in Nat, u \in Seq(Vocab), lo \in Nat, lo2 \in Nat, h \in Int :
          n = Len(s) /\ u = Append(s, t) /\ lo = Lo(s) /\ lo2 = Lo(u) /\ h = config.maxHistory
  <2>1. Append(s, t) \in Seq(Vocab)
    OBVIOUS
  <2>2. Lo(s) \in Nat /\ Lo(Append(s, t)) \in Nat /\ Len(s) \in Nat /\ config.maxHistory \in Int
    BY <2>1, LoFacts, ConfigFacts
  <2> QED BY <2>1, <2>2
<1>2. /\ Len(u) = n + 1 /\ lo <= n
      /\ lo = IF h > 0 /\ n > h THEN n - h ELSE 0
      /\ lo2 = IF h > 0 /\ n + 1 > h THEN n + 1 - h ELSE 0
  <2>1. Len(u) = n + 1
    BY <1>1, AppendFacts
  <2>2. lo <= n /\ lo = IF h > 0 /\ n > h THEN n - h ELSE 0
    BY <1>1, LoFacts
  <2>3. lo2 = IF h > 0 /\ n + 1 > h THEN n + 1 - h ELSE 0
    <3>1. Lo(u) = IF BySuffix /\ config.maxHistory > 0 /\ Len(u) > config.maxHistory
                  THEN Len(u) - config.maxHistory ELSE 0
      BY LoFacts
    <3> QED BY <1>1, <2>1, <3>1
  <2> QED BY <2>1, <2>2, <2>3
<1>3. PICK tokens : tokens = SubSeq(u, lo + 1, n + 1)
  OBVIOUS
<1>4. /\ Append(DecOf(s).tokens, t) = tokens
      /\ Len(tokens) = n + 1 - lo
  <2>0. lo \in 0 .. Len(s)
    BY <1>1, <1>2
  <2>1. Append(SubSeq(s, lo + 1, n), t) = tokens
    BY <1>1, <1>3, <2>0, TailAppend
  <2>2. Len(SubSeq(s, lo + 1, n)) = n - lo /\ SubSeq(s, lo + 1, n) \in Seq(Vocab)
    BY <1>1, <2>0, TailAppend
  <2>3. DecOf(s).tokens = SubSeq(s, lo + 1, n)
    BY <1>1 DEF DecOf
  <2>4. Len(tokens) = (n - lo) + 1
    BY <2>1, <2>2, AppendFacts
  <2> QED BY <2>1, <2>3, <2>4
<1>5. ASSUME NEW k \in Lengths, k <= Len(tokens)
      PROVE  /\ File(Bucket(s, lo, k, Off(k)), LastOf(tokens, k), lo + Len(tokens) - 1) = Bucket(u, lo, k, Off(k))
  <2>1. k \in Nat \ {0} /\ Off(k) = k - 1 /\ Off(k) \in Nat
    BY ConfigFacts DEF Off
  <2>2. LastOf(tokens, k) = Gram(u, k, n + 1 - k)
    <3>1. k <= Len(u) - lo /\ Len(u) = n + 1
      BY <1>2, <1>4, <1>5, <2>1
    <3>2. LastOf(SubSeq(u, lo + 1, Len(u)), k) = Gram(u, k, Len(u) - k)
      BY <2>1, <3>1, LastOfTail
    <3> QED BY <1>3, <2>1, <3>1, <3>2
  <2>3. lo + Len(tokens) - 1 = n + 1 - k + Off(k) /\ lo <= n + 1 - k
    BY <1>2, <1>4, <1>5, <2>1
  <2>4. File(Bucket(s, lo, k, Off(k)), Gram(u, k, n + 1 - k), n + 1 - k + Off(k)) = Bucket(u, lo, k, Off(k))
    BY <1>1, <2>1, <2>3, BucketFile
  <2> QED BY <2>2, <2>3, <2>4
<1>6. ASSUME NEW k \in Lengths, k > Len(tokens)
      PROVE  Bucket(s, lo, k, Off(k)) = Bucket(u, lo, k, Off(k))
  <2>1. k \in Nat \ {0} /\ Off(k) \in Nat
    BY ConfigFacts
  <2>2. lo > n + 1 - k
    BY <1>2, <1>4, <1>6, <2>1
  <2> QED BY <1>1, <2>1, <2>2, BucketShort
<1>7. PICK d : d = [tokens |-> tokens, shift |-> lo, index |-> [k \in Lengths |-> Bucket(u, lo, k, Off(k))]]
  OBVIOUS
<1>8. SuffixAdd(DecOf(s), t) = trim(d, h)
  <2>1. DecOf(s) = [tokens |-> SubSeq(s, lo + 1, n), shift |-> lo,
                    index |-> [k \in Lengths |-> Bucket(s, lo, k, Off(k))]]
    BY <1>1 DEF DecOf
  <2>2. \A k \in Lengths : (IF k > Len(tokens) THEN DecOf(s).index[k]
                            ELSE File(DecOf(s).index[k], LastOf(tokens, k), DecOf(s).shift + Len(tokens) - 1))
                               = Bucket(u, lo, k, Off(k))
    <3>1. ASSUME NEW k \in Lengths
          PROVE  (IF k > Len(tokens) THEN Bucket(s, lo, k, Off(k))
                  ELSE File(Bucket(s, lo, k, Off(k)), LastOf(tokens, k), lo + Len(tokens) - 1))
                     = Bucket(u, lo, k, Off(k))
      <4>1. k \in Nat /\ Len(tokens) \in Int
        BY <1>2, <1>4, ConfigFacts
      <4>2. CASE k > Len(tokens)
        BY <1>6, <4>2
      <4>3. CASE ~(k > Len(tokens))
        <5>1. k <= Len(tokens)
          BY <4>1, <4>3
        <5> QED BY <1>5, <4>3, <5>1
      <4> QED BY <4>2, <4>3
    <3>2. DecOf(s).shift = lo /\ \A k \in Lengths : DecOf(s).index[k] = Bucket(s, lo, k, Off(k))
      BY <2>1
    <3> QED BY <3>1, <3>2
  <2>3. DOMAIN DecOf(s).index = Lengths
    BY <2>1
  <2>5. [k \in DOMAIN DecOf(s).index |->
            IF k > Len(tokens) THEN DecOf(s).index[k]
            ELSE File(DecOf(s).index[k], LastOf(tokens, k), DecOf(s).shift + Len(tokens) - 1)]
          = [k \in Lengths |-> Bucket(u, lo, k, Off(k))]
    BY <2>2, <2>3
  <2>6. SuffixAdd(DecOf(s), t) =
            trim([tokens |-> tokens, shift |-> DecOf(s).shift,
                  index |-> [k \in DOMAIN DecOf(s).index |->
                      IF k > Len(tokens) THEN DecOf(s).index[k]
                      ELSE File(DecOf(s).index[k], LastOf(tokens, k), DecOf(s).shift + Len(tokens) - 1)]],
                 config.maxHistory)
    BY <1>4, Zenon DEF SuffixAdd
  <2>7. DecOf(s).shift = lo
    BY <2>1
  <2> QED BY <1>1, <1>7, <2>5, <2>6, <2>7
<1>9. DecOf(u) = [tokens |-> SubSeq(u, lo2 + 1, n + 1), shift |-> lo2,
                  index |-> [k \in Lengths |-> Bucket(u, lo2, k, Off(k))]]
  BY <1>1, <1>2 DEF DecOf
<1>10. CASE h <= 0 \/ Len(tokens) - h <= 0
  <2>1. lo2 = lo
    BY <1>2, <1>4, <1>10
  <2>2. trim(d, h) = d
    BY <1>7, <1>10 DEF trim
  <2> QED BY <1>1, <1>3, <1>7, <1>8, <1>9, <2>1, <2>2
<1>11. CASE ~(h <= 0 \/ Len(tokens) - h <= 0)
  <2>1. PICK drop \in Nat : drop = Len(tokens) - h /\ lo2 = lo + drop /\ h \in 1 .. n + 1
    BY <1>2, <1>4, <1>11
  <2>2. LastOf(tokens, h) = SubSeq(u, lo2 + 1, n + 1)
    <3>1. h \in Nat \ {0} /\ h <= Len(u) - lo /\ Len(u) = n + 1
      BY <1>2, <1>4, <1>11, <2>1
    <3>4. LastOf(SubSeq(u, lo + 1, Len(u)), h) = Gram(u, h, Len(u) - h)
      BY <3>1, LastOfTail
    <3>2. LastOf(tokens, h) = Gram(u, h, n + 1 - h)
      BY <1>3, <3>1, <3>4
    <3>3. n + 1 - h = lo2 /\ (n + 1 - h) + h = n + 1
      BY <1>2, <1>4, <2>1
    <3> QED BY <3>2, <3>3 DEF Gram
  <2>3. trim(d, h) = [tokens |-> LastOf(tokens, h), shift |-> lo + drop,
                      index |-> [k \in Lengths |-> Pruned(Kept(d.index[k], lo + drop + k - 1))]]
    <3>1. d.tokens = tokens /\ d.shift = lo /\ DOMAIN d.index = Lengths
      BY <1>7
    <3>2. \A k \in Lengths :
              Pruned(Kept(d.index[k], lo + drop + k - 1))
                  = [g \in {x \in DOMAIN d.index[k] : {e \in d.index[k][x] : e >= lo + drop + k - 1} # {}} |->
                        {e \in d.index[k][g] : e >= lo + drop + k - 1}]
      BY DEF Pruned, Kept
    <3>3. trim(d, h) = [tokens |-> LastOf(tokens, h), shift |-> lo + drop,
              index |-> [k \in Lengths |->
                  [g \in {x \in DOMAIN d.index[k] : {e \in d.index[k][x] : e >= lo + drop + k - 1} # {}} |->
                        {e \in d.index[k][g] : e >= lo + drop + k - 1}]]]
      BY <1>11, <2>1, <3>1 DEF trim
    <3> QED BY <3>2, <3>3
  <2>4. ASSUME NEW k \in Lengths
        PROVE  Pruned(Kept(d.index[k], lo + drop + k - 1)) = Bucket(u, lo2, k, Off(k))
    <3>1. k \in Nat \ {0} /\ Off(k) = k - 1 /\ Off(k) \in Nat
      BY ConfigFacts DEF Off
    <3>2. d.index[k] = Bucket(u, lo, k, Off(k))
      BY <1>7
    <3>3. lo2 + Off(k) = lo + drop + k - 1 /\ lo <= lo2
      BY <2>1, <3>1
    <3>4. Pruned(Kept(Bucket(u, lo, k, Off(k)), lo2 + Off(k))) = Bucket(u, lo2, k, Off(k))
      BY <3>1, <3>3, BucketTrim
    <3> QED BY <3>2, <3>3, <3>4
  <2>5. trim(d, h) = DecOf(u)
    BY <1>9, <2>1, <2>2, <2>3, <2>4
  <2> QED BY <1>1, <1>8, <2>5
<1> QED BY <1>10, <1>11

\* A token more keeps the lookup proposer exact.
LEMMA LookupAdds ==
    ASSUME config \in Configs, ~BySuffix, NEW s \in Seq(Vocab), NEW t \in Vocab
    PROVE  LookupAdd(DecOf(s), t) = DecOf(Append(s, t))
<1>1. PICK n \in Nat, u \in Seq(Vocab), N \in Nat \ {0} : n = Len(s) /\ u = Append(s, t) /\ N = NgramSize
  BY AppendFacts, ConfigFacts
<1>2. Len(u) = n + 1
  BY <1>1, AppendFacts
<1>3. Lo(s) = 0 /\ Lo(u) = 0 /\ Lengths = {N} /\ Off(N) = 0
  BY <1>1 DEF Lo, Lengths, Off
<1>4. PICK bucket, next : bucket = Bucket(s, 0, N, 0) /\ next = Bucket(u, 0, N, 0)
  OBVIOUS
<1>5. DecOf(s) = [tokens |-> SubSeq(s, 1, n), shift |-> 0, index |-> [k \in {N} |-> bucket]]
  <2>1. 0 + 1 = 1 /\ Len(s) = n
    BY <1>1, <1>2
  <2>2. \A k \in {N} : Bucket(s, 0, k, Off(k)) = bucket
    BY <1>3, <1>4
  <2>3. DecOf(s) = [tokens |-> SubSeq(s, 1, n), shift |-> 0,
                    index |-> [k \in {N} |-> Bucket(s, 0, k, Off(k))]]
    BY <1>3, <2>1 DEF DecOf
  <2> QED BY <2>2, <2>3
<1>6. DecOf(u) = [tokens |-> SubSeq(u, 1, n + 1), shift |-> 0, index |-> [k \in {N} |-> next]]
  <2>1. 0 + 1 = 1 /\ Len(u) = n + 1
    BY <1>1, <1>2
  <2>2. \A k \in {N} : Bucket(u, 0, k, Off(k)) = next
    BY <1>3, <1>4
  <2>3. DecOf(u) = [tokens |-> SubSeq(u, 1, n + 1), shift |-> 0,
                    index |-> [k \in {N} |-> Bucket(u, 0, k, Off(k))]]
    BY <1>3, <2>1 DEF DecOf
  <2> QED BY <2>2, <2>3
<1>7. PICK tokens : tokens = SubSeq(u, 1, n + 1)
  OBVIOUS
<1>8. Append(SubSeq(s, 1, n), t) = tokens /\ Len(tokens) = n + 1
  <2>1. 0 \in 0 .. Len(s) /\ 0 + 1 = 1
    BY <1>1
  <2>2. Append(SubSeq(s, 1, n), t) = SubSeq(u, 1, n + 1)
    BY <1>1, <2>1, TailAppend
  <2>3. SubSeq(s, 1, n) \in Seq(Vocab) /\ Len(SubSeq(s, 1, n)) = n - 0
    BY <1>1, <2>1, TailAppend
  <2>4. Len(Append(SubSeq(s, 1, n), t)) = (n - 0) + 1
    BY <2>3, AppendFacts
  <2> QED BY <1>7, <2>2, <2>4
<1>9. PICK start \in Int : start = n + 1 - N
  <2>1. n + 1 - N \in Int
    OBVIOUS
  <2> QED BY <2>1
<1>10. (IF start < 0 THEN bucket ELSE File(bucket, LastOf(tokens, N), start)) = next
  <2>1. CASE start < 0
    <3>1. 0 > Len(s) + 1 - N
      BY <1>1, <1>9, <2>1
    <3>2. bucket = next
      BY <1>1, <1>4, <3>1, BucketShort
    <3> QED BY <2>1, <3>2
  <2>2. CASE ~(start < 0)
    <3>1. 0 <= Len(s) + 1 - N /\ N <= Len(u) - 0 /\ 0 + 1 = 1
      BY <1>1, <1>2, <1>9, <2>2
    <3>2. LastOf(SubSeq(u, 0 + 1, Len(u)), N) = Gram(u, N, Len(u) - N)
      BY <3>1, LastOfTail
    <3>3. LastOf(tokens, N) = Gram(u, N, start)
      BY <1>2, <1>7, <1>9, <3>1, <3>2
    <3>4. File(bucket, Gram(u, N, start), start + 0) = next
      BY <1>1, <1>4, <1>9, <3>1, BucketFile
    <3>5. start + 0 = start
      OBVIOUS
    <3> QED BY <2>2, <3>3, <3>4, <3>5
  <2> QED BY <2>1, <2>2
<1>11. LookupAdd(DecOf(s), t) =
           [tokens |-> tokens, shift |-> 0,
            index |-> [[k \in {N} |-> bucket] EXCEPT ![N] =
                          IF start < 0 THEN bucket ELSE File(bucket, LastOf(tokens, N), start)]]
  <2>1. /\ DecOf(s).tokens = SubSeq(s, 1, n) /\ DecOf(s).shift = 0
        /\ DecOf(s).index = [k \in {N} |-> bucket] /\ DecOf(s).index[N] = bucket
    BY <1>5
  <2>2. LookupAdd(DecOf(s), t) =
            [tokens |-> tokens, shift |-> 0,
             index |-> [DecOf(s).index EXCEPT ![N] =
                           IF Len(tokens) - N < 0 THEN DecOf(s).index[N]
                           ELSE File(DecOf(s).index[N], LastOf(tokens, N), Len(tokens) - N)]]
    BY <1>1, <1>8, <2>1 DEF LookupAdd
  <2>3. Len(tokens) - N = start
    BY <1>8, <1>9
  <2> QED BY <2>1, <2>2, <2>3
<1>12. [[k \in {N} |-> bucket] EXCEPT ![N] = next] = [k \in {N} |-> next]
  OBVIOUS
<1> QED BY <1>1, <1>6, <1>7, <1>10, <1>11, <1>12

\* A token more keeps the proposer exact.
LEMMA AddExact ==
    ASSUME config \in Configs, NEW s \in Seq(Vocab), NEW t \in Vocab
    PROVE  Add(DecOf(s), t) = DecOf(Append(s, t))
BY SuffixAdds, LookupAdds DEF Add, BySuffix

\* An empty proposer remembers the empty sequence.
LEMMA EmptyExact ==
    ASSUME config \in Configs
    PROVE  Empty(config.proposer) = DecOf(<<>>)
<1>1. <<>> \in Seq(Vocab) /\ Len(<<>>) = 0
  OBVIOUS
<1>2. Lo(<<>>) = 0
  <2>1. PICK e \in Seq(Vocab) : e = <<>> /\ Len(e) = 0
    BY <1>1
  <2>2. Lo(e) \in Nat /\ Lo(e) <= Len(e)
    BY LoFacts
  <2>3. Lo(e) = 0
    BY <2>1, <2>2
  <2> QED BY <2>1, <2>3
<1>3. SubSeq(<<>>, 0 + 1, 0) = <<>>
  OBVIOUS
<1>4. ASSUME NEW k \in Lengths
      PROVE  Bucket(<<>>, 0, k, Off(k)) = <<>>
  <2>1. 0 .. Len(<<>>) - k = {}
    BY <1>1, ConfigFacts
  <2>2. Bucket(<<>>, 0, k, Off(k)) = [g \in {} |-> {}]
    BY <2>1 DEF Bucket
  <2> QED BY <2>2
<1>5. DecOf(<<>>) = [tokens |-> <<>>, shift |-> 0, index |-> [k \in Lengths |-> <<>>]]
  BY <1>1, <1>2, <1>3, <1>4 DEF DecOf
<1> QED BY <1>5 DEF Empty, Lengths, BySuffix

\* However many tokens are given, the proposer remembers the sequence they extend.
LEMMA AddAllExact ==
    ASSUME config \in Configs, NEW s \in Seq(Vocab), NEW u \in Seq(Vocab)
    PROVE  AddAll(DecOf(s), u) = DecOf(s \o u)
<1>1. PICK n \in Nat : n = Len(u) /\ DOMAIN u = 1 .. n
  OBVIOUS
<1>2. PICK acc : /\ acc[0] = DecOf(s)
                 /\ \A i \in 1 .. n : acc[i] = Add(acc[i - 1], u[i])
                 /\ acc[n] = AddAll(DecOf(s), u)
  BY <1>1, AddAllFold
<1> DEFINE Reached == {i \in Nat : i <= n => acc[i] = DecOf(s \o SubSeq(u, 1, i))}
<1>3. SubSeq(u, 1, 0) = <<>> /\ s \o <<>> = s
  OBVIOUS
<1>4. 0 \in Reached
  BY <1>2, <1>3
<1>5. ASSUME NEW i \in Reached
      PROVE  i + 1 \in Reached
  <2>1. SUFFICES ASSUME i + 1 <= n PROVE acc[i + 1] = DecOf(s \o SubSeq(u, 1, i + 1))
    OBVIOUS
  <2>2. i \in Nat /\ i + 1 \in 1 .. n /\ (i + 1) - 1 = i /\ i <= n
    BY <2>1
  <2>3. acc[i] = DecOf(s \o SubSeq(u, 1, i))
    BY <2>2
  <2>4. acc[i + 1] = Add(acc[i], u[i + 1])
    BY <1>2, <2>2
  <2>5. u[i + 1] \in Vocab
    BY <1>1, <2>2
  <2>6. PICK v \in Seq(Vocab) : v = SubSeq(u, 1, i)
    <3>1. 1 \in Int /\ i \in Int /\ \A j \in 1 .. i : u[j] \in Vocab
      BY <1>1, <2>2
    <3>2. SubSeq(u, 1, i) \in Seq(Vocab)
      BY <3>1, SubSeqProperties
    <3> QED BY <3>2
  <2>7. SubSeq(u, 1, i + 1) = Append(v, u[i + 1])
    BY <1>1, <2>2, <2>6
  <2>8. s \o Append(v, u[i + 1]) = Append(s \o v, u[i + 1]) /\ s \o v \in Seq(Vocab)
    BY <2>5, <2>6
  <2> QED BY <2>3, <2>4, <2>5, <2>6, <2>7, <2>8, AddExact
<1>6. Reached = Nat
  <2>1. Reached \in SUBSET Nat
    OBVIOUS
  <2> HIDE DEF Reached
  <2> QED BY <1>4, <1>5, <2>1, SetInduction
<1>7. SubSeq(u, 1, n) = u
  BY <1>1, SubSeqFull
<1>8. n \in Reached
  BY <1>6
<1>9. acc[n] = DecOf(s \o SubSeq(u, 1, n))
  BY <1>8
<1> QED BY <1>2, <1>7, <1>9

-----------------------------------------------------------------------------
(* The vote.  The decoder names an occurrence by the position of its last   *)
(* token, a direct search by the one after it.                              *)

\* As many positions as the ones after them.
LEMMA ShiftCard ==
    ASSUME NEW S \in SUBSET Int, IsFiniteSet(S)
    PROVE  IsFiniteSet({x - 1 : x \in S}) /\ Cardinality({x - 1 : x \in S}) = Cardinality(S)
<1>1. PICK T : T = {x - 1 : x \in S}
  OBVIOUS
<1>2. PICK f : f = [x \in S |-> x - 1]
  OBVIOUS
<1>3. f \in [S -> T] /\ \A t \in T : \E x \in S : f[x] = t
  BY <1>1, <1>2
<1>4. \A x, y \in S : f[x] = f[y] => x = y
  BY <1>2
<1>5. f \in Bijection(S, T)
  BY <1>2, <1>3, <1>4 DEF Bijection, Injection, Surjection, IsInjective
<1>6. ExistsBijection(S, T)
  BY <1>5 DEF ExistsBijection
<1>7. IsFiniteSet(T) /\ Cardinality(T) = Cardinality(S)
  BY <1>6, FS_Bijection
<1> QED BY <1>1, <1>7

\* The token elected has the most votes, and is the smallest that has.
LEMMA TopToken ==
    ASSUME NEW counts \in [Vocab -> Nat], Vocab # {}
    PROVE  /\ topToken(counts) \in Vocab
           /\ \A u \in Vocab : /\ counts[topToken(counts)] >= counts[u]
                               /\ counts[u] = counts[topToken(counts)] => topToken(counts) <= u
<1>1. IsFiniteSet(Vocab) /\ Vocab \subseteq Nat
  BY SpeculationAssumption
<1>2. PICK C : C = {counts[u] : u \in Vocab}
  OBVIOUS
<1>3. C \in SUBSET Nat /\ C # {}
  BY <1>2
<1>4. IsFiniteSet(C)
  <2>1. counts \in Surjection(Vocab, C)
    BY <1>2 DEF Surjection
  <2> QED BY <1>1, <2>1, FS_Surjection
<1>5. PICK m \in C : \A x \in C : x <= m
  BY <1>3, <1>4, Greatest
<1>6. PICK best : best = {t \in Vocab : \A u \in Vocab : counts[t] >= counts[u]}
  OBVIOUS
<1>7. best \in SUBSET Nat /\ best # {}
  <2>1. PICK t \in Vocab : counts[t] = m
    BY <1>2, <1>5
  <2>2. \A u \in Vocab : counts[t] >= counts[u]
    BY <1>2, <1>5, <2>1
  <2> QED BY <1>1, <1>6, <2>1, <2>2
<1>8. topToken(counts) = Min(best)
  BY <1>6, Zenon DEF topToken
<1>9. Min(best) \in best /\ \A x \in best : Min(best) <= x
  BY <1>7, MinIsLeast
<1>10. ASSUME NEW u \in Vocab, counts[u] = counts[Min(best)]
       PROVE  Min(best) <= u
  <2>1. u \in best
    BY <1>6, <1>9, <1>10
  <2> QED BY <1>9, <2>1
<1> QED BY <1>6, <1>8, <1>9, <1>10

\* Votes are positions of the sequence.
LEMMA VotesFinite ==
    ASSUME NEW s \in Seq(Vocab), NEW lo \in Nat, NEW k \in Nat \ {0}, NEW d
    PROVE  /\ Votes(s, lo, k, d) \subseteq lo + k .. Len(s) - 1
           /\ Voters(s, lo, k, d) \subseteq lo + k .. Len(s) - 1
           /\ IsFiniteSet(Votes(s, lo, k, d)) /\ IsFiniteSet(Voters(s, lo, k, d))
<1>1. /\ Votes(s, lo, k, d) \subseteq lo + k .. Len(s) - 1
      /\ Voters(s, lo, k, d) \subseteq lo + k .. Len(s) - 1
  BY DEF Votes, Voters, Earlier
<1>2. lo + k \in Int /\ Len(s) - 1 \in Int
  OBVIOUS
<1>3. IsFiniteSet(lo + k .. Len(s) - 1)
  BY <1>2, FS_Interval
<1> QED BY <1>1, <1>3, FS_Subset

\* The votes for a token are those of the voters that named it.
LEMMA VotesGrow ==
    ASSUME NEW s \in Seq(Vocab), NEW lo \in Nat, NEW k \in Nat \ {0}, NEW d \in Seq(Vocab), NEW t \in Vocab
    PROVE  Votes(s, lo, k, Append(d, t)) = {e \in Voters(s, lo, k, d) : s[e + Len(d) + 1] = t}
<1>1. PICK n \in Nat, i \in Nat, D \in Seq(Vocab) : n = Len(s) /\ i = Len(d) /\ D = Append(d, t)
  BY AppendFacts
<1>2. Len(D) = i + 1
  BY <1>1, AppendFacts
<1>3. ASSUME NEW e \in Earlier(s, lo, k), e + i + 1 <= n
      PROVE  SubSeq(s, e + 1, e + (i + 1)) = D <=> SubSeq(s, e + 1, e + i) = d /\ s[e + i + 1] = t
  <2>1. e \in Nat
    BY DEF Earlier
  <2>2. PICK a \in Nat, b \in Nat : a = e + 1 /\ b = e + i + 1
    BY <2>1
  <2>3. a \in 1 .. n /\ b \in 1 .. n /\ b = e + (i + 1) /\ b - 1 = e + i /\ a - 1 <= b - 1
    BY <1>3, <2>1, <2>2
  <2>4. s[b] \in Vocab
    BY <1>1, <2>3
  <2>5. PICK w \in Seq(Vocab) : w = SubSeq(s, a, b - 1) /\ Len(w) = i
    <3>1. \A j \in a .. b - 1 : s[j] \in Vocab
      BY <1>1, <2>3
    <3>2. a \in Int /\ b - 1 \in Int
      BY <2>2
    <3>3. /\ SubSeq(s, a, b - 1) \in Seq(Vocab)
          /\ Len(SubSeq(s, a, b - 1)) = IF a <= b - 1 THEN (b - 1) - a + 1 ELSE 0
      BY <3>1, <3>2, SubSeqProperties
    <3>4. Len(SubSeq(s, a, b - 1)) = i
      BY <2>1, <2>2, <3>3
    <3> QED BY <3>3, <3>4
  <2>6. SubSeq(s, a, b) = Append(w, s[b])
    <3>1. SubSeq(s, a, b) = w \o <<s[b]>>
      <4>1. a \in 1 .. Len(s) /\ b \in a .. Len(s)
        BY <1>1, <2>3
      <4>2. SubSeq(s, a, b) = SubSeq(s, a, b - 1) \o <<s[b]>>
        BY <4>1, SubSeqRecursiveSecond
      <4> QED BY <2>5, <4>2
    <3> QED BY <2>4, <2>5, <3>1, AppendFacts
  <2>7. Append(w, s[b]) = Append(d, t) <=> w = d /\ s[b] = t
    <3>1. ASSUME Append(w, s[b]) = Append(d, t)
          PROVE  w = d /\ s[b] = t
      <4>1. Len(d) = Len(w)
        BY <1>1, <2>5
      <4>2. s[b] = t
        BY <2>4, <2>5, <3>1, <4>1, AppendFacts, SMTT(30)
      <4>3. \A j \in 1 .. Len(w) : w[j] = d[j]
        <5>1. ASSUME NEW j \in 1 .. Len(w)
              PROVE  w[j] = d[j]
          <6>1. j \in 1 .. Len(d)
            BY <4>1
          <6>2. Append(w, s[b])[j] = w[j]
            BY <2>4, <2>5, AppendFacts
          <6>3. Append(d, t)[j] = d[j]
            BY <6>1, AppendFacts
          <6> QED BY <3>1, <6>2, <6>3
        <5> QED BY <5>1
      <4> QED BY <2>5, <4>1, <4>2, <4>3
    <3> QED BY <3>1
  <2> QED BY <1>1, <2>2, <2>3, <2>5, <2>6, <2>7
<1>4. ASSUME NEW e \in Earlier(s, lo, k)
      PROVE  e \in Votes(s, lo, k, D) <=> e \in {x \in Voters(s, lo, k, d) : s[x + i + 1] = t}
  <2>1. e \in Nat
    BY DEF Earlier
  <2>2. e \in Votes(s, lo, k, D) <=> e + (i + 1) <= n /\ SubSeq(s, e + 1, e + (i + 1)) = D
    BY <1>1, <1>2 DEF Votes
  <2>3. e \in Voters(s, lo, k, d) <=> e + i <= n /\ SubSeq(s, e + 1, e + i) = d /\ e + i < n
    BY <1>1 DEF Votes, Voters
  <2>4. e + i + 1 <= n <=> e + i < n
    BY <2>1
  <2> QED BY <1>3, <2>1, <2>2, <2>3, <2>4
<1>5. Votes(s, lo, k, D) \subseteq Earlier(s, lo, k) /\ Voters(s, lo, k, d) \subseteq Earlier(s, lo, k)
  BY DEF Votes, Voters
<1> QED BY <1>1, <1>4, <1>5

\* Every earlier occurrence goes on with nothing.
LEMMA VotesStart ==
    ASSUME NEW s \in Seq(Vocab), NEW lo \in Nat, NEW k \in Nat \ {0}
    PROVE  Votes(s, lo, k, <<>>) = Earlier(s, lo, k)
<1>1. ASSUME NEW e \in Earlier(s, lo, k)
      PROVE  e + 0 <= Len(s) /\ SubSeq(s, e + 1, e + 0) = <<>>
  <2>1. e \in lo + k .. Len(s) - 1
    BY DEF Earlier
  <2>2. e + 1 \in Int /\ e + 0 \in Int /\ e + 0 < e + 1 /\ e + 0 <= Len(s)
    BY <2>1
  <2> QED BY <2>2, SubSeqEmpty
<1>2. Len(<<>>) = 0
  OBVIOUS
<1> QED BY <1>1, <1>2 DEF Votes

\* The positions before those of S, and the matches but the suffix itself.
Before(S) == {e - 1 : e \in S}
Others(matches, newest) == {e \in matches : e # newest}

\* The proposer remembers s from lo on; the matches stand for the votes for w.
Remembers(d, s, lo) == lo <= Len(s) /\ d.tokens = SubSeq(s, lo + 1, Len(s)) /\ d.shift = lo
StandsFor(matches, s, lo, k, w) == Others(matches, Len(s) - 1) = Before(Votes(s, lo, k, w))

\* What a round counts is what a direct search would count.
CountsVotes(d, matches, s, lo, k, w) ==
    /\ voters(d, matches, Len(w)) = Before(Voters(s, lo, k, w))
    /\ \A t \in Vocab : Said(d, matches, Len(w), t) = Before(Votes(s, lo, k, Append(w, t)))

\* What the matches of a round stand for, and what the round then counts.
LEMMA RoundSets ==
    ASSUME NEW s \in Seq(Vocab), NEW lo \in Nat, NEW k \in Nat \ {0}, NEW w \in Seq(Vocab), NEW d,
           Remembers(d, s, lo), NEW matches, StandsFor(matches, s, lo, k, w)
    PROVE  CountsVotes(d, matches, s, lo, k, w)
<1>1. PICK n \in Nat, i \in Nat, tokens \in Seq(Vocab) :
          /\ n = Len(s) /\ i = Len(w) /\ tokens = SubSeq(s, lo + 1, n) /\ lo <= n
          /\ d.tokens = tokens /\ d.shift = lo
  <2>1. Len(s) \in Nat /\ Len(w) \in Nat
    OBVIOUS
  <2>2. \A j \in lo + 1 .. Len(s) : s[j] \in Vocab
    OBVIOUS
  <2>3. lo + 1 \in Int /\ Len(s) \in Int
    OBVIOUS
  <2>4. SubSeq(s, lo + 1, Len(s)) \in Seq(Vocab)
    BY <2>2, <2>3, SubSeqProperties
  <2> QED BY <2>1, <2>4 DEF Remembers
<1>2. Len(tokens) = n - lo /\ \A j \in 1 .. n - lo : tokens[j] = s[lo + j]
  <2>1. \A j \in lo + 1 .. n : s[j] \in Vocab
    BY <1>1
  <2>2. lo + 1 \in Int /\ n \in Int
    OBVIOUS
  <2>3. /\ Len(tokens) = IF lo + 1 <= n THEN n - (lo + 1) + 1 ELSE 0
        /\ \A j \in 1 .. n - (lo + 1) + 1 : tokens[j] = s[(lo + 1) + j - 1]
    BY <1>1, <2>1, <2>2, SubSeqProperties
  <2>4. n - (lo + 1) + 1 = n - lo
    OBVIOUS
  <2>5. \A j \in 1 .. n - lo : (lo + 1) + j - 1 = lo + j
    OBVIOUS
  <2>6. Len(tokens) = n - lo
    BY <1>1, <2>3
  <2>7. \A j \in 1 .. n - lo : tokens[j] = s[lo + j]
    BY <2>3, <2>4, <2>5
  <2> QED BY <2>6, <2>7
<1>3. ASSUME NEW e \in Votes(s, lo, k, w)
      PROVE  /\ e \in lo + k .. n - 1
             /\ e \in Voters(s, lo, k, w) <=> e + i < n
  BY <1>1, VotesFinite DEF Voters
<1>4. voters(d, matches, i) = {e \in {x - 1 : x \in Votes(s, lo, k, w)} : e + 1 + i - lo \in 0 .. n - lo - 1}
  <2>1. d.shift + Len(d.tokens) - 1 = n - 1 /\ Len(d.tokens) - 1 = n - lo - 1
    BY <1>1, <1>2
  <2>2. voters(d, matches, i) = {e \in {x \in matches : x # n - 1} : e + 1 + i - lo \in 0 .. n - lo - 1}
    <3>1. voters(d, matches, i) = {e \in matches : e # n - 1 /\ e + 1 + i - lo \in 0 .. n - lo - 1}
      BY <1>1, <2>1, Zenon DEF voters
    <3> QED BY <3>1
  <2> QED BY <1>1, <2>2 DEF Others, Before, StandsFor
<1>5. ASSUME NEW e \in Votes(s, lo, k, w)
      PROVE  (e - 1) + 1 + i - lo \in 0 .. n - lo - 1 <=> e \in Voters(s, lo, k, w)
  <2>1. e \in Nat /\ e >= lo
    BY <1>3
  <2>2. (e - 1) + 1 + i - lo = e + i - lo /\ e + i - lo \in Nat
    BY <2>1
  <2>3. e + i - lo \in 0 .. n - lo - 1 <=> e + i < n
    BY <2>1, <2>2
  <2> QED BY <1>3, <2>2, <2>3
<1>6. Voters(s, lo, k, w) \subseteq Votes(s, lo, k, w)
  BY DEF Voters
<1>7. voters(d, matches, i) = {e - 1 : e \in Voters(s, lo, k, w)}
  BY <1>4, <1>5, <1>6
<1>8. ASSUME NEW t \in Vocab
      PROVE  Said(d, matches, i, t) = {e - 1 : e \in Votes(s, lo, k, Append(w, t))}
  <2>1. Said(d, matches, i, t) = {e \in {x - 1 : x \in Voters(s, lo, k, w)} : tokens[e + 1 + i - lo + 1] = t}
    BY <1>1, <1>7 DEF Said
  <2>2. ASSUME NEW e \in Voters(s, lo, k, w)
        PROVE  tokens[(e - 1) + 1 + i - lo + 1] = s[e + i + 1]
    <3>1. e \in lo + k .. n - 1 /\ e + i < n
      BY <1>3, <1>6
    <3>2. (e - 1) + 1 + i - lo + 1 \in 1 .. n - lo /\ lo + ((e - 1) + 1 + i - lo + 1) = e + i + 1
      BY <3>1
    <3> QED BY <1>2, <3>2
  <2>3. Votes(s, lo, k, Append(w, t)) = {e \in Voters(s, lo, k, w) : s[e + i + 1] = t}
    BY <1>1, VotesGrow
  <2> QED BY <2>1, <2>2, <2>3
<1> QED BY <1>1, <1>7, <1>8 DEF Before, CountsVotes

\* A round elects the token that wins, and ends the draft when none does.
LEMMA Round ==
    ASSUME NEW s \in Seq(Vocab), NEW lo \in Nat, NEW k \in Nat \ {0}, NEW w \in Seq(Vocab), NEW d,
           Remembers(d, s, lo), NEW matches, StandsFor(matches, s, lo, k, w)
    PROVE  /\ Unsure(d, matches, Len(w)) => \A t \in Vocab : ~Wins(s, lo, k, w, t)
           /\ ~Unsure(d, matches, Len(w)) =>
                 /\ Elected(d, matches, Len(w)) \in Vocab
                 /\ Wins(s, lo, k, w, Elected(d, matches, Len(w)))
<1>1. /\ voters(d, matches, Len(w)) = {e - 1 : e \in Voters(s, lo, k, w)}
      /\ \A t \in Vocab : Said(d, matches, Len(w), t) = {e - 1 : e \in Votes(s, lo, k, Append(w, t))}
  <2>1. CountsVotes(d, matches, s, lo, k, w)
    BY RoundSets, Zenon
  <2> QED BY <2>1 DEF Before, CountsVotes
<1>2. PICK counts : counts = [t \in Vocab |-> Cardinality(Votes(s, lo, k, Append(w, t)))]
  OBVIOUS
<1>3. counts \in [Vocab -> Nat]
  <2>1. ASSUME NEW t \in Vocab
        PROVE  Cardinality(Votes(s, lo, k, Append(w, t))) \in Nat
    BY VotesFinite, FS_CardinalityType
  <2> QED BY <1>2, <2>1
<1>4. \A t \in Vocab : Cardinality(Said(d, matches, Len(w), t)) = counts[t]
  <2>1. ASSUME NEW t \in Vocab
        PROVE  Cardinality({e - 1 : e \in Votes(s, lo, k, Append(w, t))})
                   = Cardinality(Votes(s, lo, k, Append(w, t)))
    <3>1. PICK S : S = Votes(s, lo, k, Append(w, t))
      OBVIOUS
    <3>2. S \subseteq lo + k .. Len(s) - 1 /\ IsFiniteSet(S)
      BY <3>1, VotesFinite
    <3>3. S \in SUBSET Int
      BY <3>2
    <3>4. Cardinality({e - 1 : e \in S}) = Cardinality(S)
      BY <3>2, <3>3, ShiftCard
    <3> QED BY <3>1, <3>4
  <2> QED BY <1>1, <1>2, <2>1
<1>5. PICK all \in Nat : /\ all = Cardinality(Voters(s, lo, k, w))
                         /\ all = Cardinality(voters(d, matches, Len(w)))
  <2>1. PICK S : S = Voters(s, lo, k, w)
    OBVIOUS
  <2>2. S \subseteq lo + k .. Len(s) - 1 /\ IsFiniteSet(S)
    BY <2>1, VotesFinite
  <2>3. S \in SUBSET Int
    BY <2>2
  <2>4. Cardinality({e - 1 : e \in S}) = Cardinality(S) /\ Cardinality(S) \in Nat
    BY <2>2, <2>3, ShiftCard, FS_CardinalityType
  <2> QED BY <1>1, <2>1, <2>4
<1>6. voters(d, matches, Len(w)) = {} <=> Voters(s, lo, k, w) = {}
  BY <1>1
<1>7. PICK top : top = Elected(d, matches, Len(w)) /\ top = topToken(counts)
  <2>1. [t \in Vocab |-> Cardinality(Said(d, matches, Len(w), t))] = counts
    BY <1>3, <1>4
  <2> QED BY <2>1 DEF Elected
<1>8. \A t \in Vocab :
          Wins(s, lo, k, w, t) <=>
              /\ \A u \in Vocab \ {t} : counts[t] - counts[u] > 0 \/ (counts[t] - counts[u] = 0 /\ t < u)
              /\ Voters(s, lo, k, w) # {}
              /\ 100 * counts[t] >= MinConfidence * all
  BY <1>2, <1>5 DEF Wins
<1>9. Voters(s, lo, k, w) # {} => Vocab # {}
  <2>1. ASSUME NEW e \in Voters(s, lo, k, w)
        PROVE  s[1] \in Vocab
    <3>1. e \in lo + k .. Len(s) - 1
      BY VotesFinite
    <3>2. 1 \in 1 .. Len(s)
      BY <3>1
    <3> QED BY <3>2
  <2> QED BY <2>1
<1>10. Voters(s, lo, k, w) # {} =>
           /\ top \in Vocab
           /\ \A u \in Vocab : counts[top] >= counts[u] /\ (counts[u] = counts[top] => top <= u)
  BY <1>3, <1>7, <1>9, TopToken
<1>11. Unsure(d, matches, Len(w)) <=>
           Voters(s, lo, k, w) = {} \/ 100 * counts[top] < MinConfidence * all
  <2>1. Voters(s, lo, k, w) # {} => Cardinality(Said(d, matches, Len(w), top)) = counts[top]
    BY <1>4, <1>10
  <2> QED BY <1>5, <1>6, <1>7, <2>1 DEF Unsure
<1>12. Vocab \subseteq Nat /\ MinConfidence \in Nat
  BY SpeculationAssumption
<1>m. PICK least \in Int : least = MinConfidence * all
  BY <1>12
<1>13. ASSUME ~Unsure(d, matches, Len(w))
       PROVE  top \in Vocab /\ Wins(s, lo, k, w, top)
  <2>1. Voters(s, lo, k, w) # {} /\ top \in Vocab /\ ~(100 * counts[top] < least)
    BY <1>10, <1>11, <1>13, <1>m
  <2>2. ASSUME NEW u \in Vocab \ {top}
        PROVE  counts[top] - counts[u] > 0 \/ (counts[top] - counts[u] = 0 /\ top < u)
    <3>1. counts[top] \in Nat /\ counts[u] \in Nat /\ top \in Nat /\ u \in Nat
      BY <1>3, <1>12, <2>1
    <3>2. counts[top] >= counts[u] /\ (counts[u] = counts[top] => top <= u)
      BY <1>10, <2>1
    <3> QED BY <3>1, <3>2
  <2>3. 100 * counts[top] >= least
    BY <1>3, <2>1
  <2> QED BY <1>8, <1>m, <2>1, <2>2, <2>3
<1>14. ASSUME NEW t \in Vocab, Wins(s, lo, k, w, t), Unsure(d, matches, Len(w))
       PROVE  FALSE
  <2>1. /\ \A u \in Vocab \ {t} : counts[t] - counts[u] > 0 \/ (counts[t] - counts[u] = 0 /\ t < u)
        /\ Voters(s, lo, k, w) # {} /\ 100 * counts[t] >= least
    BY <1>8, <1>m, <1>14
  <2>2. top \in Vocab /\ counts[top] >= counts[t] /\ (counts[t] = counts[top] => top <= t)
    BY <1>10, <2>1
  <2>3. counts[top] \in Nat /\ counts[t] \in Nat /\ top \in Nat /\ t \in Nat
    BY <1>3, <1>12, <2>2
  <2>4. t = top
    <3>1. ASSUME t # top PROVE FALSE
      <4>1. top \in Vocab \ {t}
        BY <2>2, <3>1
      <4>2. counts[t] - counts[top] > 0 \/ (counts[t] - counts[top] = 0 /\ t < top)
        BY <2>1, <4>1
      <4> QED BY <2>2, <2>3, <4>2
    <3> QED BY <3>1
  <2>5. 100 * counts[top] < least
    BY <1>11, <1>14, <1>m, <2>1
  <2> QED BY <2>1, <2>3, <2>4, <2>5
<1> QED BY <1>7, <1>13, <1>14

\* What a round leaves: the tokens elected so far, and either the matches that go
\* on with them or the fact that none could follow.
Elects(s, lo, k, w) == \A j \in 1 .. Len(w) : Wins(s, lo, k, SubSeq(w, 1, j - 1), w[j])
Closed(s, lo, k, w) == \A t \in Vocab : ~Wins(s, lo, k, w, t)
RoundOf(s, lo, k, i, acc) ==
    \E w \in Seq(Vocab), matches \in SUBSET Int :
        /\ Len(w) <= i /\ Elects(s, lo, k, w)
        /\ \/ /\ acc = [draft |-> w, matches |-> matches, done |-> TRUE]
              /\ Closed(s, lo, k, w)
           \/ /\ acc = [draft |-> w, matches |-> matches, done |-> FALSE]
              /\ Len(w) = i /\ StandsFor(matches, s, lo, k, w)

\* A token more that wins is elected too.
LEMMA ElectsAppend ==
    ASSUME NEW s \in Seq(Vocab), NEW lo \in Nat, NEW k \in Nat \ {0}, NEW w \in Seq(Vocab), NEW t \in Vocab,
           Elects(s, lo, k, w), Wins(s, lo, k, w, t)
    PROVE  Elects(s, lo, k, Append(w, t))
<1>1. PICK i \in Nat, v \in Seq(Vocab) : i = Len(w) /\ v = Append(w, t)
  BY AppendFacts
<1>2. Len(v) = i + 1 /\ v[i + 1] = t /\ \A j \in 1 .. i : v[j] = w[j]
  BY <1>1, AppendFacts
<1>3. v = w \o <<t>> /\ <<t>> \in Seq(Vocab)
  BY <1>1, AppendFacts
<1>4. ASSUME NEW e \in 0 .. i
      PROVE  SubSeq(v, 1, e) = SubSeq(w, 1, e)
  <2>1. CASE e = 0
    <3>1. SubSeq(v, 1, 0) = <<>> /\ SubSeq(w, 1, 0) = <<>>
      BY SubSeqEmpty
    <3> QED BY <2>1, <3>1
  <2>2. CASE e # 0
    <3>1. 1 \in 1 .. Len(w) /\ e \in 1 .. Len(w)
      BY <1>1, <2>2
    <3> QED BY <1>3, <3>1, SubSeqOfConcat1
  <2> QED BY <2>1, <2>2
<1>5. SubSeq(w, 1, i) = w
  BY <1>1, SubSeqFull
<1>6. ASSUME NEW j \in 1 .. i + 1
      PROVE  Wins(s, lo, k, SubSeq(v, 1, j - 1), v[j])
  <2>1. j - 1 \in 0 .. i
    OBVIOUS
  <2>2. SubSeq(v, 1, j - 1) = SubSeq(w, 1, j - 1)
    BY <1>4, <2>1
  <2>3. CASE j = i + 1
    <3>1. j - 1 = i
      BY <2>3
    <3>2. SubSeq(v, 1, j - 1) = w /\ v[j] = t
      BY <1>2, <1>5, <2>2, <2>3, <3>1
    <3> QED BY <3>2
  <2>4. CASE j # i + 1
    <3>1. j \in 1 .. Len(w) /\ v[j] = w[j]
      BY <1>1, <1>2, <2>4
    <3> QED BY <2>2, <3>1 DEF Elects
  <2> QED BY <2>3, <2>4
<1> QED BY <1>1, <1>2, <1>6 DEF Elects

\* One more round.
LEMMA NextRound ==
    ASSUME NEW s \in Seq(Vocab), NEW lo \in Nat, NEW k \in Nat \ {0}, NEW d,
           Remembers(d, s, lo),
           NEW i \in Nat, NEW acc, RoundOf(s, lo, k, i, acc)
    PROVE  RoundOf(s, lo, k, i + 1, Vote(d, acc, i))
<1>1. PICK w \in Seq(Vocab), matches \in SUBSET Int :
          /\ Len(w) <= i /\ Elects(s, lo, k, w)
          /\ \/ /\ acc = [draft |-> w, matches |-> matches, done |-> TRUE]
                /\ Closed(s, lo, k, w)
             \/ /\ acc = [draft |-> w, matches |-> matches, done |-> FALSE]
                /\ Len(w) = i /\ StandsFor(matches, s, lo, k, w)
  BY Zenon DEF RoundOf
<1>2. Len(w) \in Nat /\ Len(w) <= i + 1
  BY <1>1
<1>3. CASE /\ acc = [draft |-> w, matches |-> matches, done |-> TRUE]
           /\ Closed(s, lo, k, w)
  <2>1. acc.done /\ acc.draft = w /\ acc.matches = matches
    BY <1>3
  <2>2. Vote(d, acc, i) = [draft |-> w, matches |-> matches, done |-> TRUE]
    BY <2>1, Zenon DEF Vote
  <2> QED BY <1>1, <1>2, <1>3, <2>2, Zenon DEF RoundOf
<1>4. CASE /\ acc = [draft |-> w, matches |-> matches, done |-> FALSE]
           /\ Len(w) = i /\ StandsFor(matches, s, lo, k, w)
  <2>1. acc.matches = matches /\ acc.draft = w /\ ~acc.done
    BY <1>4
  <2>2. CASE Unsure(d, matches, i)
    <3>1. Vote(d, acc, i) = [draft |-> w, matches |-> matches, done |-> TRUE]
      BY <2>1, <2>2, Zenon DEF Vote
    <3>3. Closed(s, lo, k, w)
      BY <1>4, <2>2, Round, Zenon DEF Closed
    <3> QED BY <1>1, <1>2, <3>1, <3>3, Zenon DEF RoundOf
  <2>3. CASE ~Unsure(d, matches, i)
    <3>1. PICK top : top = Elected(d, matches, i)
      OBVIOUS
    <3>2. top \in Vocab /\ Wins(s, lo, k, w, top)
      BY <1>4, <2>3, <3>1, Round, Zenon
    <3>3. PICK said : said = Said(d, matches, i, top)
      OBVIOUS
    <3>4. said = Before(Votes(s, lo, k, Append(w, top)))
      <4>1. CountsVotes(d, matches, s, lo, k, w)
        BY <1>4, RoundSets, Zenon
      <4> QED BY <1>4, <3>2, <3>3, <4>1 DEF CountsVotes
    <3>5. Vote(d, acc, i) = [draft |-> Append(w, top), matches |-> said, done |-> FALSE]
      BY <2>1, <2>3, <3>1, <3>3, Zenon DEF Vote
    <3>7. Elects(s, lo, k, Append(w, top))
      BY <1>1, <3>2, ElectsAppend
    <3>8. Append(w, top) \in Seq(Vocab) /\ Len(Append(w, top)) = i + 1 /\ Len(Append(w, top)) <= i + 1
      BY <1>4, <3>2, AppendFacts
    <3>9. said \in SUBSET Int /\ Others(said, Len(s) - 1) = said
      <4>1. Votes(s, lo, k, Append(w, top)) \subseteq Voters(s, lo, k, w)
        BY <3>2, VotesGrow
      <4>2. Votes(s, lo, k, Append(w, top)) \subseteq lo + k .. Len(s) - 1
        BY VotesFinite
      <4>3. \A e \in Votes(s, lo, k, Append(w, top)) : e - 1 \in Int /\ e - 1 # Len(s) - 1
        BY <4>2
      <4> QED BY <3>4, <4>3 DEF Before, Others
    <3>6. StandsFor(said, s, lo, k, Append(w, top))
      BY <3>4, <3>9 DEF StandsFor
    <3> QED BY <3>5, <3>6, <3>7, <3>8, <3>9, Zenon DEF RoundOf
  <2> QED BY <2>2, <2>3
<1> QED BY <1>1, <1>3, <1>4

\* The draft of the occurrences of the last k tokens is the one a direct search
\* elects.
LEMMA DraftVoted ==
    ASSUME NEW s \in Seq(Vocab), NEW lo \in Nat, NEW k \in Nat \ {0}, NEW d, Remembers(d, s, lo),
           NEW positions \in SUBSET Int, StandsFor(positions, s, lo, k, <<>>)
    PROVE  /\ buildDraft(d, positions) \in Seq(Vocab) /\ Len(buildDraft(d, positions)) <= MaxDraftTokens
           /\ Voted(s, lo, k, buildDraft(d, positions))
<1>1. PICK n \in Nat : n = MaxDraftTokens
  BY SpeculationAssumption
<1>2. PICK acc : /\ acc[0] = [draft |-> <<>>, matches |-> positions, done |-> FALSE]
                 /\ \A i \in 1 .. n : acc[i] = Vote(d, acc[i - 1], i - 1)
                 /\ buildDraft(d, positions) = acc[n].draft
  BY <1>1, DraftFold, ZenonT(40)
<1> DEFINE Reached == {i \in Nat : i <= n => RoundOf(s, lo, k, i, acc[i])}
<1>3. 0 \in Reached
  <2>1. PICK w \in Seq(Vocab) : w = <<>> /\ Len(w) = 0
    <3>1. <<>> \in Seq(Vocab) /\ Len(<<>>) = 0
      OBVIOUS
    <3> QED BY <3>1
  <2>5. Len(w) <= 0
    BY <2>1
  <2>2. Elects(s, lo, k, w)
    <3>1. 1 .. Len(w) = {}
      BY <2>1
    <3> QED BY <3>1 DEF Elects
  <2>3. acc[0] = [draft |-> w, matches |-> positions, done |-> FALSE] /\ StandsFor(positions, s, lo, k, w)
    BY <1>2, <2>1
  <2>4. RoundOf(s, lo, k, 0, acc[0])
    BY <2>1, <2>2, <2>3, <2>5, Zenon DEF RoundOf
  <2> QED BY <2>4
<1>4. ASSUME NEW i \in Reached
      PROVE  i + 1 \in Reached
  <2>1. SUFFICES ASSUME i + 1 <= n PROVE RoundOf(s, lo, k, i + 1, acc[i + 1])
    OBVIOUS
  <2>2. i \in Nat /\ i + 1 \in 1 .. n /\ (i + 1) - 1 = i /\ i <= n
    BY <2>1
  <2>3. RoundOf(s, lo, k, i, acc[i])
    BY <2>2
  <2>4. acc[i + 1] = Vote(d, acc[i], i)
    BY <1>2, <2>2
  <2>5. RoundOf(s, lo, k, i + 1, Vote(d, acc[i], i))
    BY <2>2, <2>3, NextRound, Zenon
  <2> QED BY <2>4, <2>5
<1>5. Reached = Nat
  <2>1. Reached \in SUBSET Nat
    OBVIOUS
  <2> HIDE DEF Reached
  <2> QED BY <1>3, <1>4, <2>1, SetInduction
<1>6. n \in Reached
  BY <1>5
<1>7. RoundOf(s, lo, k, n, acc[n])
  BY <1>6
<1>8. PICK w \in Seq(Vocab), matches \in SUBSET Int :
          /\ Len(w) <= n /\ Elects(s, lo, k, w)
          /\ \/ /\ acc[n] = [draft |-> w, matches |-> matches, done |-> TRUE]
                /\ Closed(s, lo, k, w)
             \/ /\ acc[n] = [draft |-> w, matches |-> matches, done |-> FALSE]
                /\ Len(w) = n /\ StandsFor(matches, s, lo, k, w)
  BY <1>7, Zenon DEF RoundOf
<1>9. acc[n].draft = w
  BY <1>8
<1>10. Len(w) < n => Closed(s, lo, k, w)
  <2>1. Len(w) = n => ~(Len(w) < n)
    BY <1>1
  <2> QED BY <1>8, <2>1
<1>11. Voted(s, lo, k, w)
  BY <1>1, <1>8, <1>10, Zenon DEF Voted, Elects, Closed
<1> QED BY <1>1, <1>2, <1>8, <1>9, <1>11

\* The history of a proposer that remembers s.
LEMMA DecFacts ==
    ASSUME config \in Configs, NEW s \in Seq(Vocab)
    PROVE  /\ Remembers(DecOf(s), s, Lo(s)) /\ Lo(s) \in Nat
           /\ Len(DecOf(s).tokens) = Len(s) - Lo(s)
           /\ DOMAIN DecOf(s).index = Lengths
           /\ \A k \in Lengths : DecOf(s).index[k] = Bucket(s, Lo(s), k, Off(k))
<1>1. Lo(s) \in Nat /\ Lo(s) <= Len(s) /\ Len(s) \in Nat
  BY LoFacts
<1>2. /\ DecOf(s).tokens = SubSeq(s, Lo(s) + 1, Len(s)) /\ DecOf(s).shift = Lo(s)
      /\ DecOf(s).index = [k \in Lengths |-> Bucket(s, Lo(s), k, Off(k))]
  BY DEF DecOf
<1>3. PICK lo \in Nat, n \in Nat : lo = Lo(s) /\ n = Len(s) /\ lo <= n
  BY <1>1
<1>4. Len(SubSeq(s, lo + 1, n)) = n - lo
  <2>1. \A j \in lo + 1 .. n : s[j] \in Vocab
    BY <1>3
  <2>2. lo + 1 \in Int /\ n \in Int
    OBVIOUS
  <2>3. Len(SubSeq(s, lo + 1, n)) = IF lo + 1 <= n THEN n - (lo + 1) + 1 ELSE 0
    BY <2>1, <2>2, SubSeqProperties
  <2> QED BY <1>3, <2>3
<1> QED BY <1>1, <1>2, <1>3, <1>4 DEF Remembers

\* The places of the last k-gram: its earlier occurrences and the last.
LEMMA LastPlaces ==
    ASSUME config \in Configs, NEW s \in Seq(Vocab), NEW k \in Lengths, k <= Len(s) - Lo(s)
    PROVE  /\ LastOf(DecOf(s).tokens, k) \in DOMAIN DecOf(s).index[k]
           /\ DecOf(s).index[k][LastOf(DecOf(s).tokens, k)] \in SUBSET Int
           /\ {x \in DecOf(s).index[k][LastOf(DecOf(s).tokens, k)] : x # Len(s) - k + Off(k)}
                  = {e - k + Off(k) : e \in Earlier(s, Lo(s), k)}
<1>1. PICK lo \in Nat, n \in Nat, kk \in Nat \ {0}, off \in Nat :
          lo = Lo(s) /\ n = Len(s) /\ lo <= n /\ kk = k /\ off = Off(k) /\ kk <= n - lo
  BY LoFacts, ConfigFacts
<1>2. PICK last : last = Gram(s, kk, n - kk)
  OBVIOUS
<1>3. LastOf(DecOf(s).tokens, k) = last
  <2>1. LastOf(SubSeq(s, lo + 1, Len(s)), kk) = Gram(s, kk, Len(s) - kk)
    BY <1>1, LastOfTail
  <2>2. DecOf(s).tokens = SubSeq(s, lo + 1, Len(s))
    BY <1>1 DEF DecOf
  <2> QED BY <1>1, <1>2, <2>1, <2>2
<1>4. PICK bucket : bucket = DecOf(s).index[k] /\ bucket = Bucket(s, lo, kk, off)
  BY <1>1, DecFacts
<1>5. /\ DOMAIN bucket = {Gram(s, kk, x) : x \in lo .. n - kk}
      /\ \A g \in DOMAIN bucket : bucket[g] = {x + off : x \in {y \in lo .. n - kk : Gram(s, kk, y) = g}}
  BY <1>1, <1>4 DEF Bucket
<1>6. n - kk \in lo .. n - kk
  BY <1>1
<1>7. last \in DOMAIN bucket
  BY <1>2, <1>5, <1>6
<1>8. bucket[last] = {x + off : x \in {y \in lo .. n - kk : Gram(s, kk, y) = last}}
  BY <1>5, <1>7
<1>9. PICK earlier : earlier = Earlier(s, lo, kk)
  OBVIOUS
<1>10. earlier = {e \in lo + kk .. n - 1 : SubSeq(s, e - kk + 1, e) = SubSeq(s, n - kk + 1, n)}
  BY <1>1, <1>9 DEF Earlier
<1>11. ASSUME NEW y \in Int
       PROVE  y \in lo .. n - kk /\ Gram(s, kk, y) = last /\ y # n - kk <=> y + kk \in earlier
  <2>1. y \in lo .. n - kk /\ y # n - kk <=> y + kk \in lo + kk .. n - 1
    BY <1>1
  <2>2. y + 1 = (y + kk) - kk + 1 /\ (n - kk) + 1 = n - kk + 1 /\ (n - kk) + kk = n
    BY <1>1
  <2>3. Gram(s, kk, y) = SubSeq(s, (y + kk) - kk + 1, y + kk)
    BY <2>2 DEF Gram
  <2>4. last = SubSeq(s, n - kk + 1, n)
    BY <1>2, <2>2 DEF Gram
  <2> QED BY <1>10, <2>1, <2>3, <2>4
<1>12. {x \in bucket[last] : x # n - kk + off} = {e - kk + off : e \in earlier}
  <2>1. ASSUME NEW x \in bucket[last], x # n - kk + off
        PROVE  x \in {e - kk + off : e \in earlier}
    <3>1. PICK y \in lo .. n - kk : Gram(s, kk, y) = last /\ x = y + off
      BY <1>8, <2>1
    <3>2. y \in Int /\ y # n - kk
      BY <2>1, <3>1
    <3>3. y + kk \in earlier
      BY <1>11, <3>1, <3>2
    <3>4. x = (y + kk) - kk + off
      BY <3>1
    <3> QED BY <3>3, <3>4
  <2>2. ASSUME NEW e \in earlier
        PROVE  e - kk + off \in bucket[last] /\ e - kk + off # n - kk + off
    <3>1. e \in lo + kk .. n - 1
      BY <1>10
    <3>2. e - kk \in Int /\ (e - kk) + kk = e
      BY <3>1
    <3>3. e - kk \in lo .. n - kk /\ Gram(s, kk, e - kk) = last /\ e - kk # n - kk
      BY <1>11, <3>2
    <3>4. e - kk + off # n - kk + off
      BY <3>2, <3>3
    <3> QED BY <1>8, <3>3, <3>4
  <2> QED BY <2>1, <2>2
<1>13. bucket[last] \in SUBSET Int
  BY <1>1, <1>8
<1> QED BY <1>1, <1>3, <1>4, <1>7, <1>9, <1>12, <1>13

\* The positions a suffix is looked up at stand for its earlier occurrences.
LEMMA PositionsStand ==
    ASSUME config \in Configs, BySuffix, NEW s \in Seq(Vocab), NEW k \in Lengths, k <= Len(s) - Lo(s)
    PROVE  Positions(DecOf(s), k) \in SUBSET Int /\ StandsFor(Positions(DecOf(s), k), s, Lo(s), k, <<>>)
<1>1. PICK places : places = DecOf(s).index[k][LastOf(DecOf(s).tokens, k)] /\ places = Positions(DecOf(s), k)
  BY LastPlaces DEF Positions
<1>2. PICK n \in Nat, kk \in Nat \ {0}, lo \in Nat : n = Len(s) /\ kk = k /\ Off(k) = kk - 1 /\ lo = Lo(s)
  BY LoFacts, ConfigFacts DEF Off
<1>3. places \in SUBSET Int /\ {x \in places : x # n - kk + (kk - 1)} = {e - kk + (kk - 1) : e \in Earlier(s, lo, kk)}
  <2>1. /\ places \in SUBSET Int
        /\ {x \in places : x # Len(s) - k + Off(k)} = {e - k + Off(k) : e \in Earlier(s, Lo(s), k)}
    BY <1>1, LastPlaces
  <2> QED BY <1>2, <2>1
<1>4. n - kk + (kk - 1) = n - 1 /\ \A e \in Earlier(s, lo, kk) : e - kk + (kk - 1) = e - 1
  BY DEF Earlier
<1>5. {x \in places : x # n - 1} = {e - 1 : e \in Earlier(s, lo, kk)}
  BY <1>3, <1>4
<1>6. Votes(s, lo, kk, <<>>) = Earlier(s, lo, kk)
  BY VotesStart
<1> QED BY <1>1, <1>2, <1>3, <1>5, <1>6 DEF StandsFor, Others, Before

\* The suffixes that were seen before and elect something.
Winning(s, lo, top) == {k \in 1 .. top : k <= Len(s) - lo /\ \E t \in Vocab : Wins(s, lo, k, <<>>, t)}

\* The draft of the suffix decoder is what a direct search elects.
LEMMA SuffixIsDirect ==
    ASSUME config \in Configs, BySuffix, NEW s \in Seq(Vocab), NEW w, w = SuffixDraft(DecOf(s))
    PROVE  /\ w \in Seq(Vocab) /\ Len(w) <= MaxDraftTokens
           /\ IF Winning(s, Lo(s), MaxSuffixLen) = {} THEN w = <<>>
              ELSE w # <<>> /\ Voted(s, Lo(s), Max(Winning(s, Lo(s), MaxSuffixLen)), w)
<1>d. PICK d : d = DecOf(s)
  OBVIOUS
<1>l. PICK lo \in Nat, n \in Nat : lo = Lo(s) /\ n = Len(s) /\ lo <= n
  BY LoFacts
<1>1. d = DecOf(s) /\ lo = Lo(s) /\ n = Len(s) /\ lo <= n
  BY <1>d, <1>l
<1>2. Lengths = 1 .. MaxSuffixLen /\ MaxSuffixLen \in Nat /\ MaxDraftTokens \in Nat \ {0}
  BY ConfigFacts DEF Lengths
<1>3. DOMAIN d.index = 1 .. MaxSuffixLen /\ Len(d.tokens) = n - lo /\ Remembers(d, s, lo)
  BY <1>1, <1>2, DecFacts
<1> DEFINE ks == {k \in 1 .. MaxSuffixLen : k <= n - lo}
           B(k) == buildDraft(d, Positions(d, k))
<1>4. ASSUME NEW k \in ks
      PROVE  /\ B(k) \in Seq(Vocab) /\ Len(B(k)) <= MaxDraftTokens /\ Voted(s, lo, k, B(k))
             /\ B(k) # <<>> <=> \E t \in Vocab : Wins(s, lo, k, <<>>, t)
  <2>1. k \in Lengths /\ k <= Len(s) - Lo(s) /\ k \in Nat \ {0}
    BY <1>1, <1>2, ConfigFacts
  <2>2. PICK places : places = Positions(d, k)
    OBVIOUS
  <2>3. places \in SUBSET Int /\ StandsFor(places, s, lo, k, <<>>)
    BY <1>1, <2>1, <2>2, PositionsStand
  <2>4. PICK v : v = buildDraft(d, places)
    OBVIOUS
  <2>5. v \in Seq(Vocab) /\ Len(v) <= MaxDraftTokens /\ Voted(s, lo, k, v)
    BY <1>3, <2>1, <2>3, <2>4, DraftVoted
  <2>6. ASSUME v # <<>>
        PROVE  \E t \in Vocab : Wins(s, lo, k, <<>>, t)
    <3>1. 1 \in 1 .. Len(v) /\ v[1] \in Vocab
      BY <2>5, <2>6
    <3>2. SubSeq(v, 1, 1 - 1) = <<>>
      BY SubSeqEmpty
    <3>3. Wins(s, lo, k, SubSeq(v, 1, 1 - 1), v[1])
      BY <2>5, <3>1 DEF Voted
    <3> QED BY <3>1, <3>2, <3>3
  <2>7. ASSUME v = <<>>
        PROVE  \A t \in Vocab : ~Wins(s, lo, k, <<>>, t)
    <3>1. Len(v) < MaxDraftTokens
      BY <1>2, <2>7
    <3> QED BY <2>5, <2>7, <3>1 DEF Voted
  <2> QED BY <2>2, <2>4, <2>5, <2>6, <2>7
<1> HIDE DEF B
<1>5. {k \in DOMAIN d.index : k <= Len(d.tokens) /\ B(k) # <<>>} = Winning(s, lo, MaxSuffixLen)
  BY <1>1, <1>3, <1>4 DEF Winning
<1>6. PICK winning : winning = Winning(s, lo, MaxSuffixLen)
  OBVIOUS
<1>7. w = IF winning = {} THEN <<>> ELSE B(Max(winning))
  BY <1>1, <1>5, <1>6, Zenon DEF SuffixDraft, B
<1>8. CASE winning = {}
  <2>1. w = <<>>
    BY <1>7, <1>8
  <2>2. <<>> \in Seq(Vocab) /\ Len(<<>>) <= MaxDraftTokens
    BY <1>2
  <2> QED BY <1>1, <1>6, <1>8, <2>1, <2>2
<1>9. CASE winning # {}
  <2>1. w = B(Max(winning))
    BY <1>7, <1>9
  <2>2. winning \subseteq 1 .. MaxSuffixLen /\ winning \in SUBSET Nat
    BY <1>6 DEF Winning
  <2>3. IsFiniteSet(winning)
    <3>1. IsFiniteSet(1 .. MaxSuffixLen)
      BY <1>2, FS_Interval
    <3> QED BY <2>2, <3>1, FS_Subset
  <2>4. PICK k \in winning : k = Max(winning)
    BY <1>9, <2>2, <2>3, MaxIsGreatest
  <2>5. k \in ks /\ \E t \in Vocab : Wins(s, lo, k, <<>>, t)
    BY <1>1, <1>6 DEF Winning
  <2> QED BY <1>1, <1>4, <1>6, <1>9, <2>1, <2>4, <2>5
<1> QED BY <1>8, <1>9

\* The shorter of two lengths.
LEMMA MinPair == \A a, b \in Nat : Min({a, b}) = IF a <= b THEN a ELSE b
<1> SUFFICES ASSUME NEW a \in Nat, NEW b \in Nat
             PROVE  Min({a, b}) = IF a <= b THEN a ELSE b
  OBVIOUS
<1>1. {a, b} \in SUBSET Nat /\ {a, b} # {}
  OBVIOUS
<1>2. Min({a, b}) \in {a, b} /\ \A x \in {a, b} : Min({a, b}) <= x
  BY <1>1, MinIsLeast
<1> QED BY <1>2

\* How much is drafted after an earlier occurrence that ends at e.
Follow(s, e) == Min({MaxDraftTokens, Len(s) - e})

\* The draft of the lookup proposer is what followed an earlier occurrence, and
\* nothing longer followed another.
LEMMA LookupIsDirect ==
    ASSUME config \in Configs, ~BySuffix, NEW s \in Seq(Vocab), NEW w, w = LookupDraft(DecOf(s))
    PROVE  /\ w \in Seq(Vocab) /\ Len(w) <= MaxDraftTokens
           /\ IF \E e \in Earlier(s, 0, NgramSize) : Follow(s, e) >= MinMatches
              THEN /\ \E e \in Earlier(s, 0, NgramSize) : w = SubSeq(s, e + 1, e + Follow(s, e))
                   /\ \A e \in Earlier(s, 0, NgramSize) : Len(w) >= Follow(s, e)
              ELSE w = <<>>
<1>d. PICK d : d = DecOf(s)
  OBVIOUS
<1>1. PICK n \in Nat, N \in Nat \ {0}, M \in Nat \ {0} : n = Len(s) /\ N = NgramSize /\ M = MaxDraftTokens
  BY LoFacts, ConfigFacts
<1>m. PICK least \in Nat \ {0} : least = MinMatches
  BY ConfigFacts
<1>2. Lo(s) = 0 /\ Lengths = {N} /\ Off(N) = 0
  BY <1>1 DEF Lo, Lengths, Off
<1>3. d.tokens = s
  <2>1. DecOf(s).tokens = SubSeq(s, 0 + 1, Len(s))
    BY <1>2 DEF DecOf
  <2>2. 0 + 1 = 1 /\ SubSeq(s, 1, Len(s)) = s
    BY SubSeqFull
  <2> QED BY <1>d, <2>1, <2>2
<1>4. PICK earlier : earlier = Earlier(s, 0, N)
  OBVIOUS
<1>5. earlier \subseteq 0 + N .. n - 1
  BY <1>1, <1>4 DEF Earlier
<1>6. ASSUME NEW e \in earlier
      PROVE  /\ e \in Nat /\ e < n /\ Follow(s, e) \in Nat \ {0} /\ Follow(s, e) <= M
             /\ e - N + N + M \in Nat /\ e + Follow(s, e) = Min({e - N + N + M, n})
             /\ Cont(d, e - N) = SubSeq(s, e + 1, e + Follow(s, e))
             /\ Cont(d, e - N) \in Seq(Vocab) /\ Len(Cont(d, e - N)) = Follow(s, e)
  <2>1. e \in Nat /\ e < n /\ n - e \in Nat \ {0}
    BY <1>5
  <2>2. Follow(s, e) = IF M <= n - e THEN M ELSE n - e
    BY <1>1, <2>1, MinPair DEF Follow
  <2>3. PICK f \in Nat \ {0} : f = Follow(s, e) /\ f <= M /\ f <= n - e
    <3>1. CASE M <= n - e
      BY <2>1, <2>2, <3>1
    <3>2. CASE ~(M <= n - e)
      <4>1. Follow(s, e) = n - e /\ n - e <= M
        BY <2>1, <2>2, <3>2
      <4> QED BY <2>1, <4>1
    <3> QED BY <3>1, <3>2
  <2>4. PICK z \in Nat : z = e - N + N + M /\ z = e + M
    BY <2>1
  <2>5. Min({z, n}) = IF z <= n THEN z ELSE n
    BY MinPair
  <2>6. e + f = Min({z, n})
    BY <2>1, <2>2, <2>3, <2>4, <2>5
  <2>7. e - N + N + 1 = e + 1
    BY <2>1
  <2>8. Cont(d, e - N) = SubSeq(s, e + 1, e + f)
    BY <1>1, <1>3, <2>4, <2>6, <2>7, Zenon DEF Cont
  <2>9. SubSeq(s, e + 1, e + f) \in Seq(Vocab) /\ Len(SubSeq(s, e + 1, e + f)) = f
    <3>1. \A j \in e + 1 .. e + f : s[j] \in Vocab
      BY <1>1, <2>1, <2>3
    <3>2. e + 1 \in Int /\ e + f \in Int /\ e + 1 <= e + f /\ (e + f) - (e + 1) + 1 = f
      BY <2>1
    <3> QED BY <3>1, <3>2, SubSeqProperties
  <2> QED BY <2>1, <2>3, <2>4, <2>6, <2>8, <2>9
<1>7. CASE n < N
  <2>1. earlier = {}
    BY <1>5, <1>7
  <2>2. w = <<>>
    BY <1>d, <1>1, <1>3, <1>7 DEF LookupDraft
  <2>3. <<>> \in Seq(Vocab) /\ Len(<<>>) <= M
    OBVIOUS
  <2> QED BY <1>1, <1>4, <2>1, <2>2, <2>3
<1>8. CASE ~(n < N)
  <2>1. PICK starts : starts = Starts(d)
    OBVIOUS
  <2>2. starts = {e - N : e \in earlier}
    <3>1. PICK k \in Lengths : k = N /\ k <= Len(s) - Lo(s)
      BY <1>1, <1>2, <1>8
    <3>2. {x \in DecOf(s).index[k][LastOf(DecOf(s).tokens, k)] : x # Len(s) - k + Off(k)}
              = {e - k + Off(k) : e \in Earlier(s, Lo(s), k)}
      BY <3>1, LastPlaces
    <3>3. {x \in d.index[N][LastOf(d.tokens, N)] : x # n - N + 0} = {e - N + 0 : e \in earlier}
      BY <1>d, <1>1, <1>2, <1>4, <3>1, <3>2
    <3>4. n - N + 0 = n - N /\ \A e \in earlier : e - N + 0 = e - N
      <4>1. \A e \in earlier : e \in Nat
        BY <1>6
      <4> QED BY <4>1
    <3>5. starts = {x \in d.index[N][LastOf(d.tokens, N)] : x # n - N}
      BY <1>1, <1>3, <2>1 DEF Starts
    <3> QED BY <3>3, <3>4, <3>5
  <2>3. PICK lens : lens = {Len(Cont(d, x)) : x \in starts}
    OBVIOUS
  <2>4. lens = {Follow(s, e) : e \in earlier}
    BY <1>6, <2>2, <2>3
  <2>5. PICK best : best = {x \in starts : Len(Cont(d, x)) = Max(lens)}
    OBVIOUS
  <2>6. w = IF starts = {} THEN <<>> ELSE IF Max(lens) < MinMatches THEN <<>> ELSE Cont(d, Min(best))
    BY <1>d, <1>1, <1>3, <1>8, <2>1, <2>3, <2>5, Zenon DEF LookupDraft
  <2>7. <<>> \in Seq(Vocab) /\ Len(<<>>) <= M
    OBVIOUS
  <2>8. CASE earlier = {}
    <3>1. starts = {}
      BY <2>2, <2>8
    <3> QED BY <1>1, <1>4, <2>6, <2>7, <2>8, <3>1
  <2>9. CASE earlier # {}
    <3>1. starts # {} /\ lens # {}
      BY <2>2, <2>4, <2>9
    <3>2. lens \in SUBSET Nat /\ lens \subseteq 0 .. M
      <4>1. ASSUME NEW e \in earlier
            PROVE  Follow(s, e) \in 0 .. M
        <5>1. PICK f \in Nat : f = Follow(s, e) /\ f <= M
          BY <1>6
        <5> QED BY <5>1
      <4> QED BY <2>4, <4>1
    <3>3. IsFiniteSet(lens)
      <4>1. IsFiniteSet(0 .. M)
        BY FS_Interval
      <4> QED BY <3>2, <4>1, FS_Subset
    <3>4. PICK long \in lens : long = Max(lens) /\ \A x \in lens : x <= long
      BY <3>1, <3>2, <3>3, MaxIsGreatest
    <3>5. CASE long < least
      <4>1. w = <<>>
        BY <1>m, <2>6, <3>1, <3>4, <3>5
      <4>2. \A e \in earlier : ~(Follow(s, e) >= least)
        <5>1. ASSUME NEW e \in earlier
              PROVE  ~(Follow(s, e) >= least)
          <6>1. Follow(s, e) \in lens
            BY <2>4
          <6>2. PICK f \in Nat : f = Follow(s, e) /\ f <= long
            BY <3>2, <3>4, <6>1
          <6>3. long \in Nat
            BY <3>2
          <6> QED BY <3>5, <6>2, <6>3
        <5> QED BY <5>1
      <4> QED BY <1>1, <1>m, <1>4, <2>7, <4>1, <4>2
    <3>6. CASE ~(long < least)
      <4>1. w = Cont(d, Min(best))
        BY <1>m, <2>6, <3>1, <3>4, <3>6
      <4>2. best \in SUBSET Nat
        BY <1>5, <2>2, <2>5
      <4>3. best # {}
        BY <2>3, <2>5, <3>4
      <4>4. Min(best) \in best
        BY <4>2, <4>3, MinIsLeast
      <4>5. PICK e \in earlier : Min(best) = e - N /\ Len(Cont(d, e - N)) = long
        BY <2>2, <2>5, <3>4, <4>4
      <4>6. w = SubSeq(s, e + 1, e + Follow(s, e)) /\ w \in Seq(Vocab) /\ Len(w) = long /\ Follow(s, e) = long
        BY <1>6, <4>1, <4>5
      <4>7. long >= least /\ long <= M
        BY <1>6, <3>2, <3>6, <4>6
      <4>8. \A x \in earlier : Len(w) >= Follow(s, x)
        BY <1>6, <2>4, <3>2, <3>4, <4>6
      <4> QED BY <1>1, <1>m, <1>4, <4>6, <4>7, <4>8
    <3> QED BY <3>5, <3>6
  <2> QED BY <2>8, <2>9
<1> QED BY <1>7, <1>8

-----------------------------------------------------------------------------
(* The invariant, first half: the sequence, the proposer and the draft.     *)
SeqInv ==
    /\ config \in Configs /\ phase \in {"empty", "ready", "drafted"}
    /\ seq \in Seq(Vocab) /\ draft \in Seq(Vocab) /\ Len(draft) <= MaxDraftTokens
    /\ phase # "drafted" => draft = <<>>
    /\ phase = "empty" <=> seq = <<>>
    /\ dec = DecOf(seq)
    /\ phase = "drafted" => draft = IF BySuffix THEN SuffixDraft(dec) ELSE LookupDraft(dec)

\* It holds initially.
LEMMA InitSeq == Init => SeqInv
<1> SUFFICES ASSUME Init PROVE SeqInv
  OBVIOUS
<1>1. config \in Configs /\ phase = "empty" /\ seq = <<>> /\ draft = <<>> /\ dec = Empty(config.proposer)
  BY DEF Init
<1>2. <<>> \in Seq(Vocab) /\ Len(<<>>) = 0 /\ 0 <= MaxDraftTokens
  BY <1>1, ConfigFacts
<1>3. dec = DecOf(<<>>)
  BY <1>1, EmptyExact
<1> QED BY <1>1, <1>2, <1>3 DEF SeqInv

\* What a proposer remembers of a sequence does not change while the
\* configuration stays.
LEMMA DecKept ==
    ASSUME config' = config, NEW s, seq' = s, dec' = DecOf(s)
    PROVE  dec' = DecOf(seq)'
BY DEF DecOf, Lo, Off, Lengths, BySuffix

\* Appending to the second of two sequences.
LEMMA ConcatAppend ==
    ASSUME NEW s \in Seq(Vocab), NEW a \in Seq(Vocab), NEW t \in Vocab
    PROVE  s \o Append(a, t) = (s \o a) \o <<t>>
<1>1. PICK b \in Seq(Vocab) : b = <<t>>
  <2>1. <<t>> \in Seq(Vocab)
    OBVIOUS
  <2> QED BY <2>1
<1>2. Append(a, t) = a \o b
  BY <1>1, AppendFacts
<1>3. (s \o a) \o b = s \o (a \o b)
  BY ConcatAssociative
<1> QED BY <1>1, <1>2, <1>3

\* Every step preserves the first half.
LEMMA NextSeq ==
    ASSUME SeqInv, [Next]_vars
    PROVE  SeqInv'
<1> USE DEF SeqInv
<1>1. ASSUME NEW len \in 1 .. MaxPrompt, NEW p \in [1 .. len -> Vocab], NEW t \in Vocab, Prefill(p, t)
      PROVE  SeqInv'
  <2>1. PICK u \in Seq(Vocab) : u = Append(p, t) /\ u # <<>>
    <3>1. len \in Nat
      BY ConfigFacts
    <3>2. p \in Seq(Vocab)
      BY <3>1, SeqDef
    <3>3. Append(p, t) \in Seq(Vocab) /\ Append(p, t) # <<>>
      BY <3>2, AppendProperties, ZenonT(40)
    <3> QED BY <3>3
  <2>2. /\ phase = "empty" /\ phase' = "ready" /\ seq' = u /\ dec' = AddAll(dec, u)
        /\ config' = config /\ draft' = draft
    BY <1>1, <2>1 DEF Prefill
  <2>3. dec = DecOf(<<>>) /\ draft = <<>>
    BY <2>2
  <2>4. <<>> \in Seq(Vocab) /\ <<>> \o u = u
    OBVIOUS
  <2>5. dec' = DecOf(u)
    BY <2>2, <2>3, <2>4, AddAllExact
  <2>6. dec' = DecOf(seq)'
    BY <2>2, <2>5, DecKept
  <2> QED BY <2>1, <2>2, <2>3, <2>6
<1>2. ASSUME Draft
      PROVE  SeqInv'
  <2>1. /\ phase = "ready" /\ phase' = "drafted" /\ UNCHANGED <<config, seq, dec>>
        /\ draft' = IF BySuffix THEN SuffixDraft(dec) ELSE LookupDraft(dec)
    BY <1>2, Zenon DEF Draft, BySuffix
  <2>2. draft' \in Seq(Vocab) /\ Len(draft') <= MaxDraftTokens
    <3>1. PICK s \in Seq(Vocab) : s = seq
      OBVIOUS
    <3>2. dec = DecOf(s)
      BY <3>1
    <3>3. CASE BySuffix
      <4>1. PICK w : w = SuffixDraft(DecOf(s))
        OBVIOUS
      <4>2. w \in Seq(Vocab) /\ Len(w) <= MaxDraftTokens
        BY <3>3, <4>1, SuffixIsDirect
      <4> QED BY <2>1, <3>2, <3>3, <4>1, <4>2
    <3>4. CASE ~BySuffix
      <4>1. PICK w : w = LookupDraft(DecOf(s))
        OBVIOUS
      <4>2. w \in Seq(Vocab) /\ Len(w) <= MaxDraftTokens
        BY <3>4, <4>1, LookupIsDirect
      <4> QED BY <2>1, <3>2, <3>4, <4>1, <4>2
    <3> QED BY <3>3, <3>4
  <2>3. PICK s : s = seq
    OBVIOUS
  <2>4. dec' = DecOf(seq)'
    <3>1. config' = config /\ seq' = s /\ dec' = DecOf(s)
      BY <2>1, <2>3
    <3> QED BY <3>1, DecKept
  <2>5. draft' = IF BySuffix' THEN SuffixDraft(dec') ELSE LookupDraft(dec')
    BY <2>1 DEF BySuffix
  <2> QED BY <2>1, <2>2, <2>4, <2>5
<1>3. ASSUME NEW n \in 0 .. MaxDraftTokens, NEW t \in Vocab, Verify(n, t)
      PROVE  SeqInv'
  <2>1. PICK s \in Seq(Vocab), w \in Seq(Vocab) : s = seq /\ w = draft
    OBVIOUS
  <2>2. /\ phase' = "ready" /\ n <= Len(w) /\ config' = config /\ draft' = <<>>
        /\ seq' = s \o SubSeq(w, 1, n) \o <<t>>
        /\ dec' = AddAll(dec, Append(SubSeq(w, 1, n), t))
    BY <1>3, <2>1 DEF Verify
  <2>3. PICK a \in Seq(Vocab) : a = SubSeq(w, 1, n)
    <3>1. n \in Nat /\ \A j \in 1 .. n : w[j] \in Vocab
      BY <2>2, ConfigFacts
    <3>2. SubSeq(w, 1, n) \in Seq(Vocab)
      BY <3>1, SubSeqProperties
    <3> QED BY <3>2
  <2>4. PICK u \in Seq(Vocab), v \in Seq(Vocab) : u = Append(a, t) /\ v = s \o u /\ v # <<>>
    <3>1. Append(a, t) \in Seq(Vocab) /\ Len(Append(a, t)) = Len(a) + 1 /\ Len(a) \in Nat
      BY AppendFacts
    <3>2. /\ s \o Append(a, t) \in Seq(Vocab)
          /\ Len(s \o Append(a, t)) = Len(s) + Len(Append(a, t)) /\ Len(s) \in Nat
      BY <3>1, ConcatProperties
    <3>3. s \o Append(a, t) # <<>>
      <4>1. Len(s \o Append(a, t)) > 0
        BY <3>1, <3>2
      <4>2. Len(<<>>) = 0
        OBVIOUS
      <4>3. ASSUME s \o Append(a, t) = <<>>
            PROVE  Len(s \o Append(a, t)) = 0
        BY <4>2, <4>3, Zenon
      <4> QED BY <4>1, <4>3
    <3> QED BY <3>1, <3>2, <3>3
  <2>5. seq' = v
    <3>1. s \o Append(a, t) = (s \o a) \o <<t>>
      BY ConcatAppend
    <3> QED BY <2>2, <2>3, <2>4, <3>1
  <2>6. dec' = DecOf(v)
    BY <2>1, <2>2, <2>3, <2>4, AddAllExact
  <2>7. dec' = DecOf(seq)'
    BY <2>2, <2>5, <2>6, DecKept
  <2>8. <<>> \in Seq(Vocab) /\ Len(<<>>) = 0 /\ 0 <= MaxDraftTokens
    BY ConfigFacts
  <2> QED BY <2>2, <2>4, <2>5, <2>7, <2>8
<1>4. ASSUME Reset
      PROVE  SeqInv'
  <2>1. /\ phase' = "empty" /\ seq' = <<>> /\ draft' = <<>> /\ config' = config
        /\ dec' = Empty(config.proposer)
    BY <1>4 DEF Reset
  <2>2. dec' = DecOf(<<>>)
    BY <2>1, EmptyExact
  <2>3. dec' = DecOf(seq)'
    BY <2>1, <2>2, DecKept
  <2>4. <<>> \in Seq(Vocab) /\ Len(<<>>) = 0 /\ 0 <= MaxDraftTokens
    BY ConfigFacts
  <2> QED BY <2>1, <2>3, <2>4
<1>5. ASSUME UNCHANGED vars
      PROVE  SeqInv'
  BY <1>5 DEF vars, DecOf, Lo, Off, Lengths, BySuffix
<1> QED BY <1>1, <1>2, <1>3, <1>4, <1>5 DEF Next

\* What IndexExact says of a sequence s of length n, remembered from lo on.
IndexIs(s, lo, n) ==
    /\ dec.tokens = SubSeq(s, lo + 1, n) /\ dec.shift = lo
    /\ \A k \in DOMAIN dec.index :
          /\ DOMAIN dec.index[k] = {SubSeq(s, x + 1, x + k) : x \in lo .. n - k}
          /\ \A g \in DOMAIN dec.index[k] :
                dec.index[k][g] = {IF config.proposer = "suffix" THEN x + k - 1 ELSE x :
                                      x \in {y \in lo .. n - k : SubSeq(s, y + 1, y + k) = g}}

\* The index is exact (the property of the runs).
LEMMA IndexFromSeq == SeqInv => IndexExact
<1> SUFFICES ASSUME SeqInv PROVE IndexExact
  OBVIOUS
<1>1. PICK s \in Seq(Vocab), lo \in Nat, n \in Nat : s = seq /\ lo = Lo(s) /\ n = Len(s)
  BY LoFacts DEF SeqInv
<1>2. config \in Configs /\ dec = DecOf(s)
  BY <1>1 DEF SeqInv
<1>3. /\ dec.tokens = SubSeq(s, lo + 1, n) /\ dec.shift = lo
      /\ dec.index = [k \in Lengths |-> Bucket(s, lo, k, Off(k))]
  BY <1>1, <1>2 DEF DecOf
<1>4. ASSUME NEW k \in Lengths
      PROVE  /\ DOMAIN dec.index[k] = {SubSeq(s, x + 1, x + k) : x \in lo .. n - k}
             /\ \A g \in DOMAIN dec.index[k] :
                   dec.index[k][g] = {IF config.proposer = "suffix" THEN x + k - 1 ELSE x :
                                         x \in {y \in lo .. n - k : SubSeq(s, y + 1, y + k) = g}}
  <2>1. dec.index[k] = [g \in {SubSeq(s, x + 1, x + k) : x \in lo .. n - k} |->
                           {x + Off(k) : x \in {y \in lo .. n - k : SubSeq(s, y + 1, y + k) = g}}]
    BY <1>1, <1>3 DEF Bucket, Gram
  <2>2. \A x \in lo .. n - k : x + Off(k) = IF config.proposer = "suffix" THEN x + k - 1 ELSE x
    <3>1. k \in Nat
      BY <1>2, ConfigFacts
    <3> QED BY <1>1, <3>1 DEF Off, BySuffix
  <2> QED BY <2>1, <2>2
<1>5. lo = IF config.proposer = "suffix" /\ config.maxHistory > 0 THEN Max({0, n - config.maxHistory}) ELSE 0
  BY <1>1 DEF Lo, BySuffix
<1>6. DOMAIN dec.index = Lengths
  BY <1>3
<1>7. IndexIs(s, lo, n)
  BY <1>3, <1>4, <1>6, Zenon DEF IndexIs
<1>8. IndexIs(seq, IF config.proposer = "suffix" /\ config.maxHistory > 0
                   THEN Max({0, Len(seq) - config.maxHistory}) ELSE 0, Len(seq))
  BY <1>1, <1>5, <1>7
<1> QED BY <1>8, Zenon DEF IndexExact, IndexIs

\* The draft is direct (the property of the runs).
LEMMA DraftFromSeq == SeqInv => DraftDirect
<1> SUFFICES ASSUME SeqInv, phase = "drafted" PROVE DraftDirect
  BY DEF DraftDirect
<1>1. PICK s \in Seq(Vocab), lo \in Nat, n \in Nat : s = seq /\ lo = Lo(s) /\ n = Len(s) /\ lo <= n
  BY LoFacts DEF SeqInv
<1>2. config \in Configs /\ dec = DecOf(s) /\ draft = IF BySuffix THEN SuffixDraft(dec) ELSE LookupDraft(dec)
  BY <1>1 DEF SeqInv
<1>3. Len(dec.tokens) = n - lo /\ n - (n - lo) = lo
  BY <1>1, <1>2, DecFacts
<1>4. PICK w : w = draft
  OBVIOUS
<1>5. CASE BySuffix
  <2>1. IF Winning(s, lo, MaxSuffixLen) = {} THEN w = <<>>
        ELSE w # <<>> /\ Voted(s, lo, Max(Winning(s, lo, MaxSuffixLen)), w)
    BY <1>1, <1>2, <1>4, <1>5, SuffixIsDirect
  <2>2. {k \in {x \in 1 .. MaxSuffixLen : x <= n - lo} : \E t \in Vocab : Wins(s, lo, k, <<>>, t)}
            = Winning(s, lo, MaxSuffixLen)
    BY <1>1 DEF Winning
  <2> QED BY <1>1, <1>3, <1>4, <1>5, <2>1, <2>2 DEF DraftDirect, BySuffix
<1>6. CASE ~BySuffix
  <2>1. lo = 0
    BY <1>1, <1>6 DEF Lo
  <2>2. IF \E e \in Earlier(s, 0, NgramSize) : Follow(s, e) >= MinMatches
        THEN /\ \E e \in Earlier(s, 0, NgramSize) : w = SubSeq(s, e + 1, e + Follow(s, e))
             /\ \A e \in Earlier(s, 0, NgramSize) : Len(w) >= Follow(s, e)
        ELSE w = <<>>
    BY <1>2, <1>4, <1>6, LookupIsDirect
  <2> QED BY <1>1, <1>3, <1>4, <1>6, <2>1, <2>2 DEF DraftDirect, BySuffix, Follow
<1> QED BY <1>5, <1>6

-----------------------------------------------------------------------------
(* The caches.                                                              *)

\* Rounding up to a multiple.
LEMMA RoundUp ==
    ASSUME NEW n \in Nat, NEW s \in Nat \ {0}
    PROVE  roundUp(n, s) \in Nat /\ roundUp(n, s) >= n /\ roundUp(n, s) % s = 0
<1>1. PICK q \in Int, m \in 0 .. s - 1 : q = n \div s /\ m = n % s /\ n = s * q + m
  BY DivMod
<1>2. CASE m = 0
  BY <1>1, <1>2 DEF roundUp
<1>3. CASE m # 0
  <2>1. roundUp(n, s) = (q + 1) * s
    BY <1>1, <1>3 DEF roundUp
  <2>2. PICK x \in Int : x = s * q
    BY <1>1
  <2>3. (q + 1) * s = x + s
    BY <1>1, <2>2
  <2>4. x + s >= n /\ x + s \in Nat
    BY <1>1, <2>2
  <2>5. ((q + 1) * s) % s = 0
    <3>1. q + 1 \in Int
      BY <1>1
    <3> QED BY <3>1, ModSimple
  <2> QED BY <2>1, <2>3, <2>4, <2>5
<1> QED BY <1>2, <1>3

\* The step is a positive number.
LEMMA StepFacts == step \in Nat \ {0}
BY StepAssumption DEF step, DefaultStep

\* How many slots of a full window are never written again: the pinned ones, but not
\* the last slot, which is written over when all are pinned.
StaticSlots(maxSize, keep) == IF keep >= maxSize THEN maxSize - 1 ELSE keep

\* A ring of offset positions: each in its own slot until the window is full, then
\* the first ones in theirs for good and the newest around the rest.
RingHolds(r, maxSize, keep) ==
    LET pinned == StaticSlots(maxSize, keep)
        span == maxSize - pinned
    IN  /\ r.offset \in Nat
        /\ r.size = IF maxSize <= 0 \/ r.offset <= maxSize THEN r.offset ELSE maxSize
        /\ maxSize <= 0 \/ r.offset < maxSize =>
              \A s \in 0 .. r.offset - 1 : s \in DOMAIN r.held /\ r.held[s] = s
        /\ ~(maxSize <= 0 \/ r.offset < maxSize) =>
              /\ \A s \in 0 .. pinned - 1 : s \in DOMAIN r.held /\ r.held[s] = s
              /\ \A p \in r.offset - span .. r.offset - 1 :
                    /\ pinned + ((p - pinned) % span) \in DOMAIN r.held
                    /\ r.held[pinned + ((p - pinned) % span)] = p

\* Pinned slots and the rest make up the window.
LEMMA PinnedFacts ==
    ASSUME NEW maxSize \in Nat \ {0}, NEW keep \in Nat
    PROVE  /\ StaticSlots(maxSize, keep) \in Nat /\ maxSize - StaticSlots(maxSize, keep) \in Nat \ {0}
BY DEF StaticSlots

\* The slot of the next position.
LEMMA SlotOf ==
    ASSUME NEW maxSize \in Int, NEW keep \in Nat, NEW r, RingHolds(r, maxSize, keep)
    PROVE  /\ maxSize <= 0 \/ r.offset < maxSize => Slot(r, maxSize, keep) = r.offset
           /\ ~(maxSize <= 0 \/ r.offset < maxSize) =>
                 Slot(r, maxSize, keep) = StaticSlots(maxSize, keep)
                     + ((r.offset - StaticSlots(maxSize, keep)) % (maxSize - StaticSlots(maxSize, keep)))
<1>1. PICK offset \in Nat : offset = r.offset
  BY DEF RingHolds
<1>2. r.size = IF maxSize <= 0 \/ offset <= maxSize THEN offset ELSE maxSize
  BY <1>1 DEF RingHolds
<1>3. CASE maxSize <= 0 \/ offset < maxSize
  BY <1>1, <1>2, <1>3 DEF Slot
<1>4. CASE ~(maxSize <= 0 \/ offset < maxSize)
  <2>1. maxSize \in Nat \ {0} /\ r.size = maxSize
    BY <1>1, <1>2, <1>4
  <2>2. CASE keep >= maxSize
    <3>1. StaticSlots(maxSize, keep) = maxSize - 1 /\ maxSize - (maxSize - 1) = 1
      BY <2>2 DEF StaticSlots
    <3>2. Slot(r, maxSize, keep) = maxSize - 1
      BY <1>4, <2>1, <2>2 DEF Slot
    <3>3. PICK a \in Int : a = offset - (maxSize - 1)
      BY <1>1
    <3>4. a % 1 = 0
      <4>1. a = a * 1
        OBVIOUS
      <4> QED BY <4>1, ModSimple
    <3> QED BY <1>1, <1>4, <3>1, <3>2, <3>3, <3>4
  <2>3. CASE ~(keep >= maxSize)
    <3>1. StaticSlots(maxSize, keep) = keep
      BY <2>3 DEF StaticSlots
    <3>2. Slot(r, maxSize, keep) = keep + ((r.offset - keep) % (maxSize - keep))
      BY <1>4, <2>1, <2>3 DEF Slot
    <3> QED BY <1>1, <1>4, <3>1, <3>2
  <2> QED BY <2>2, <2>3
<1> QED BY <1>1, <1>3, <1>4

\* Writing one position more.
LEMMA UpdateHolds ==
    ASSUME NEW maxSize \in Int, NEW keep \in Nat, NEW r, RingHolds(r, maxSize, keep)
    PROVE  /\ RingHolds(Update(r, maxSize, keep), maxSize, keep)
           /\ Update(r, maxSize, keep).offset = r.offset + 1
<1>1. PICK offset \in Nat : offset = r.offset
  BY DEF RingHolds
<1>2. PICK pinned \in Int : pinned = StaticSlots(maxSize, keep)
  BY DEF StaticSlots
<1>3. PICK span \in Int : span = maxSize - pinned
  OBVIOUS
<1>4. PICK slot, w : slot = Slot(r, maxSize, keep) /\ w = Update(r, maxSize, keep)
  OBVIOUS
<1>5. /\ w.offset = offset + 1
      /\ w.size = IF maxSize <= 0 \/ r.size < maxSize THEN r.size + 1 ELSE r.size
      /\ DOMAIN w.held = (DOMAIN r.held) \cup {slot}
      /\ \A s \in (DOMAIN r.held) \cup {slot} : w.held[s] = IF s = slot THEN offset ELSE r.held[s]
  BY <1>1, <1>4 DEF Update
<1>6. /\ r.size = IF maxSize <= 0 \/ offset <= maxSize THEN offset ELSE maxSize
      /\ maxSize <= 0 \/ offset < maxSize =>
              \A s \in 0 .. offset - 1 : s \in DOMAIN r.held /\ r.held[s] = s
      /\ ~(maxSize <= 0 \/ offset < maxSize) =>
              /\ \A s \in 0 .. pinned - 1 : s \in DOMAIN r.held /\ r.held[s] = s
              /\ \A p \in offset - span .. offset - 1 :
                    /\ pinned + ((p - pinned) % span) \in DOMAIN r.held
                    /\ r.held[pinned + ((p - pinned) % span)] = p
  BY <1>1, <1>2, <1>3, Zenon DEF RingHolds
<1>7. w.size = IF maxSize <= 0 \/ offset + 1 <= maxSize THEN offset + 1 ELSE maxSize
  BY <1>5, <1>6
<1>8. /\ maxSize <= 0 \/ offset < maxSize => slot = offset
      /\ ~(maxSize <= 0 \/ offset < maxSize) => slot = pinned + ((offset - pinned) % span)
  <2>1. /\ maxSize <= 0 \/ r.offset < maxSize => Slot(r, maxSize, keep) = r.offset
        /\ ~(maxSize <= 0 \/ r.offset < maxSize) =>
                 Slot(r, maxSize, keep) = StaticSlots(maxSize, keep)
                     + ((r.offset - StaticSlots(maxSize, keep)) % (maxSize - StaticSlots(maxSize, keep)))
    BY SlotOf
  <2> QED BY <1>1, <1>2, <1>3, <1>4, <2>1
<1>9. ~(maxSize <= 0) => pinned \in Nat /\ span \in Nat \ {0}
  BY <1>2, <1>3, PinnedFacts
<1>10. maxSize <= 0 \/ offset + 1 < maxSize =>
           \A s \in 0 .. (offset + 1) - 1 : s \in DOMAIN w.held /\ w.held[s] = s
  <2>1. SUFFICES ASSUME maxSize <= 0 \/ offset + 1 < maxSize, NEW s \in 0 .. (offset + 1) - 1
                 PROVE  s \in DOMAIN w.held /\ w.held[s] = s
    OBVIOUS
  <2>2. maxSize <= 0 \/ offset < maxSize
    BY <2>1
  <2>3. s = offset \/ s \in 0 .. offset - 1
    BY <2>1
  <2> QED BY <1>5, <1>6, <1>8, <2>2, <2>3
<1>11. ASSUME ~(maxSize <= 0 \/ offset + 1 < maxSize)
       PROVE  /\ \A s \in 0 .. pinned - 1 : s \in DOMAIN w.held /\ w.held[s] = s
              /\ \A p \in (offset + 1) - span .. (offset + 1) - 1 :
                    /\ pinned + ((p - pinned) % span) \in DOMAIN w.held
                    /\ w.held[pinned + ((p - pinned) % span)] = p
  <2>1. pinned \in Nat /\ span \in Nat \ {0} /\ pinned + span = maxSize
    BY <1>3, <1>9, <1>11
  <2>2. CASE offset < maxSize
    <3>1. offset + 1 = maxSize /\ slot = offset
      BY <1>8, <1>11, <2>2
    <3>2. \A s \in 0 .. offset : s \in DOMAIN w.held /\ w.held[s] = s
      <4>1. ASSUME NEW s \in 0 .. offset
            PROVE  s \in DOMAIN w.held /\ w.held[s] = s
        <5>1. s = offset \/ s \in 0 .. offset - 1
          OBVIOUS
        <5> QED BY <1>5, <1>6, <2>2, <3>1, <5>1
      <4> QED BY <4>1
    <3>3. ASSUME NEW p \in (offset + 1) - span .. (offset + 1) - 1
          PROVE  pinned + ((p - pinned) % span) = p /\ p \in 0 .. offset
      <4>1. PICK m \in 0 .. span - 1 : m = p - pinned
        BY <2>1, <3>1
      <4>2. m % span = m
        BY <2>1, ModSimple
      <4> QED BY <2>1, <3>1, <4>1, <4>2
    <3>4. \A s \in 0 .. pinned - 1 : s \in 0 .. offset
      BY <2>1, <3>1
    <3> QED BY <3>2, <3>3, <3>4
  <2>3. CASE ~(offset < maxSize)
    <3>1. PICK m \in 0 .. span - 1 : m = (offset - pinned) % span /\ slot = pinned + m
      <4>1. offset - pinned \in Int
        BY <2>1
      <4>2. (offset - pinned) % span \in 0 .. span - 1
        BY <2>1, <4>1, DivMod
      <4> QED BY <1>8, <1>11, <2>3, <4>2
    <3>2. ~(maxSize <= 0 \/ offset < maxSize)
      BY <1>11, <2>3
    <3>3. \A s \in 0 .. pinned - 1 : s \in DOMAIN w.held /\ w.held[s] = s
      <4>1. \A s \in 0 .. pinned - 1 : s # slot
        BY <2>1, <3>1
      <4> QED BY <1>5, <1>6, <3>2, <4>1
    <3>4. ASSUME NEW p \in (offset + 1) - span .. (offset + 1) - 1
          PROVE  /\ pinned + ((p - pinned) % span) \in DOMAIN w.held
                 /\ w.held[pinned + ((p - pinned) % span)] = p
      <4>1. CASE p = offset
        <5>1. pinned + ((p - pinned) % span) = slot
          BY <3>1, <4>1
        <5> QED BY <1>5, <4>1, <5>1
      <4>2. CASE p # offset
        <5>1. p \in offset - span .. offset - 1
          BY <2>1, <4>2
        <5>2. PICK a \in Int, k \in 0 .. span - 1 : a = p - pinned /\ k = offset - p /\ a + k = offset - pinned /\ k # 0
          BY <2>1, <4>2
        <5>3. PICK j \in 0 .. span - 1 : j = a % span
          <6>1. a % span \in 0 .. span - 1
            BY <2>1, DivMod
          <6> QED BY <6>1
        <5>4. m = IF j + k < span THEN j + k ELSE j + k - span
          BY <2>1, <3>1, <5>2, <5>3, ModPlus, ZenonT(40)
        <5>5. j # m
          BY <2>1, <5>2, <5>4
        <5>6. pinned + j # slot
          BY <2>1, <3>1, <5>5
        <5>7. pinned + j \in DOMAIN r.held /\ r.held[pinned + j] = p
          BY <1>6, <3>2, <5>1, <5>2, <5>3
        <5> QED BY <1>5, <5>2, <5>3, <5>6, <5>7
      <4> QED BY <4>1, <4>2
    <3> QED BY <3>3, <3>4
  <2> QED BY <2>2, <2>3
<1>12. RingHolds(w, maxSize, keep)
  <2>1. offset + 1 \in Nat
    OBVIOUS
  <2> QED BY <1>2, <1>3, <1>5, <1>7, <1>10, <1>11, <2>1, Zenon DEF RingHolds
<1> QED BY <1>1, <1>4, <1>5, <1>12

\* Writing n positions more.
LEMMA UpdatesHold ==
    ASSUME NEW maxSize \in Int, NEW keep \in Nat, NEW n \in Nat, NEW r, RingHolds(r, maxSize, keep)
    PROVE  /\ RingHolds(Updates(r, n, maxSize, keep), maxSize, keep)
           /\ Updates(r, n, maxSize, keep).offset = r.offset + n
<1>1. PICK acc : /\ acc[0] = r
                 /\ \A i \in 1 .. n : acc[i] = Update(acc[i - 1], maxSize, keep)
                 /\ acc[n] = Updates(r, n, maxSize, keep)
  BY UpdatesFold
<1>2. r.offset \in Nat
  BY DEF RingHolds
<1> DEFINE Reached == {i \in Nat : i <= n => RingHolds(acc[i], maxSize, keep) /\ acc[i].offset = r.offset + i}
<1>3. 0 \in Reached
  BY <1>1, <1>2
<1>4. ASSUME NEW i \in Reached
      PROVE  i + 1 \in Reached
  <2>1. SUFFICES ASSUME i + 1 <= n
                 PROVE  RingHolds(acc[i + 1], maxSize, keep) /\ acc[i + 1].offset = r.offset + (i + 1)
    OBVIOUS
  <2>2. i \in Nat /\ i + 1 \in 1 .. n /\ (i + 1) - 1 = i /\ i <= n
    BY <2>1
  <2>3. RingHolds(acc[i], maxSize, keep) /\ acc[i].offset = r.offset + i
    BY <2>2
  <2>4. acc[i + 1] = Update(acc[i], maxSize, keep)
    BY <1>1, <2>2
  <2>5. RingHolds(acc[i + 1], maxSize, keep) /\ acc[i + 1].offset = acc[i].offset + 1
    BY <2>3, <2>4, UpdateHolds
  <2> QED BY <1>2, <2>2, <2>3, <2>5
<1>5. Reached = Nat
  <2>1. Reached \in SUBSET Nat
    OBVIOUS
  <2> HIDE DEF Reached
  <2> QED BY <1>3, <1>4, <2>1, SetInduction
<1>6. n \in Reached
  BY <1>5
<1> QED BY <1>1, <1>6

\* The positions a ring holds.
HeldOf(r) == {r.held[s] : s \in 0 .. r.size - 1}

\* They are all of them, or the first and the newest ones.
LEMMA HeldIs ==
    ASSUME NEW maxSize \in Int, NEW keep \in Nat, NEW r, RingHolds(r, maxSize, keep)
    PROVE  HeldOf(r) = IF maxSize <= 0 \/ r.offset <= maxSize THEN 0 .. r.offset - 1
                       ELSE (0 .. StaticSlots(maxSize, keep) - 1)
                            \cup (r.offset - (maxSize - StaticSlots(maxSize, keep)) .. r.offset - 1)
<1>1. PICK offset \in Nat : offset = r.offset
  BY DEF RingHolds
<1>2. PICK pinned \in Int : pinned = StaticSlots(maxSize, keep)
  BY DEF StaticSlots
<1>3. PICK span \in Int : span = maxSize - pinned
  OBVIOUS
<1>4. /\ r.size = IF maxSize <= 0 \/ offset <= maxSize THEN offset ELSE maxSize
      /\ maxSize <= 0 \/ offset < maxSize =>
              \A s \in 0 .. offset - 1 : s \in DOMAIN r.held /\ r.held[s] = s
      /\ ~(maxSize <= 0 \/ offset < maxSize) =>
              /\ \A s \in 0 .. pinned - 1 : s \in DOMAIN r.held /\ r.held[s] = s
              /\ \A p \in offset - span .. offset - 1 :
                    /\ pinned + ((p - pinned) % span) \in DOMAIN r.held
                    /\ r.held[pinned + ((p - pinned) % span)] = p
  BY <1>1, <1>2, <1>3, Zenon DEF RingHolds
<1>5. CASE maxSize <= 0 \/ offset < maxSize
  <2>1. r.size = offset
    BY <1>4, <1>5
  <2>2. {r.held[s] : s \in 0 .. offset - 1} = 0 .. offset - 1
    BY <1>4, <1>5
  <2> QED BY <1>1, <1>5, <2>1, <2>2 DEF HeldOf
<1>6. CASE ~(maxSize <= 0 \/ offset < maxSize)
  <2>1. pinned \in Nat /\ span \in Nat \ {0} /\ pinned + span = maxSize /\ maxSize \in Nat \ {0}
    <3>1. maxSize \in Nat \ {0}
      BY <1>6
    <3> QED BY <1>2, <1>3, <3>1, PinnedFacts
  <2>2. r.size = maxSize
    BY <1>4, <1>6
  <2>3. PICK next \in 0 .. span - 1, q \in Int : offset - pinned = span * q + next
    <3>1. PICK a \in Int : a = offset - pinned
      BY <2>1
    <3>2. a % span \in 0 .. span - 1 /\ a \div span \in Int /\ a = span * (a \div span) + (a % span)
      BY <2>1, DivMod
    <3> QED BY <3>1, <3>2
  <2>4. ASSUME NEW s \in 0 .. maxSize - 1
        PROVE  r.held[s] \in (0 .. pinned - 1) \cup (offset - span .. offset - 1)
    <3>1. CASE s < pinned
      <4>1. s \in 0 .. pinned - 1
        BY <3>1
      <4> QED BY <1>4, <1>6, <4>1
    <3>2. CASE ~(s < pinned)
      <4>1. PICK j \in 0 .. span - 1 : s = pinned + j
        <5>1. s - pinned \in 0 .. span - 1 /\ s = pinned + (s - pinned)
          BY <2>1, <3>2
        <5> QED BY <5>1
      <4>2. PICK p \in offset - span .. offset - 1 : (p - pinned) % span = j
        <5>1. PICK x \in Int : x = span * q
          BY <2>1
        <5>2. CASE j < next
          <6>1. PICK p \in offset - span .. offset - 1 : p = offset - (next - j)
            BY <2>1, <5>2
          <6>2. PICK a \in Int : a = p - pinned /\ a = span * q + j
            BY <2>1, <2>3, <5>1, <6>1
          <6>3. a % span = j
            BY <2>1, <6>2, ModUnique
          <6> QED BY <6>2, <6>3
        <5>3. CASE ~(j < next)
          <6>1. PICK p \in offset - span .. offset - 1 : p = offset - (next + span - j)
            BY <2>1, <5>3
          <6>2. PICK b \in Int : b = q - 1
            OBVIOUS
          <6>3. span * b = x - span
            BY <2>1, <5>1, <6>2
          <6>4. PICK a \in Int : a = p - pinned /\ a = span * b + j
            BY <2>1, <2>3, <5>1, <6>1, <6>3
          <6>5. a % span = j
            BY <2>1, <6>2, <6>4, ModUnique
          <6> QED BY <6>4, <6>5
        <5> QED BY <5>2, <5>3
      <4>3. r.held[pinned + j] = p
        BY <1>4, <1>6, <4>2
      <4> QED BY <4>1, <4>2, <4>3
    <3> QED BY <3>1, <3>2
  <2>5. ASSUME NEW p \in 0 .. pinned - 1
        PROVE  p \in {r.held[s] : s \in 0 .. maxSize - 1}
    <3>1. p \in 0 .. maxSize - 1 /\ r.held[p] = p
      BY <1>4, <1>6, <2>1
    <3> QED BY <3>1
  <2>6. ASSUME NEW p \in offset - span .. offset - 1
        PROVE  p \in {r.held[s] : s \in 0 .. maxSize - 1}
    <3>1. PICK j \in 0 .. span - 1 : j = (p - pinned) % span
      <4>1. PICK a \in Int : a = p - pinned
        BY <2>1
      <4>2. a % span \in 0 .. span - 1
        BY <2>1, DivMod
      <4> QED BY <4>1, <4>2
    <3>2. r.held[pinned + j] = p
      BY <1>4, <1>6, <3>1
    <3>3. pinned + j \in 0 .. maxSize - 1
      BY <2>1
    <3> QED BY <3>2, <3>3
  <2>7. {r.held[s] : s \in 0 .. maxSize - 1} = (0 .. pinned - 1) \cup (offset - span .. offset - 1)
    BY <2>4, <2>5, <2>6
  <2>8. offset <= maxSize => (0 .. pinned - 1) \cup (offset - span .. offset - 1) = 0 .. offset - 1
    <3>1. ASSUME offset <= maxSize
          PROVE  (0 .. pinned - 1) \cup (offset - span .. offset - 1) = 0 .. offset - 1
      <4>1. offset - span = pinned /\ pinned <= offset
        BY <1>6, <2>1, <3>1
      <4> QED BY <2>1, <4>1
    <3> QED BY <3>1
  <2> QED BY <1>1, <1>2, <1>3, <1>6, <2>2, <2>7, <2>8 DEF HeldOf
<1> QED BY <1>5, <1>6

-----------------------------------------------------------------------------
(* The invariant, second half: the counters and the caches.                 *)
Drafting == IF phase = "drafted" THEN 1 ELSE 0
Counters ==
    /\ prompt \in Nat /\ stats.steps \in Nat /\ stats.drafts \in Nat /\ stats.proposed \in Nat
    /\ stats.successes \in Nat /\ stats.accepted \in Nat
StepInv ==
    /\ Counters
    /\ stats.accepted + Len(draft) <= stats.proposed
    /\ stats.successes + (IF draft = <<>> THEN 0 ELSE 1) <= stats.drafts
    /\ kv = [offset |-> kv.offset, capacity |-> kv.capacity]
    /\ kv.offset \in Nat /\ kv.capacity \in Nat /\ kv.capacity >= kv.offset /\ kv.capacity % step = 0
    /\ RingHolds(ring, config.maxSize, config.keep)
    /\ phase = "empty" => kv.offset = 0 /\ ring.offset = 0 /\ stats = NoStats
    /\ phase # "empty" =>
          /\ kv.offset = Len(seq) - 1 + Drafting + Len(draft)
          /\ ring.offset = Len(seq) - 1
          /\ Len(seq) = prompt + 1 + stats.accepted + stats.steps - Drafting

IInv == SeqInv /\ StepInv

\* The empty caches.
LEMMA EmptyCaches ==
    ASSUME NEW maxSize \in Int, NEW keep \in Nat, NEW r, r.offset = 0, r.size = 0
    PROVE  RingHolds(r, maxSize, keep) /\ 0 % step = 0
<1>1. 0 % step = 0
  <2>1. 0 = 0 * step /\ 0 \in Int
    BY StepFacts
  <2> QED BY <2>1, StepFacts, ModSimple
<1>2. 0 .. 0 - 1 = {}
  OBVIOUS
<1>3. r.size = IF maxSize <= 0 \/ r.offset <= maxSize THEN r.offset ELSE maxSize
  OBVIOUS
<1>4. maxSize <= 0 \/ r.offset < maxSize
  OBVIOUS
<1>5. \A s \in 0 .. r.offset - 1 : s \in DOMAIN r.held /\ r.held[s] = s
  BY <1>2
<1>6. r.offset \in Nat
  OBVIOUS
<1> QED BY <1>1, <1>3, <1>4, <1>5, <1>6, Zenon DEF RingHolds

\* It holds initially.
LEMMA InitSteps == Init => StepInv
<1> SUFFICES ASSUME Init PROVE StepInv
  OBVIOUS
<1>1. /\ config \in Configs /\ phase = "empty" /\ draft = <<>> /\ prompt = 0
      /\ stats = [steps |-> 0, drafts |-> 0, proposed |-> 0, successes |-> 0, accepted |-> 0]
      /\ kv = [offset |-> 0, capacity |-> 0] /\ ring = [offset |-> 0, size |-> 0, held |-> <<>>]
  BY DEF Init, NoStats, EmptyCache, EmptyRing
<1>2. RingHolds(ring, config.maxSize, config.keep) /\ 0 % step = 0
  <2>1. config.maxSize \in Int /\ config.keep \in Nat /\ ring.offset = 0 /\ ring.size = 0
    BY <1>1, ConfigFacts
  <2> QED BY <2>1, EmptyCaches
<1>3. Len(draft) = 0
  BY <1>1
<1> QED BY <1>1, <1>2, <1>3 DEF StepInv, Counters, NoStats

\* Every step preserves the second half.
LEMMA NextSteps ==
    ASSUME SeqInv, StepInv, [Next]_vars
    PROVE  StepInv'
<1>1. /\ config.maxSize \in Int /\ config.keep \in Nat /\ MaxPrompt \in Nat /\ MaxDraftTokens \in Nat
      /\ seq \in Seq(Vocab) /\ draft \in Seq(Vocab)
      /\ Len(seq) \in Nat /\ Len(draft) \in Nat /\ (Len(draft) = 0 <=> draft = <<>>)
  <2>1. config \in Configs /\ seq \in Seq(Vocab) /\ draft \in Seq(Vocab)
    BY DEF SeqInv
  <2>2. /\ config.maxSize \in Int /\ config.keep \in Nat /\ MaxPrompt \in Nat /\ MaxDraftTokens \in Nat
    BY <2>1, ConfigFacts
  <2> QED BY <2>1, <2>2
<1>2. PICK size \in Int, keep \in Nat : size = config.maxSize /\ keep = config.keep
  BY <1>1
<1>3. ASSUME NEW len \in 1 .. MaxPrompt, NEW p \in [1 .. len -> Vocab], NEW t \in Vocab, Prefill(p, t)
      PROVE  StepInv'
  <2>1. len \in Nat \ {0} /\ p \in Seq(Vocab) /\ Len(p) = len
    <3>1. len \in Nat \ {0}
      BY <1>1
    <3>2. p \in Seq(Vocab)
      BY <3>1, SeqDef
    <3> QED BY <3>1, <3>2
  <2>2. /\ phase = "empty" /\ phase' = "ready" /\ prompt' = len /\ seq' = Append(p, t)
        /\ kv' = Reserve(kv, len) /\ ring' = Updates(ring, len, size, keep)
        /\ config' = config /\ draft' = draft /\ stats' = stats
    BY <1>2, <1>3, <2>1 DEF Prefill
  <2>3. Len(seq') = len + 1
    BY <2>1, <2>2, AppendFacts
  <2>4. draft = <<>> /\ Len(draft) = 0 /\ kv.offset = 0 /\ ring.offset = 0 /\ stats = NoStats
    BY <1>1, <2>2 DEF SeqInv, StepInv
  <2>5. RingHolds(ring', size, keep) /\ ring'.offset = len
    <3>1. RingHolds(ring, size, keep)
      BY <1>2 DEF StepInv
    <3>2. PICK r, u : r = ring /\ u = Updates(r, len, size, keep)
      OBVIOUS
    <3>3. RingHolds(u, size, keep) /\ u.offset = r.offset + len
      BY <2>1, <3>1, <3>2, UpdatesHold
    <3> QED BY <2>1, <2>2, <2>4, <3>2, <3>3
  <2>6. PICK up \in Nat : up = roundUp(len, step) /\ up >= len /\ up % step = 0
    BY <2>1, StepFacts, RoundUp
  <2>7. kv' = [offset |-> len, capacity |-> up]
    BY <2>1, <2>2, <2>4, <2>6 DEF Reserve
  <2>8. /\ stats.steps = 0 /\ stats.accepted = 0 /\ stats.proposed = 0
        /\ stats.successes = 0 /\ stats.drafts = 0
    BY <2>4 DEF NoStats
  <2>9. phase' # "empty" /\ Drafting' = 0
    BY <2>2 DEF Drafting
  <2>10. RingHolds(ring, config.maxSize, config.keep)'
    BY <1>2, <2>2, <2>5 DEF RingHolds, StaticSlots
  <2> QED BY <2>1, <2>2, <2>3, <2>4, <2>5, <2>6, <2>7, <2>8, <2>9, <2>10 DEF StepInv, Counters
<1>4. ASSUME Draft
      PROVE  StepInv'
  <2>1. PICK w \in Seq(Vocab), l \in Nat : w = draft' /\ l = Len(w) /\ (l = 0 <=> w = <<>>)
    <3>1. draft' \in Seq(Vocab)
      BY <1>4, NextSeq DEF Next, SeqInv
    <3>2. Len(draft') \in Nat /\ (Len(draft') = 0 <=> draft' = <<>>)
      BY <3>1
    <3> QED BY <3>1, <3>2
  <2>2. /\ phase = "ready" /\ phase' = "drafted"
        /\ config' = config /\ prompt' = prompt /\ seq' = seq /\ ring' = ring
        /\ kv' = Reserve(kv, 1 + l)
        /\ stats' = [steps |-> stats.steps + 1,
                     drafts |-> IF w = <<>> THEN stats.drafts ELSE stats.drafts + 1,
                     proposed |-> stats.proposed + l,
                     successes |-> stats.successes, accepted |-> stats.accepted]
    BY <1>4, <2>1 DEF Draft
  <2>3. draft = <<>> /\ Len(draft) = 0 /\ Drafting = 0 /\ Drafting' = 1
    BY <1>1, <2>2 DEF SeqInv, Drafting
  <2>4. PICK offset \in Nat : offset = kv.offset /\ offset = Len(seq) - 1
    BY <1>1, <2>2, <2>3 DEF StepInv
  <2>5. PICK up \in Nat : up = roundUp(offset + (1 + l), step) /\ up >= offset + (1 + l) /\ up % step = 0
    <3>1. offset + (1 + l) \in Nat
      OBVIOUS
    <3> QED BY <3>1, StepFacts, RoundUp
  <2>6. kv' = [offset |-> offset + (1 + l), capacity |-> up]
    BY <2>2, <2>4, <2>5 DEF Reserve
  <2>7. RingHolds(ring, config.maxSize, config.keep)'
    BY <2>2 DEF StepInv, RingHolds, StaticSlots
  <2>8. /\ stats'.steps = stats.steps + 1 /\ stats'.accepted = stats.accepted
        /\ stats'.proposed = stats.proposed + l /\ stats'.successes = stats.successes
        /\ stats'.drafts = IF w = <<>> THEN stats.drafts ELSE stats.drafts + 1
    BY <2>2
  <2>9. /\ Counters
        /\ stats.accepted + 0 <= stats.proposed /\ stats.successes + 0 <= stats.drafts
        /\ ring.offset = Len(seq) - 1
        /\ Len(seq) = prompt + 1 + stats.accepted + stats.steps - 0
    BY <2>2, <2>3 DEF StepInv
  <2>10. /\ Counters'
         /\ stats'.accepted + Len(draft') <= stats'.proposed
         /\ stats'.successes + (IF draft' = <<>> THEN 0 ELSE 1) <= stats'.drafts
    <3>1. /\ prompt \in Nat /\ stats.steps \in Nat /\ stats.drafts \in Nat /\ stats.proposed \in Nat
          /\ stats.successes \in Nat /\ stats.accepted \in Nat
      BY <2>9 DEF Counters
    <3>2. Counters'
      BY <2>2, <2>8, <3>1, SMTT(30) DEF Counters
    <3>3. stats.accepted + l <= stats.proposed + l /\ stats.successes <= stats.drafts
      BY <2>9, <3>1
    <3>4. stats'.accepted + Len(draft') <= stats'.proposed
      BY <2>1, <2>8, <3>3
    <3>5. stats'.successes + (IF draft' = <<>> THEN 0 ELSE 1) <= stats'.drafts
      BY <2>1, <2>8, <3>1, <3>3
    <3> QED BY <3>2, <3>4, <3>5
  <2>11. /\ kv' = [offset |-> kv'.offset, capacity |-> kv'.capacity]
         /\ kv'.offset \in Nat /\ kv'.capacity \in Nat /\ kv'.capacity >= kv'.offset /\ kv'.capacity % step = 0
         /\ kv'.offset = offset + (1 + l)
    BY <2>5, <2>6
  <2>12. /\ phase' # "empty" /\ kv'.offset = Len(seq') - 1 + Drafting' + Len(draft')
         /\ ring'.offset = Len(seq') - 1
         /\ Len(seq') = prompt' + 1 + stats'.accepted + stats'.steps - Drafting'
    <3>1. phase' # "empty" /\ kv'.offset = Len(seq') - 1 + Drafting' + Len(draft') /\ ring'.offset = Len(seq') - 1
      <4>1. phase' # "empty" /\ ring'.offset = Len(seq') - 1
        BY <2>2, <2>9
      <4>2. offset + (1 + l) = Len(seq) - 1 + 1 + l
        BY <1>1, <2>4
      <4>3. kv'.offset = Len(seq') - 1 + Drafting' + Len(draft')
        BY <2>1, <2>2, <2>3, <2>11, <4>2
      <4> QED BY <4>1, <4>3
    <3>2. PICK a \in Nat, b \in Nat, c \in Nat : a = stats.accepted /\ b = stats.steps /\ c = prompt
      BY <2>9 DEF Counters
    <3>3. Len(seq) = c + 1 + a + (b + 1) - 1
      BY <2>9, <3>2
    <3>4. stats'.accepted = a /\ stats'.steps = b + 1 /\ prompt' = c
      BY <2>2, <2>8, <3>2
    <3> QED BY <2>2, <2>3, <3>1, <3>3, <3>4
  <2> QED BY <2>7, <2>10, <2>11, <2>12 DEF StepInv
<1>5. ASSUME NEW n \in 0 .. MaxDraftTokens, NEW t \in Vocab, Verify(n, t)
      PROVE  StepInv'
  <2>1. PICK l \in Nat, m \in Nat : l = Len(draft) /\ m = Len(seq)
    BY <1>1
  <2>2. n \in Nat /\ n <= l
    BY <1>1, <1>5, <2>1 DEF Verify
  <2>3. /\ phase = "drafted" /\ phase' = "ready"
        /\ config' = config /\ prompt' = prompt /\ draft' = <<>>
        /\ seq' = seq \o SubSeq(draft, 1, n) \o <<t>>
        /\ kv' = Trim(kv, l - n) /\ ring' = Updates(ring, 1 + n, size, keep)
        /\ stats' = RecordAccepted(stats, n)
    BY <1>2, <1>5, <2>1 DEF Verify
  <2>4. Len(seq') = m + n + 1
    <3>1. PICK a \in Seq(Vocab) : a = SubSeq(draft, 1, n) /\ Len(a) = n
      <4>1. n \in Int /\ 1 \in Int /\ \A j \in 1 .. n : draft[j] \in Vocab
        BY <1>1, <2>1, <2>2
      <4>2. SubSeq(draft, 1, n) \in Seq(Vocab) /\ Len(SubSeq(draft, 1, n)) = IF 1 <= n THEN n - 1 + 1 ELSE 0
        BY <4>1, SubSeqProperties
      <4>3. Len(SubSeq(draft, 1, n)) = n
        BY <2>2, <4>2
      <4> QED BY <4>2, <4>3
    <3>2. PICK b \in Seq(Vocab) : b = seq \o a /\ Len(b) = m + n
      <4>1. seq \o a \in Seq(Vocab) /\ Len(seq \o a) = Len(seq) + Len(a)
        BY <1>1, ConcatProperties
      <4> QED BY <2>1, <3>1, <4>1
    <3>3. Append(b, t) = b \o <<t>> /\ Len(Append(b, t)) = Len(b) + 1
      BY AppendFacts
    <3> QED BY <2>3, <3>1, <3>2, <3>3
  <2>5. /\ Counters
        /\ stats.accepted + l <= stats.proposed
        /\ stats.successes + (IF draft = <<>> THEN 0 ELSE 1) <= stats.drafts
        /\ kv = [offset |-> kv.offset, capacity |-> kv.capacity]
        /\ kv.offset \in Nat /\ kv.capacity \in Nat /\ kv.capacity >= kv.offset /\ kv.capacity % step = 0
        /\ kv.offset = m - 1 + 1 + l /\ ring.offset = m - 1
        /\ m = prompt + 1 + stats.accepted + stats.steps - 1
    BY <2>1, <2>3 DEF StepInv, Drafting
  <2>6. RingHolds(ring', size, keep) /\ ring'.offset = m + n
    <3>1. RingHolds(ring, size, keep)
      BY <1>2 DEF StepInv
    <3>2. PICK r, u : r = ring /\ u = Updates(r, 1 + n, size, keep)
      OBVIOUS
    <3>3. 1 + n \in Nat
      BY <2>2
    <3>4. RingHolds(u, size, keep) /\ u.offset = r.offset + (1 + n)
      BY <3>1, <3>2, <3>3, UpdatesHold
    <3> QED BY <2>2, <2>3, <2>5, <3>2, <3>4
  <2>7. RingHolds(ring, config.maxSize, config.keep)'
    <3>1. RingHolds(ring', config.maxSize, config.keep)
      BY <1>2, <2>6
    <3>2. RingHolds(ring', config'.maxSize, config'.keep)
      BY <2>3, <3>1, ZenonT(40)
    <3> QED BY <3>2, SMTT(30) DEF RingHolds, StaticSlots
  <2>8. kv' = [offset |-> m + n, capacity |-> kv.capacity]
    <3>1. PICK a \in Nat, c \in Nat : kv = [offset |-> a, capacity |-> c] /\ a = m + l
      BY <2>5
    <3>2. a - (IF l - n > a THEN a ELSE IF l - n < 0 THEN 0 ELSE l - n) = m + n
      <4>1. ~ l - n > a /\ ~ l - n < 0 /\ a - (l - n) = m + n
        BY <2>1, <2>2, <3>1
      <4> QED BY <4>1
    <3>3. Trim(kv, l - n) = [offset |-> m + n, capacity |-> c]
      BY <3>1, <3>2 DEF Trim
    <3> QED BY <2>3, <3>1, <3>3
  <2>9. /\ stats'.steps = stats.steps /\ stats'.accepted = stats.accepted + n
        /\ stats'.proposed = stats.proposed /\ stats'.drafts = stats.drafts
        /\ stats'.successes = IF n = 0 THEN stats.successes ELSE stats.successes + 1
    <3>1. stats.accepted \in Nat /\ stats.successes \in Nat
      BY <2>5 DEF Counters
    <3>2. CASE n = 0
      <4>1. stats' = stats /\ stats.accepted + n = stats.accepted
        BY <2>3, <3>1, <3>2 DEF RecordAccepted
      <4> QED BY <3>2, <4>1
    <3>3. CASE n # 0
      <4>1. stats' = [steps |-> stats.steps, drafts |-> stats.drafts, proposed |-> stats.proposed,
                      successes |-> stats.successes + 1, accepted |-> stats.accepted + n]
        BY <2>3, <3>3 DEF RecordAccepted
      <4> QED BY <3>3, <4>1
    <3> QED BY <3>2, <3>3
  <2>10. Len(draft') = 0 /\ draft' = <<>> /\ Drafting' = 0 /\ phase' # "empty"
    BY <2>3 DEF Drafting
  <2>11. n # 0 => draft # <<>>
    BY <1>1, <2>1, <2>2
  <2>12. /\ Counters'
         /\ stats'.accepted + Len(draft') <= stats'.proposed
         /\ stats'.successes + (IF draft' = <<>> THEN 0 ELSE 1) <= stats'.drafts
    <3>1. /\ prompt \in Nat /\ stats.steps \in Nat /\ stats.drafts \in Nat /\ stats.proposed \in Nat
          /\ stats.successes \in Nat /\ stats.accepted \in Nat
          /\ stats.accepted + l <= stats.proposed
      BY <2>5 DEF Counters
    <3>2. Counters'
      <4>1. stats.accepted + n \in Nat /\ stats.successes + 1 \in Nat
        BY <2>2, <3>1
      <4>2. stats'.successes \in Nat
        BY <2>9, <3>1, <4>1
      <4> QED BY <2>3, <2>9, <3>1, <4>1, <4>2 DEF Counters
    <3>3. stats.accepted + n <= stats.proposed
      BY <2>1, <2>2, <3>1
    <3>4. stats'.accepted + Len(draft') <= stats'.proposed
      BY <2>1, <2>2, <2>9, <2>10, <3>1, <3>3
    <3>5. stats'.successes + (IF draft' = <<>> THEN 0 ELSE 1) <= stats'.drafts
      <4>1. CASE n = 0
        <5>1. PICK b \in {0, 1} : stats.successes + b <= stats.drafts
          BY <2>5
        <5>2. stats.successes <= stats.drafts
          BY <3>1, <5>1
        <5> QED BY <2>9, <2>10, <3>1, <4>1, <5>2
      <4>2. CASE n # 0
        <5>1. stats.successes + 1 <= stats.drafts
          BY <2>5, <2>11, <4>2
        <5> QED BY <2>9, <2>10, <3>1, <4>2, <5>1
      <4> QED BY <4>1, <4>2
    <3> QED BY <3>2, <3>4, <3>5
  <2>13. /\ kv' = [offset |-> kv'.offset, capacity |-> kv'.capacity]
         /\ kv'.offset \in Nat /\ kv'.capacity \in Nat /\ kv'.capacity >= kv'.offset /\ kv'.capacity % step = 0
         /\ kv'.offset = m + n
    BY <2>1, <2>2, <2>5, <2>8
  <2>14. /\ kv'.offset = Len(seq') - 1 + Drafting' + Len(draft')
         /\ ring'.offset = Len(seq') - 1
         /\ Len(seq') = prompt' + 1 + stats'.accepted + stats'.steps - Drafting'
    <3>1. kv'.offset = Len(seq') - 1 + Drafting' + Len(draft') /\ ring'.offset = Len(seq') - 1
      BY <2>1, <2>2, <2>4, <2>6, <2>10, <2>13
    <3>2. PICK a \in Nat, b \in Nat, c \in Nat : a = stats.accepted /\ b = stats.steps /\ c = prompt
      BY <2>5 DEF Counters
    <3>3. m + n + 1 = c + 1 + (a + n) + b - 0
      <4>1. m = c + 1 + a + b - 1
        BY <2>5, <3>2
      <4> QED BY <2>2, <4>1
    <3>4. stats'.accepted = a + n /\ stats'.steps = b /\ prompt' = c
      BY <2>3, <2>9, <3>2
    <3> QED BY <2>4, <2>10, <3>1, <3>3, <3>4
  <2> QED BY <2>7, <2>10, <2>12, <2>13, <2>14 DEF StepInv
<1>6. ASSUME Reset
      PROVE  StepInv'
  <2>1. /\ phase' = "empty" /\ prompt' = 0 /\ draft' = <<>> /\ config' = config /\ stats' = NoStats
        /\ kv' = [kv EXCEPT !.offset = 0] /\ ring' = [ring EXCEPT !.offset = 0, !.size = 0]
    BY <1>6 DEF Reset
  <2>2. PICK c \in Nat : kv = [offset |-> kv.offset, capacity |-> c] /\ c % step = 0
    BY DEF StepInv
  <2>3. kv' = [offset |-> 0, capacity |-> c]
    BY <2>1, <2>2
  <2>4. ring'.offset = 0 /\ ring'.size = 0
    BY <2>1
  <2>5. RingHolds(ring', size, keep)
    <3>1. PICK r : r = ring'
      OBVIOUS
    <3>2. RingHolds(r, size, keep)
      BY <2>4, <3>1, EmptyCaches
    <3> QED BY <3>1, <3>2
  <2>6. RingHolds(ring, config.maxSize, config.keep)'
    BY <1>2, <2>1, <2>5 DEF RingHolds, StaticSlots
  <2>7. Len(draft') = 0
    BY <2>1
  <2> QED BY <2>1, <2>2, <2>3, <2>4, <2>6, <2>7 DEF StepInv, Counters, NoStats
<1>7. ASSUME UNCHANGED vars
      PROVE  StepInv'
  BY <1>7 DEF vars, StepInv, Counters, Drafting, RingHolds, StaticSlots, NoStats
<1> QED BY <1>3, <1>4, <1>5, <1>6, <1>7 DEF Next

\* What StepsAccounted says of the rotating cache.
RingIs(r, fed, size, keep) ==
    /\ r.offset = fed
    /\ size <= 0 \/ fed <= size => HeldOf(r) = 0 .. fed - 1
    /\ keep < size /\ size < fed => HeldOf(r) = (0 .. keep - 1) \cup ((fed - (size - keep)) .. fed - 1)

\* The counters and the caches are as StepsAccounted has them.
LEMMA StepsFromInv == SeqInv /\ StepInv => StepsAccounted
<1> SUFFICES ASSUME SeqInv, StepInv, phase # "empty" PROVE StepsAccounted
  BY DEF StepsAccounted
<1>1. config.maxSize \in Int /\ config.keep \in Nat /\ Len(seq) \in Nat /\ Len(draft) \in Nat
  <2>1. config \in Configs /\ seq \in Seq(Vocab) /\ draft \in Seq(Vocab)
    BY DEF SeqInv
  <2> QED BY <2>1, ConfigFacts
<1>2. RingIs(ring, Len(seq) - 1, config.maxSize, config.keep)
  <2>1. PICK size \in Int, keep \in Nat : size = config.maxSize /\ keep = config.keep
    BY <1>1
  <2>2. PICK r : r = ring
    OBVIOUS
  <2>3. RingHolds(r, size, keep) /\ r.offset = Len(seq) - 1
    BY <2>1, <2>2 DEF StepInv
  <2>4. HeldOf(r) = IF size <= 0 \/ r.offset <= size THEN 0 .. r.offset - 1
                    ELSE (0 .. StaticSlots(size, keep) - 1)
                         \cup (r.offset - (size - StaticSlots(size, keep)) .. r.offset - 1)
    BY <2>3, HeldIs
  <2>5. RingIs(r, Len(seq) - 1, size, keep)
    <3>1. PICK fed \in Int : fed = Len(seq) - 1
      BY <1>1
    <3>2. CASE size <= 0 \/ fed <= size
      <4>1. HeldOf(r) = 0 .. fed - 1 /\ ~(size < fed /\ keep < size)
        BY <2>3, <2>4, <3>1, <3>2
      <4> QED BY <2>3, <3>1, <4>1 DEF RingIs
    <3>3. CASE keep < size /\ size < fed
      <4>1. StaticSlots(size, keep) = keep /\ ~(size <= 0 \/ fed <= size)
        BY <3>3 DEF StaticSlots
      <4> QED BY <2>3, <2>4, <3>1, <3>3, <4>1 DEF RingIs
    <3>4. CASE ~(size <= 0 \/ fed <= size) /\ ~(keep < size /\ size < fed)
      BY <2>3, <3>1, <3>4 DEF RingIs
    <3> QED BY <3>2, <3>3, <3>4
  <2> QED BY <2>1, <2>2, <2>5
<1>3. Drafting \in {0, 1} /\ (phase = "drafted" => Drafting = 1)
  BY DEF Drafting
<1>4. /\ kv.offset = IF phase = "drafted" THEN Len(seq) - 1 + 1 + Len(draft) ELSE Len(seq) - 1
      /\ kv.capacity >= kv.offset /\ kv.capacity % step = 0
  <2>1. kv.offset = Len(seq) - 1 + Drafting + Len(draft)
    BY DEF StepInv
  <2>2. phase # "drafted" => draft = <<>>
    BY DEF SeqInv
  <2>3. phase # "drafted" => Len(draft) = 0
    BY <2>2
  <2>4. kv.capacity >= kv.offset /\ kv.capacity % step = 0
    BY DEF StepInv
  <2> QED BY <1>1, <2>1, <2>3, <2>4 DEF Drafting
<1>5. /\ Len(seq) = prompt + 1 + stats.accepted + stats.steps - (IF phase = "drafted" THEN 1 ELSE 0)
      /\ stats.accepted <= stats.proposed /\ stats.successes <= stats.drafts
  <2>1. /\ Len(seq) = prompt + 1 + stats.accepted + stats.steps - Drafting
        /\ stats.accepted + Len(draft) <= stats.proposed
    BY DEF StepInv
  <2>2. PICK b \in {0, 1} : stats.successes + b <= stats.drafts
    BY DEF StepInv
  <2>3. /\ stats.drafts \in Nat /\ stats.proposed \in Nat
        /\ stats.successes \in Nat /\ stats.accepted \in Nat
    BY DEF StepInv, Counters
  <2> QED BY <1>1, <2>1, <2>2, <2>3 DEF Drafting
<1> QED BY <1>2, <1>4, <1>5, Zenon DEF StepsAccounted, RingIs, HeldOf

-----------------------------------------------------------------------------
(* The theorems.                                                            *)

\* The inductive invariant holds in every reachable state.
THEOREM Invariant == Spec => []IInv
<1>1. Init => IInv
  BY InitSeq, InitSteps DEF IInv
<1>2. IInv /\ [Next]_vars => IInv'
  BY NextSeq, NextSteps DEF IInv
<1> QED BY <1>1, <1>2, PTL DEF Spec

\* The index of either proposer lists every n-gram it remembers at all its
\* occurrences and nothing else, whatever the history cap and however often the
\* history was trimmed (SuffixDecoder.Add and trim, PromptLookup.Add, Reset).
THEOREM IndexIsExact == Spec => []IndexExact
<1>1. IInv => IndexExact
  BY IndexFromSeq DEF IInv
<1> QED BY <1>1, Invariant, PTL

\* Every draft is what a direct search of the remembered history would propose
\* (SuffixDecoder.Draft and buildDraft, PromptLookup.Draft).
THEOREM DraftsAreDirect == Spec => []DraftDirect
<1>1. IInv => DraftDirect
  BY DraftFromSeq DEF IInv
<1> QED BY <1>1, Invariant, PTL

\* Whatever was drafted, confirmed and rejected, the growing cache ends a step
\* holding all positions but the newest, the rotating cache holds the pinned and
\* the newest ones if some slot is not pinned, and the counters add up (KVCache.Reserve and Trim,
\* RotatingKVCache.Update, RecordAccepted).
THEOREM StepsAreAccounted == Spec => []StepsAccounted
<1>1. IInv => StepsAccounted
  BY StepsFromInv DEF IInv
<1> QED BY <1>1, Invariant, PTL

-----------------------------------------------------------------------------
(* The caches of their own, without the loop that feeds them.               *)

\* What a ring holds after n positions.
LEMMA RingAfter ==
    ASSUME NEW maxSize \in Int, NEW keep \in Nat, NEW n \in Nat
    PROVE  /\ RingHolds(Updates(EmptyRing, n, maxSize, keep), maxSize, keep)
           /\ Updates(EmptyRing, n, maxSize, keep).offset = n
<1>1. PICK r : r = EmptyRing
  OBVIOUS
<1>2. r.offset = 0 /\ r.size = 0
  BY <1>1 DEF EmptyRing
<1>3. RingHolds(r, maxSize, keep)
  BY <1>2, EmptyCaches
<1>4. /\ RingHolds(Updates(r, n, maxSize, keep), maxSize, keep)
      /\ Updates(r, n, maxSize, keep).offset = r.offset + n
  BY <1>3, UpdatesHold
<1> QED BY <1>1, <1>2, <1>4

\* After n tokens a rotating cache holds all of them while they fit in the window (or
\* it has no limit), and then, if some slot is not pinned, the pinned ones and the newest,
\* maxSize positions in all (RotatingKVCache.Update).
THEOREM WindowHeld ==
    ASSUME NEW maxSize \in Int, NEW keep \in Nat, NEW n \in Nat, maxSize <= 0 \/ n <= maxSize \/ keep < maxSize
    PROVE  HeldOf(Updates(EmptyRing, n, maxSize, keep)) =
               IF maxSize <= 0 \/ n <= maxSize THEN 0 .. n - 1
               ELSE (0 .. keep - 1) \cup (n - (maxSize - keep) .. n - 1)
<1>1. PICK r : r = Updates(EmptyRing, n, maxSize, keep)
  OBVIOUS
<1>2. RingHolds(r, maxSize, keep) /\ r.offset = n
  BY <1>1, RingAfter
<1>3. HeldOf(r) = IF maxSize <= 0 \/ n <= maxSize THEN 0 .. n - 1
                  ELSE (0 .. StaticSlots(maxSize, keep) - 1)
                       \cup (n - (maxSize - StaticSlots(maxSize, keep)) .. n - 1)
  BY <1>2, HeldIs
<1>4. CASE maxSize <= 0 \/ n <= maxSize
  BY <1>1, <1>3, <1>4
<1>5. CASE ~(maxSize <= 0 \/ n <= maxSize) /\ keep < maxSize
  <2>1. StaticSlots(maxSize, keep) = keep
    BY <1>5 DEF StaticSlots
  <2> QED BY <1>1, <1>3, <1>5, <2>1
<1> QED BY <1>4, <1>5

\* Pinning every slot does not keep the pinned positions, whatever the comments on
\* RotatingKVCache say (compute/kvcache.go:59-62 and 94): from the first position that
\* does not fit on, the last slot is written over and the position pinned there is gone.
THEOREM LastPinnedLeaves ==
    ASSUME NEW maxSize \in Nat \ {0}, NEW keep \in Nat, keep >= maxSize, NEW n \in Nat, n > maxSize
    PROVE  HeldOf(Updates(EmptyRing, n, maxSize, keep)) = (0 .. maxSize - 2) \cup {n - 1}
<1>1. PICK r : r = Updates(EmptyRing, n, maxSize, keep)
  OBVIOUS
<1>2. RingHolds(r, maxSize, keep) /\ r.offset = n
  BY <1>1, RingAfter
<1>3. ~(maxSize <= 0 \/ n <= maxSize) /\ StaticSlots(maxSize, keep) = maxSize - 1
  BY DEF StaticSlots
<1>4. HeldOf(r) = (0 .. (maxSize - 1) - 1) \cup (n - (maxSize - (maxSize - 1)) .. n - 1)
  BY <1>2, <1>3, HeldIs
<1>5. (0 .. (maxSize - 1) - 1) \cup (n - (maxSize - (maxSize - 1)) .. n - 1) = (0 .. maxSize - 2) \cup {n - 1}
  OBVIOUS
<1> QED BY <1>1, <1>4, <1>5

\* Writing into a full window with a slot that is not pinned costs it one position, the
\* oldest that is not pinned, and no other (RotatingKVCache.Update).
THEOREM OldestLeaves ==
    ASSUME NEW maxSize \in Nat \ {0}, NEW keep \in Nat, keep < maxSize, NEW n \in Nat, n >= maxSize
    PROVE  LET full == Updates(EmptyRing, n, maxSize, keep)
               oldest == n - (maxSize - keep)
           IN  /\ oldest \in HeldOf(full)
               /\ keep <= oldest
               /\ HeldOf(Update(full, maxSize, keep)) = (HeldOf(full) \ {oldest}) \cup {n}
<1>1. PICK r : r = Updates(EmptyRing, n, maxSize, keep)
  OBVIOUS
<1>2. RingHolds(r, maxSize, keep) /\ r.offset = n
  BY <1>1, RingAfter
<1>3. PICK w : w = Update(r, maxSize, keep)
  OBVIOUS
<1>4. RingHolds(w, maxSize, keep) /\ w.offset = n + 1
  BY <1>2, <1>3, UpdateHolds
<1>5. PICK pinned \in Nat, span \in Nat \ {0} :
          pinned = StaticSlots(maxSize, keep) /\ pinned = keep /\ span = maxSize - pinned
  <2>1. StaticSlots(maxSize, keep) = keep /\ maxSize - keep \in Nat \ {0}
    BY DEF StaticSlots
  <2> QED BY <2>1
<1>6. HeldOf(r) = (0 .. pinned - 1) \cup (n - span .. n - 1)
  <2>1. CASE n = maxSize
    <3>1. HeldOf(r) = 0 .. n - 1
      BY <1>2, <2>1, HeldIs
    <3> QED BY <1>5, <2>1, <3>1
  <2>2. CASE n > maxSize
    <3>1. ~(maxSize <= 0 \/ n <= maxSize)
      BY <2>2
    <3>2. HeldOf(r) = (0 .. StaticSlots(maxSize, keep) - 1) \cup (n - (maxSize - StaticSlots(maxSize, keep)) .. n - 1)
      BY <1>2, <3>1, HeldIs
    <3> QED BY <1>5, <3>2
  <2> QED BY <2>1, <2>2
<1>7. HeldOf(w) = (0 .. pinned - 1) \cup (n + 1 - span .. n)
  <2>1. ~(maxSize <= 0 \/ n + 1 <= maxSize) /\ (n + 1) - 1 = n
    OBVIOUS
  <2>2. HeldOf(w) = IF maxSize <= 0 \/ w.offset <= maxSize THEN 0 .. w.offset - 1
                    ELSE (0 .. StaticSlots(maxSize, keep) - 1)
                         \cup (w.offset - (maxSize - StaticSlots(maxSize, keep)) .. w.offset - 1)
    BY <1>4, HeldIs
  <2>3. HeldOf(w) = (0 .. pinned - 1) \cup ((n + 1) - span .. (n + 1) - 1)
    BY <1>4, <1>5, <2>1, <2>2
  <2> QED BY <2>1, <2>3
<1>8. pinned <= n - span
  BY <1>5
<1>9. n - span \in n - span .. n - 1
  BY <1>5
<1>10. HeldOf(w) = (HeldOf(r) \ {n - span}) \cup {n}
  BY <1>5, <1>6, <1>7, <1>8
<1> QED BY <1>1, <1>3, <1>5, <1>6, <1>8, <1>9, <1>10

\* Nothing more is allocated than the granularity asks for: the capacity of the growing
\* cache is the least multiple of its step that holds its positions (KVCache.Reserve,
\* roundUp).
THEOREM CapacityIsLeast ==
    ASSUME NEW c, c.offset \in Nat, NEW n \in Nat
    PROVE  LET r == Reserve(c, n)
           IN  /\ r.offset = c.offset + n
               /\ r.capacity >= r.offset /\ r.capacity % step = 0
               /\ \A q \in Nat : step * q >= r.offset => step * q >= r.capacity
<1>1. PICK s \in Nat \ {0} : s = step
  BY StepFacts
<1>2. PICK m \in Nat : m = c.offset + n
  OBVIOUS
<1>3. roundUp(m, s) \in Nat /\ roundUp(m, s) >= m /\ roundUp(m, s) % s = 0
  BY RoundUp
<1>4. ASSUME NEW q \in Nat, s * q >= m
      PROVE  s * q >= roundUp(m, s)
  <2>1. PICK d \in Int, k \in 0 .. s - 1 : d = m \div s /\ k = m % s /\ m = s * d + k
    BY DivMod
  <2>2. CASE k = 0
    BY <1>4, <2>1, <2>2 DEF roundUp
  <2>3. CASE k # 0
    <3>1. PICK x \in Int : x = s * d
      BY <2>1
    <3>2. roundUp(m, s) = x + s
      <4>1. roundUp(m, s) = (d + 1) * s
        BY <2>1, <2>3 DEF roundUp
      <4> QED BY <2>1, <3>1, <4>1
    <3>3. s * q > s * d
      BY <1>4, <2>1, <2>3
    <3>4. q >= d + 1
      BY <2>1, <3>3
    <3>5. PICK e \in Nat : q = d + 1 + e
      <4>1. q - (d + 1) \in Nat /\ q = d + 1 + (q - (d + 1))
        BY <2>1, <3>4
      <4> QED BY <4>1
    <3>6. s * q = s * d + s + s * e
      BY <2>1, <3>5
    <3>7. s * e \in Nat
      OBVIOUS
    <3> QED BY <3>1, <3>2, <3>6, <3>7
  <2> QED BY <2>1, <2>2, <2>3
<1> QED BY <1>1, <1>2, <1>3, <1>4 DEF Reserve
=============================================================================
