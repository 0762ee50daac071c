------------------------- MODULE BlockTables_proofs --------------------------
(***************************************************************************)
(* Proofs about BlockTables, for every set of blocks and of tables and     *)
(* every block size.                                                       *)
(***************************************************************************)
EXTENDS BlockTables, FiniteSetTheorems, TLAPS

-----------------------------------------------------------------------------
(* Rounding: how many blocks n tokens need. *)

\* The quotient and the remainder of paged.go's integer divisions.
LEMMA Division ==
  ASSUME NEW a \in Nat, NEW d \in Nat \ {0}
  PROVE  /\ a \div d \in Nat
         /\ a % d \in 0 .. d - 1
         /\ a = d * (a \div d) + (a % d)
  OBVIOUS

\* Multiples of d lie at least d apart.
LEMMA Gap ==
  ASSUME NEW d \in Nat \ {0}, NEW p \in Nat, NEW q \in Nat, p < q
  PROVE  d * p + d <= d * q
<1>1. q = p + 1 + (q - p - 1)
  OBVIOUS
<1>2. d * q = d * p + d + d * (q - p - 1)
  BY <1>1
<1>3. d * (q - p - 1) >= 0
  OBVIOUS
<1> QED BY <1>2, <1>3

\* BlocksFor(n) blocks hold n tokens, with less than a block to spare.
LEMMA BlocksForBounds ==
  ASSUME NEW n \in Nat
  PROVE  /\ BlocksFor(n) \in Nat
         /\ n <= BlockSize * BlocksFor(n)
         /\ BlockSize * BlocksFor(n) < n + BlockSize
<1>1. n + BlockSize - 1 \in Nat /\ BlockSize \in Nat \ {0}
  BY BlocksAssumption DEF BlocksAssumption
<1> DEFINE a == n + BlockSize - 1
<1>2. /\ a \div BlockSize \in Nat
      /\ a % BlockSize \in 0 .. BlockSize - 1
      /\ a = BlockSize * (a \div BlockSize) + (a % BlockSize)
  BY <1>1, Division
<1>3. BlocksFor(n) = a \div BlockSize
  BY DEF BlocksFor
<1> HIDE DEF a
<1>4. a = n + BlockSize - 1
  BY DEF a
<1>5. BlockSize * BlocksFor(n) \in Nat
  BY <1>1, <1>2, <1>3
<1> QED BY <1>1, <1>2, <1>3, <1>4, <1>5

\* No other number of blocks does.
LEMMA BlocksForUnique ==
  ASSUME NEW n \in Nat, NEW q \in Nat,
         n <= BlockSize * q, BlockSize * q < n + BlockSize
  PROVE  BlocksFor(n) = q
<1>1. BlockSize \in Nat \ {0}
  BY BlocksAssumption DEF BlocksAssumption
<1> DEFINE p == BlocksFor(n)
<1>2. p \in Nat /\ n <= BlockSize * p /\ BlockSize * p < n + BlockSize
  BY BlocksForBounds
<1> HIDE DEF p
<1>3. BlockSize * p \in Nat /\ BlockSize * q \in Nat
  BY <1>1, <1>2
<1>4. ~(p < q)
  BY <1>1, <1>2, <1>3, Gap
<1>5. ~(q < p)
  BY <1>1, <1>2, <1>3, Gap
<1> QED BY <1>2, <1>4, <1>5 DEF p

\* More tokens need as many blocks or more, and strictly more when the last
\* block is full.
LEMMA BlocksForGrows ==
  ASSUME NEW m \in Nat, NEW n \in Nat
  PROVE  /\ BlocksFor(m) <= BlocksFor(m + n)
         /\ n > 0 /\ m % BlockSize = 0 => BlocksFor(m) < BlocksFor(m + n)
<1>1. BlockSize \in Nat \ {0}
  BY BlocksAssumption DEF BlocksAssumption
<1> DEFINE p == BlocksFor(m)
           q == BlocksFor(m + n)
<1>2. p \in Nat /\ m <= BlockSize * p /\ BlockSize * p < m + BlockSize
  BY BlocksForBounds
<1>3. q \in Nat /\ m + n <= BlockSize * q
  BY BlocksForBounds
<1> HIDE DEF p, q
<1>4. BlockSize * p \in Nat /\ BlockSize * q \in Nat
  BY <1>1, <1>2, <1>3
<1>5. ~(q < p)
  BY <1>1, <1>2, <1>3, <1>4, Gap
<1>6. ASSUME n > 0, m % BlockSize = 0
      PROVE  p # q
  <2>1. m \div BlockSize \in Nat /\ m = BlockSize * (m \div BlockSize)
    BY <1>1, <1>6, Division
  <2>2. BlocksFor(m) = m \div BlockSize
    BY <1>1, <2>1, BlocksForUnique
  <2>3. BlockSize * p = m
    BY <2>1, <2>2 DEF p
  <2> QED BY <1>3, <1>4, <1>6, <2>3
<1> QED BY <1>2, <1>3, <1>5, <1>6 DEF p, q

\* k whole blocks of tokens need k blocks and leave none of them open.
LEMMA WholeBlocks ==
  ASSUME NEW k \in Nat
  PROVE  /\ k * BlockSize \in Nat
         /\ BlocksFor(k * BlockSize) = k
         /\ (k * BlockSize) % BlockSize = 0
<1>1. BlockSize \in Nat \ {0}
  BY BlocksAssumption DEF BlocksAssumption
<1>2. k * BlockSize \in Nat /\ k * BlockSize = BlockSize * k
  BY <1>1
<1>3. BlocksFor(k * BlockSize) = k
  BY <1>1, <1>2, BlocksForUnique
<1> DEFINE a == k * BlockSize
           p == a \div BlockSize
           r == a % BlockSize
<1>4. p \in Nat /\ r \in 0 .. BlockSize - 1 /\ a = BlockSize * p + r
  BY <1>1, <1>2, Division
<1>5. a = BlockSize * k
  BY <1>2
<1> HIDE DEF a, p, r
<1>6. BlockSize * p \in Nat /\ BlockSize * k \in Nat
  BY <1>1, <1>4
<1>7. ~(p < k)
  BY <1>1, <1>4, <1>5, <1>6, Gap
<1>8. ~(k < p)
  BY <1>1, <1>4, <1>5, <1>6, Gap
<1>9. r = 0
  BY <1>1, <1>4, <1>5, <1>6, <1>7, <1>8
<1> QED BY <1>2, <1>3, <1>9 DEF a, r

\* The full blocks are blocks of the table, and an open block follows them.
LEMMA FullBlocks ==
  ASSUME NEW n \in Nat
  PROVE  /\ n \div BlockSize \in Nat
         /\ n \div BlockSize <= BlocksFor(n)
         /\ n % BlockSize # 0 => n \div BlockSize < BlocksFor(n)
<1>1. BlockSize \in Nat \ {0}
  BY BlocksAssumption DEF BlocksAssumption
<1> DEFINE p == n \div BlockSize
           r == n % BlockSize
           q == BlocksFor(n)
<1>2. p \in Nat /\ r \in 0 .. BlockSize - 1 /\ n = BlockSize * p + r
  BY <1>1, Division
<1>3. q \in Nat /\ n <= BlockSize * q
  BY BlocksForBounds
<1> HIDE DEF p, q, r
<1>4. BlockSize * p \in Nat /\ BlockSize * q \in Nat
  BY <1>1, <1>2, <1>3
<1>5. ~(q < p)
  BY <1>1, <1>2, <1>3, <1>4, Gap
<1>6. r # 0 => p # q
  BY <1>1, <1>2, <1>3, <1>4
<1> QED BY <1>2, <1>3, <1>5, <1>6 DEF p, q, r

-----------------------------------------------------------------------------
(* Lists of blocks. *)

\* The concatenation of two lists of blocks lists what both do, and lists nothing
\* twice when neither does and they have no block in common.
LEMMA ConcatLists ==
  ASSUME NEW f \in Seq(Blocks), NEW g \in Seq(Blocks)
  PROVE  /\ f \o g \in Seq(Blocks)
         /\ Len(f \o g) = Len(f) + Len(g)
         /\ Range(f \o g) = Range(f) \cup Range(g)
         /\ Len(g) > 0 => (f \o g)[Len(f \o g)] \in Range(g)
         /\ IsInjective(f) /\ IsInjective(g) /\ Range(f) \cap Range(g) = {}
              => IsInjective(f \o g)
<1> DEFINE h == f \o g
           m == Len(f)
           n == Len(g)
<1>1. m \in Nat /\ n \in Nat /\ DOMAIN f = 1 .. m /\ DOMAIN g = 1 .. n
  OBVIOUS
<1>2. h \in Seq(Blocks) /\ Len(h) = m + n /\ DOMAIN h = 1 .. m + n
  OBVIOUS
<1>3. \A i \in 1 .. m : i \in 1 .. m + n /\ h[i] = f[i]
  OBVIOUS
<1>4. \A i \in m + 1 .. m + n : i - m \in 1 .. n /\ h[i] = g[i - m]
  OBVIOUS
<1>5. \A j \in 1 .. n : m + j \in 1 .. m + n /\ h[m + j] = g[j]
  OBVIOUS
<1> HIDE DEF h, m, n
<1>6. Range(h) \subseteq Range(f) \cup Range(g)
  <2> SUFFICES ASSUME NEW i \in 1 .. m + n
               PROVE  h[i] \in Range(f) \cup Range(g)
    BY <1>2 DEF Range
  <2>1. CASE i <= m
    BY <1>1, <1>3, <2>1 DEF Range
  <2>2. CASE i > m
    BY <1>1, <1>4, <2>2 DEF Range
  <2> QED BY <1>1, <2>1, <2>2
<1>7. Range(f) \subseteq Range(h)
  BY <1>1, <1>2, <1>3 DEF Range
<1>8. Range(g) \subseteq Range(h)
  BY <1>1, <1>2, <1>5 DEF Range
<1>9. ASSUME IsInjective(f), IsInjective(g), Range(f) \cap Range(g) = {}
      PROVE  IsInjective(h)
  <2> SUFFICES ASSUME NEW i \in 1 .. m + n, NEW j \in 1 .. m + n, h[i] = h[j], i <= j
               PROVE  i = j
    BY <1>1, <1>2 DEF IsInjective
  <2>1. CASE j <= m
    BY <1>1, <1>3, <1>9, <2>1 DEF IsInjective
  <2>2. CASE i > m
    <3>1. i - m \in 1 .. n /\ j - m \in 1 .. n /\ g[i - m] = g[j - m]
      BY <1>1, <1>4, <2>2
    <3>2. i - m = j - m
      BY <1>1, <1>9, <3>1 DEF IsInjective
    <3> QED BY <1>1, <3>2
  <2>3. CASE i <= m /\ j > m
    <3>1. i \in 1 .. m /\ j - m \in 1 .. n /\ f[i] = g[j - m]
      BY <1>1, <1>3, <1>4, <2>3
    <3>2. f[i] \in Range(f) /\ g[j - m] \in Range(g)
      BY <1>1, <3>1 DEF Range
    <3> QED BY <1>9, <3>1, <3>2
  <2> QED BY <1>1, <2>1, <2>2, <2>3
<1>10. n > 0 => h[Len(h)] \in Range(g)
  <2> HAVE n > 0
  <2>1. n \in 1 .. n /\ h[m + n] = g[n]
    BY <1>1, <1>5
  <2> QED BY <1>1, <1>2, <2>1 DEF Range
<1> QED BY <1>2, <1>6, <1>7, <1>8, <1>9, <1>10 DEF h, m, n

\* AllocateN splits the free list into the blocks it pops and the rest.
LEMMA PoppedBlocks ==
  ASSUME free \in Seq(Blocks), IsInjective(free), NEW k \in 0 .. Len(free)
  PROVE  LET rest == SubSeq(free, 1, Len(free) - k)
         IN  /\ Popped(k) \in Seq(Blocks) /\ Len(Popped(k)) = k
             /\ rest \in Seq(Blocks)
             /\ IsInjective(Popped(k)) /\ IsInjective(rest)
             /\ Range(rest) = Range(free) \ Range(Popped(k))
             /\ Range(Popped(k)) \subseteq Range(free)
<1> DEFINE n == Len(free)
           rest == SubSeq(free, 1, n - k)
           top == Popped(k)
<1>1. n \in Nat /\ k \in 0 .. n /\ DOMAIN free = 1 .. n
  OBVIOUS
<1>2. \A i \in 1 .. k : n + 1 - i \in 1 .. n
  OBVIOUS
<1>3. top \in Seq(Blocks) /\ Len(top) = k
  BY <1>2 DEF Popped
<1>4. DOMAIN top = 1 .. k /\ \A i \in 1 .. k : top[i] = free[n + 1 - i]
  BY DEF Popped
<1>5. rest \in Seq(Blocks) /\ DOMAIN rest = 1 .. n - k
  OBVIOUS
<1>6. \A i \in 1 .. n - k : i \in 1 .. n /\ rest[i] = free[i]
  OBVIOUS
<1> HIDE DEF n, rest, top
<1>7. IsInjective(top)
  <2> SUFFICES ASSUME NEW i \in 1 .. k, NEW j \in 1 .. k, top[i] = top[j]
               PROVE  i = j
    BY <1>4 DEF IsInjective
  <2>1. n + 1 - i = n + 1 - j
    BY <1>1, <1>2, <1>4 DEF IsInjective
  <2> QED BY <1>1, <2>1
<1>8. IsInjective(rest)
  BY <1>1, <1>5, <1>6 DEF IsInjective
<1>9. Range(top) \subseteq Range(free) /\ Range(rest) \subseteq Range(free)
  BY <1>1, <1>2, <1>4, <1>5, <1>6 DEF Range
<1>10. ASSUME NEW i \in 1 .. n
       PROVE  free[i] \in Range(rest) \cup Range(top)
  <2>1. CASE i <= n - k
    BY <1>1, <1>5, <1>6, <2>1 DEF Range
  <2>2. CASE i > n - k
    <3>1. n + 1 - i \in 1 .. k /\ n + 1 - (n + 1 - i) = i
      BY <1>1, <2>2
    <3>2. top[n + 1 - i] = free[i]
      BY <1>4, <3>1
    <3> QED BY <1>4, <3>1, <3>2 DEF Range
  <2> QED BY <1>1, <2>1, <2>2
<1>11. ASSUME NEW i \in 1 .. n - k, NEW j \in 1 .. k
       PROVE  rest[i] # top[j]
  <2>1. i # n + 1 - j
    BY <1>1
  <2> QED BY <1>1, <1>2, <1>4, <1>6, <2>1 DEF IsInjective
<1>12. Range(rest) \cap Range(top) = {}
  BY <1>4, <1>5, <1>11 DEF Range
<1>13. Range(free) \subseteq Range(rest) \cup Range(top)
  BY <1>1, <1>10 DEF Range
<1> QED BY <1>3, <1>5, <1>7, <1>8, <1>9, <1>12, <1>13 DEF n, rest, top

\* The first k blocks of a table.
LEMMA PrefixBlocks ==
  ASSUME NEW s \in Tables, blocks[s] \in Seq(Blocks), IsInjective(blocks[s]),
         NEW k \in 0 .. Len(blocks[s])
  PROVE  /\ Prefix(s, k) \in Seq(Blocks)
         /\ Len(Prefix(s, k)) = k
         /\ IsInjective(Prefix(s, k))
         /\ Range(Prefix(s, k)) \subseteq Held(s)
         /\ k < Len(blocks[s]) => blocks[s][Len(blocks[s])] \notin Range(Prefix(s, k))
<1>1. /\ Prefix(s, k) \in Seq(Blocks)
      /\ DOMAIN Prefix(s, k) = 1 .. k
      /\ Len(Prefix(s, k)) = k
      /\ \A i \in 1 .. k : Prefix(s, k)[i] = blocks[s][i]
  BY DEF Prefix
<1> QED BY <1>1 DEF Range, IsInjective, Held

-----------------------------------------------------------------------------
(* The inductive invariant. *)

\* No table lists a block twice.
Distinct == \A t \in Tables : IsInjective(blocks[t])

IInv == /\ TypeOK
        /\ Distinct
        /\ RefCountExact
        /\ FreeListExact
        /\ CoversTokens
        /\ OpenTailPrivate

\* Sets of tables are finite, so holders can be counted.
LEMMA HoldersFinite == \A b \in Blocks : IsFiniteSet(Holders(b))
<1>1. \A b \in Blocks : Holders(b) \in SUBSET Tables
  BY DEF Holders
<1> QED BY <1>1, BlocksAssumption, FS_Subset DEF BlocksAssumption

\* NewBlockPool and NewBlockTable start with every block free and unreferenced.
LEMMA InitInv == Init => IInv
<1> SUFFICES ASSUME Init
             PROVE  IInv
  OBVIOUS
<1> USE DEF Init
<1>1. BlockSize \in Nat \ {0}
  BY BlocksAssumption DEF BlocksAssumption
<1>2. free \in Seq(Blocks) /\ IsInjective(free) /\ Range(free) = Blocks
  <2>1. Cardinality(Blocks) \in Nat
    BY BlocksAssumption, FS_CardinalityType DEF BlocksAssumption
  <2>2. free \in [1 .. Cardinality(Blocks) -> Blocks] /\ IsInjective(free)
    BY DEF Listings, Bijection, Injection
  <2>3. Blocks \subseteq Range(free)
    BY <2>2 DEF Listings, Bijection, Surjection, Range
  <2>4. Range(free) \subseteq Blocks
    BY <2>2 DEF Range
  <2> QED BY <2>1, <2>2, <2>3, <2>4
<1>3. TypeOK
  BY <1>2 DEF TypeOK
<1>4. \A t \in Tables : Held(t) = {}
  BY DEF Held, Range
<1>5. Distinct
  BY DEF Distinct, IsInjective
<1>6. RefCountExact
  <2>1. \A b \in Blocks : Holders(b) = {}
    BY <1>4 DEF Holders
  <2> QED BY <2>1, FS_EmptySet DEF RefCountExact
<1>7. FreeListExact
  BY <1>2 DEF FreeListExact
<1>8. CoversTokens
  <2>1. BlocksFor(0) = 0
    BY <1>1, BlocksForUnique
  <2> QED BY <2>1 DEF CoversTokens
<1>9. OpenTailPrivate
  <2>1. 0 % BlockSize = 0
    BY <1>1
  <2> QED BY <2>1 DEF OpenTailPrivate
<1> QED BY <1>3, <1>5, <1>6, <1>7, <1>8, <1>9 DEF IInv

\* A block that somebody holds is referenced.
LEMMA HeldReferenced ==
  ASSUME IInv, NEW t \in Tables
  PROVE  /\ Held(t) \subseteq Blocks
         /\ \A b \in Held(t) : t \in Holders(b) /\ refs[b] > 0
<1>1. Held(t) \subseteq Blocks
  BY DEF IInv, TypeOK, Held, Range
<1>2. ASSUME NEW b \in Held(t)
      PROVE  t \in Holders(b) /\ refs[b] > 0
  <2>1. t \in Holders(b) /\ b \in Blocks
    BY <1>1 DEF Holders
  <2>2. IsFiniteSet(Holders(b))
    BY <2>1, HoldersFinite
  <2>3. Cardinality(Holders(b)) # 0
    BY <2>1, <2>2, FS_EmptySet
  <2>4. refs[b] = Cardinality(Holders(b)) /\ refs[b] \in Nat
    BY <2>1 DEF IInv, TypeOK, RefCountExact
  <2> QED BY <2>1, <2>3, <2>4
<1> QED BY <1>1, <1>2

\* The open last block of a table.
LEMMA OpenTail ==
  ASSUME IInv, NEW t \in Tables, tokens[t] % BlockSize # 0
  PROVE  /\ Len(blocks[t]) > 0
         /\ Full(t) < Len(blocks[t])
         /\ blocks[t][Len(blocks[t])] \in Held(t)
<1>1. tokens[t] \in Nat /\ blocks[t] \in Seq(Blocks)
  BY DEF IInv, TypeOK
<1>2. Full(t) \in Nat /\ Full(t) < Len(blocks[t])
  BY <1>1, FullBlocks DEF IInv, CoversTokens, Full
<1> QED BY <1>1, <1>2 DEF Held, Range

-----------------------------------------------------------------------------
(* Each operation preserves it. *)

\* Append takes only unreferenced blocks, each for one table, and only as many
\* as the new tokens need.
LEMMA AppendInv ==
  ASSUME IInv, NEW t \in Tables, NEW n \in 1 .. MaxAppend, AppendOk(t, n)
  PROVE  IInv'
<1> DEFINE need == BlocksFor(tokens[t] + n) - Len(blocks[t])
           ids == Popped(need)
<1>1. /\ free \in Seq(Blocks) /\ refs \in [Blocks -> Nat]
      /\ blocks \in [Tables -> Seq(Blocks)] /\ shared \in [Tables -> Nat]
      /\ tokens \in [Tables -> Nat] /\ n \in Nat
      /\ \A u \in Tables : shared[u] <= Len(blocks[u])
  BY BlocksAssumption DEF IInv, TypeOK, BlocksAssumption
<1>2. /\ need \in Nat
      /\ BlocksFor(tokens[t] + n) = Len(blocks[t]) + need
      /\ tokens[t] % BlockSize = 0 => need > 0
  <2>1. /\ BlocksFor(tokens[t]) = Len(blocks[t])
        /\ tokens[t] \in Nat /\ tokens[t] + n \in Nat /\ n > 0
    BY <1>1 DEF IInv, CoversTokens
  <2>2. BlocksFor(tokens[t] + n) \in Nat
    BY <2>1, BlocksForBounds
  <2>3. /\ BlocksFor(tokens[t]) <= BlocksFor(tokens[t] + n)
        /\ tokens[t] % BlockSize = 0 => BlocksFor(tokens[t]) < BlocksFor(tokens[t] + n)
    BY <1>1, <2>1, BlocksForGrows
  <2> QED BY <1>1, <2>1, <2>2, <2>3
<1> HIDE DEF need
<1>3. need \in 0 .. Len(free)
  BY <1>1, <1>2 DEF AppendOk, AppendNeeding, need
<1>4. /\ ids \in Seq(Blocks) /\ Len(ids) = need
      /\ SubSeq(free, 1, Len(free) - need) \in Seq(Blocks)
      /\ IsInjective(ids) /\ IsInjective(SubSeq(free, 1, Len(free) - need))
      /\ Range(SubSeq(free, 1, Len(free) - need)) = Range(free) \ Range(ids)
      /\ Range(ids) \subseteq Range(free)
  BY <1>1, <1>3, PoppedBlocks DEF IInv, FreeListExact
<1>5. (IF need > 0 THEN ids ELSE <<>>) = ids
  <2>1. need = 0 => ids = <<>>
    BY <1>4
  <2> QED BY <1>3, <2>1
<1>6. /\ free' = SubSeq(free, 1, Len(free) - need)
      /\ refs' = [b \in Blocks |-> IF b \in Range(ids) THEN 1 ELSE refs[b]]
      /\ blocks' = [blocks EXCEPT ![t] = @ \o ids]
      /\ tokens' = [tokens EXCEPT ![t] = @ + n]
      /\ shared' = shared
  BY <1>4, <1>5 DEF AppendOk, AppendNeeding, need
<1> HIDE DEF ids
<1>7. \A b \in Range(ids) : b \in Blocks /\ refs[b] = 0
  BY <1>4 DEF IInv, FreeListExact
<1>8. \A u \in Tables : Held(u) \cap Range(ids) = {}
  BY <1>7, HeldReferenced
<1> DEFINE grown == blocks[t] \o ids
<1>9. /\ grown \in Seq(Blocks)
      /\ Len(grown) = Len(blocks[t]) + need
      /\ Range(grown) = Held(t) \cup Range(ids)
      /\ IsInjective(grown)
      /\ need > 0 => grown[Len(grown)] \in Range(ids)
      /\ blocks' = [blocks EXCEPT ![t] = grown]
  BY <1>1, <1>4, <1>6, <1>8, ConcatLists DEF IInv, Distinct, Held
<1> HIDE DEF grown
<1>10. /\ blocks'[t] = grown
       /\ Held(t)' = Held(t) \cup Range(ids)
       /\ \A u \in Tables \ {t} : blocks'[u] = blocks[u] /\ Held(u)' = Held(u)
  BY <1>1, <1>9 DEF Held
<1>11. Len(blocks'[t]) = Len(blocks[t]) + need
  BY <1>9, <1>10
<1>12. TypeOK'
  <2>1. free' \in Seq(Blocks) /\ refs' \in [Blocks -> Nat]
    BY <1>1, <1>4, <1>6
  <2>2. blocks' \in [Tables -> Seq(Blocks)]
    BY <1>1, <1>9
  <2>3. shared' \in [Tables -> Nat] /\ tokens' \in [Tables -> Nat]
    BY <1>1, <1>6
  <2>4. \A u \in Tables : shared'[u] <= Len(blocks'[u])
    BY <1>1, <1>2, <1>6, <1>10, <1>11
  <2> QED BY <2>1, <2>2, <2>3, <2>4 DEF TypeOK
<1>13. Distinct'
  BY <1>9, <1>10 DEF IInv, Distinct
<1>14. RefCountExact'
  <2> SUFFICES ASSUME NEW b \in Blocks
               PROVE  refs'[b] = Cardinality(Holders(b)')
    BY DEF RefCountExact
  <2>1. CASE b \in Range(ids)
    <3>1. Holders(b)' = {t}
      BY <1>8, <1>10, <2>1 DEF Holders
    <3> QED BY <1>6, <2>1, <3>1, FS_Singleton
  <2>2. CASE b \notin Range(ids)
    <3>1. Holders(b)' = Holders(b)
      BY <1>10, <2>2 DEF Holders
    <3> QED BY <1>6, <2>2, <3>1 DEF IInv, RefCountExact
  <2> QED BY <2>1, <2>2
<1>15. FreeListExact'
  BY <1>1, <1>4, <1>6 DEF IInv, FreeListExact
<1>16. CoversTokens'
  BY <1>1, <1>2, <1>6, <1>10, <1>11 DEF IInv, CoversTokens
<1>17. OpenTailPrivate'
  <2> SUFFICES ASSUME NEW u \in Tables, tokens'[u] % BlockSize # 0, NEW b,
                      b = blocks'[u][Len(blocks'[u])]
               PROVE  Holders(b)' = {u}
    BY DEF OpenTailPrivate, Holders
  <2>1. CASE u = t /\ need > 0
    <3>1. b \in Range(ids)
      BY <1>9, <1>10, <2>1
    <3> QED BY <1>8, <1>10, <2>1, <3>1 DEF Holders
  <2>2. CASE u # t \/ need = 0
    <3>1. tokens[u] % BlockSize # 0
      BY <1>1, <1>2, <1>6, <2>2
    <3>2. Held(u)' = Held(u) /\ b = blocks[u][Len(blocks[u])]
      <4>1. CASE u # t
        BY <1>10, <4>1
      <4>2. CASE u = t /\ need = 0
        <5>1. ids = <<>>
          BY <1>4, <4>2
        <5>2. grown = blocks[t]
          BY <1>1, <5>1 DEF grown
        <5> QED BY <1>10, <4>2, <5>2 DEF Held
      <4> QED BY <2>2, <4>1, <4>2
    <3>3. b \in Held(u) /\ Holders(b) = {u}
      BY <3>1, <3>2, OpenTail DEF IInv, OpenTailPrivate
    <3>4. b \notin Range(ids)
      BY <1>8, <3>3
    <3>5. Holders(b)' = Holders(b)
      BY <1>10, <3>4 DEF Holders
    <3> QED BY <3>3, <3>5
  <2> QED BY <1>3, <2>1, <2>2
<1> QED BY <1>12, <1>13, <1>14, <1>15, <1>16, <1>17 DEF IInv

\* Fork adds one reader to each whole block of the prefix and opens none.
LEMMA ForkInv ==
  ASSUME IInv, NEW t \in Tables, NEW s \in Tables, NEW k \in 1 .. Full(s), Fork(t, s, k)
  PROVE  IInv'
<1> DEFINE ids == Prefix(s, k)
<1>1. /\ free \in Seq(Blocks) /\ refs \in [Blocks -> Nat]
      /\ blocks \in [Tables -> Seq(Blocks)] /\ shared \in [Tables -> Nat]
      /\ tokens \in [Tables -> Nat]
      /\ \A u \in Tables : shared[u] <= Len(blocks[u])
  BY DEF IInv, TypeOK
<1>2. /\ Full(s) \in Nat
      /\ Full(s) <= Len(blocks[s])
      /\ tokens[s] % BlockSize # 0 => Full(s) < Len(blocks[s])
  BY <1>1, FullBlocks DEF IInv, CoversTokens, Full
<1>3. k \in 0 .. Len(blocks[s])
  BY <1>1, <1>2
<1>4. /\ ids \in Seq(Blocks) /\ Len(ids) = k
      /\ IsInjective(ids)
      /\ Range(ids) \subseteq Held(s)
      /\ k < Len(blocks[s]) => blocks[s][Len(blocks[s])] \notin Range(ids)
  BY <1>1, <1>3, PrefixBlocks DEF IInv, Distinct
<1>5. /\ free' = free
      /\ refs' = [b \in Blocks |-> IF b \in Range(ids) /\ refs[b] > 0
                                   THEN refs[b] + 1 ELSE refs[b]]
      /\ blocks' = [blocks EXCEPT ![t] = ids]
      /\ tokens' = [tokens EXCEPT ![t] = k * BlockSize]
      /\ shared' = [shared EXCEPT ![t] = k]
      /\ blocks[t] = <<>>
  BY <1>4 DEF Fork, ForkWith, Shared
<1> HIDE DEF ids
<1>6. Held(t) = {}
  BY <1>5 DEF Held, Range
<1>7. /\ blocks'[t] = ids
      /\ Held(t)' = Range(ids)
      /\ \A u \in Tables \ {t} : blocks'[u] = blocks[u] /\ Held(u)' = Held(u)
  BY <1>1, <1>5 DEF Held
<1>8. \A b \in Range(ids) : b \in Blocks /\ refs[b] > 0
  BY <1>4, HeldReferenced
<1>9. /\ k * BlockSize \in Nat
      /\ BlocksFor(k * BlockSize) = k
      /\ (k * BlockSize) % BlockSize = 0
  BY <1>2, WholeBlocks
<1>10. TypeOK'
  <2>1. free' \in Seq(Blocks) /\ refs' \in [Blocks -> Nat]
    BY <1>1, <1>5
  <2>2. blocks' \in [Tables -> Seq(Blocks)]
    BY <1>1, <1>4, <1>5
  <2>3. shared' \in [Tables -> Nat] /\ tokens' \in [Tables -> Nat]
    BY <1>1, <1>2, <1>5, <1>9
  <2>4. \A u \in Tables : shared'[u] <= Len(blocks'[u])
    BY <1>1, <1>2, <1>4, <1>5, <1>7
  <2> QED BY <2>1, <2>2, <2>3, <2>4 DEF TypeOK
<1>11. Distinct'
  BY <1>4, <1>7 DEF IInv, Distinct
<1>12. RefCountExact'
  <2> SUFFICES ASSUME NEW b \in Blocks
               PROVE  refs'[b] = Cardinality(Holders(b)')
    BY DEF RefCountExact
  <2>1. CASE b \in Range(ids)
    <3>1. Holders(b)' = Holders(b) \cup {t} /\ t \notin Holders(b)
      BY <1>6, <1>7, <2>1 DEF Holders
    <3>2. Cardinality(Holders(b) \cup {t}) = Cardinality(Holders(b)) + 1
      BY <3>1, HoldersFinite, FS_AddElement
    <3>3. refs'[b] = Cardinality(Holders(b)) + 1
      BY <1>5, <1>8, <2>1 DEF IInv, RefCountExact
    <3> QED BY <3>1, <3>2, <3>3
  <2>2. CASE b \notin Range(ids)
    <3>1. Holders(b)' = Holders(b)
      BY <1>6, <1>7, <2>2 DEF Holders
    <3> QED BY <1>5, <2>2, <3>1 DEF IInv, RefCountExact
  <2> QED BY <2>1, <2>2
<1>13. FreeListExact'
  <2>1. \A b \in Blocks : refs'[b] = 0 <=> refs[b] = 0
    BY <1>1, <1>5
  <2> QED BY <1>5, <2>1 DEF IInv, FreeListExact
<1>14. CoversTokens'
  BY <1>1, <1>4, <1>5, <1>7, <1>9 DEF IInv, CoversTokens
<1>15. OpenTailPrivate'
  <2> SUFFICES ASSUME NEW u \in Tables, tokens'[u] % BlockSize # 0, NEW b,
                      b = blocks'[u][Len(blocks'[u])]
               PROVE  Holders(b)' = {u}
    BY DEF OpenTailPrivate, Holders
  <2>1. u # t
    BY <1>1, <1>5, <1>9
  <2>2. b = blocks[u][Len(blocks[u])] /\ tokens[u] % BlockSize # 0
    BY <1>1, <1>5, <1>7, <2>1
  <2>3. b \in Held(u) /\ Holders(b) = {u}
    BY <2>2, OpenTail DEF IInv, OpenTailPrivate
  <2>4. b \notin Range(ids)
    <3>1. CASE u = s
      BY <1>2, <1>4, <2>2, <3>1
    <3>2. CASE u # s
      BY <1>4, <2>3, <3>2 DEF Holders
    <3> QED BY <3>1, <3>2
  <2>5. Holders(b)' = Holders(b)
    BY <1>6, <1>7, <2>4 DEF Holders
  <2> QED BY <2>3, <2>5
<1> QED BY <1>10, <1>11, <1>12, <1>13, <1>14, <1>15 DEF IInv

\* Free removes one reader of each block and returns those that had no other.
LEMMA FreeInv ==
  ASSUME IInv, NEW t \in Tables, Free(t)
  PROVE  IInv'
<1> DEFINE dead == {b \in Held(t) : refs[b] = 1}
<1>1. /\ free \in Seq(Blocks) /\ refs \in [Blocks -> Nat]
      /\ blocks \in [Tables -> Seq(Blocks)] /\ shared \in [Tables -> Nat]
      /\ tokens \in [Tables -> Nat]
      /\ \A u \in Tables : shared[u] <= Len(blocks[u])
  BY DEF IInv, TypeOK
<1>2. /\ refs' = [b \in Blocks |-> IF b \in Held(t) /\ refs[b] > 0
                                   THEN refs[b] - 1 ELSE refs[b]]
      /\ blocks' = [blocks EXCEPT ![t] = <<>>]
      /\ shared' = [shared EXCEPT ![t] = 0]
      /\ tokens' = [tokens EXCEPT ![t] = 0]
  BY DEF Free, FreeReturning
<1>3. PICK ids \in Listings(dead) : free' = free \o ids
  BY DEF Free, FreeReturning
<1>4. dead \subseteq Blocks /\ \A b \in dead : refs[b] = 1
  BY HeldReferenced
<1>5. ids \in Seq(Blocks) /\ IsInjective(ids) /\ Range(ids) = dead
  <2>1. Cardinality(dead) \in Nat
    BY <1>4, BlocksAssumption, FS_Subset, FS_CardinalityType DEF BlocksAssumption
  <2>2. ids \in [1 .. Cardinality(dead) -> dead] /\ IsInjective(ids)
    BY DEF Listings, Bijection, Injection
  <2>3. dead \subseteq Range(ids)
    BY <2>2 DEF Listings, Bijection, Surjection, Range
  <2>4. Range(ids) \subseteq dead
    BY <2>2 DEF Range
  <2>5. ids \in Seq(Blocks)
    <3> DEFINE m == Cardinality(dead)
    <3>1. m \in Nat /\ ids \in [1 .. m -> Blocks]
      BY <1>4, <2>1, <2>2
    <3> HIDE DEF m
    <3> QED BY <3>1
  <2> QED BY <2>2, <2>3, <2>4, <2>5
<1>6. Range(free) \cap Range(ids) = {}
  BY <1>4, <1>5 DEF IInv, FreeListExact
<1>7. free' \in Seq(Blocks) /\ IsInjective(free') /\ Range(free') = Range(free) \cup dead
  BY <1>1, <1>3, <1>5, <1>6, ConcatLists DEF IInv, FreeListExact
<1>8. /\ blocks'[t] = <<>>
      /\ Held(t)' = {}
      /\ \A u \in Tables \ {t} : blocks'[u] = blocks[u] /\ Held(u)' = Held(u)
  BY <1>1, <1>2 DEF Held, Range
<1>9. TypeOK'
  <2>1. refs' \in [Blocks -> Nat]
    BY <1>1, <1>2
  <2>2. /\ blocks' \in [Tables -> Seq(Blocks)] /\ shared' \in [Tables -> Nat]
        /\ tokens' \in [Tables -> Nat]
    BY <1>1, <1>2
  <2>3. \A u \in Tables : shared'[u] <= Len(blocks'[u])
    BY <1>1, <1>2, <1>8
  <2> QED BY <1>7, <2>1, <2>2, <2>3 DEF TypeOK
<1>10. Distinct'
  BY <1>8 DEF IInv, Distinct, IsInjective
<1>11. RefCountExact'
  <2> SUFFICES ASSUME NEW b \in Blocks
               PROVE  refs'[b] = Cardinality(Holders(b)')
    BY DEF RefCountExact
  <2>1. Holders(b)' = Holders(b) \ {t}
    BY <1>8 DEF Holders
  <2>2. IsFiniteSet(Holders(b))
    BY HoldersFinite
  <2>3. CASE b \in Held(t)
    <3>1. t \in Holders(b) /\ refs[b] > 0
      BY <2>3, HeldReferenced
    <3>2. Cardinality(Holders(b) \ {t}) = Cardinality(Holders(b)) - 1
      BY <2>2, <3>1, FS_RemoveElement
    <3>3. refs'[b] = Cardinality(Holders(b)) - 1
      BY <1>2, <2>3, <3>1 DEF IInv, RefCountExact
    <3> QED BY <2>1, <3>2, <3>3
  <2>4. CASE b \notin Held(t)
    <3>1. Holders(b) \ {t} = Holders(b)
      BY <2>4 DEF Holders
    <3> QED BY <1>2, <2>1, <2>4, <3>1 DEF IInv, RefCountExact
  <2> QED BY <2>3, <2>4
<1>12. FreeListExact'
  <2>1. \A b \in Blocks : refs'[b] = 0 <=> refs[b] = 0 \/ b \in dead
    BY <1>1, <1>2
  <2>2. Range(free') = {b \in Blocks : refs'[b] = 0}
    BY <1>4, <1>7, <2>1 DEF IInv, FreeListExact
  <2> QED BY <1>7, <2>2 DEF FreeListExact
<1>13. CoversTokens'
  <2>1. BlocksFor(0) = 0
    BY BlocksForUnique, BlocksAssumption DEF BlocksAssumption
  <2> QED BY <1>1, <1>2, <1>8, <2>1 DEF IInv, CoversTokens
<1>14. OpenTailPrivate'
  <2> SUFFICES ASSUME NEW u \in Tables, tokens'[u] % BlockSize # 0, NEW b,
                      b = blocks'[u][Len(blocks'[u])]
               PROVE  Holders(b)' = {u}
    BY DEF OpenTailPrivate, Holders
  <2>1. 0 % BlockSize = 0
    BY BlocksAssumption DEF BlocksAssumption
  <2>2. u # t
    BY <1>1, <1>2, <2>1
  <2>3. b = blocks[u][Len(blocks[u])] /\ tokens[u] % BlockSize # 0
    BY <1>1, <1>2, <1>8, <2>2
  <2>4. b \in Held(u) /\ Holders(b) = {u}
    BY <2>3, OpenTail DEF IInv, OpenTailPrivate
  <2> QED BY <1>8, <2>2, <2>4 DEF Holders
<1> QED BY <1>9, <1>10, <1>11, <1>12, <1>13, <1>14 DEF IInv

-----------------------------------------------------------------------------
(* The theorems. *)

\* Any history of appends, forks and frees, by any number of sequences, keeps
\* the whole invariant (paged.go and blocktable.go driven by one goroutine).
THEOREM Invariance == Spec => []IInv
<1>1. IInv /\ [Next]_vars => IInv'
  <2> SUFFICES ASSUME IInv, [Next]_vars
               PROVE  IInv'
    OBVIOUS
  <2>1. ASSUME NEW t \in Tables, NEW n \in 1 .. MaxAppend, AppendOk(t, n)
        PROVE  IInv'
    BY <2>1, AppendInv
  <2>2. ASSUME NEW t \in Tables, NEW s \in Tables, NEW k \in 1 .. Full(s), Fork(t, s, k)
        PROVE  IInv'
    BY <2>2, ForkInv
  <2>3. ASSUME NEW t \in Tables, Free(t)
        PROVE  IInv'
    BY <2>3, FreeInv
  <2>4. CASE UNCHANGED vars
    BY <2>4 DEF vars, IInv, TypeOK, Distinct, RefCountExact, FreeListExact, CoversTokens,
                OpenTailPrivate, Holders, Held
  <2> QED BY <2>1, <2>2, <2>3, <2>4 DEF Next
<1> QED BY <1>1, InitInv, PTL DEF Spec

\* The pool and the tables keep their types, and a table never counts more
\* shared blocks than it has.
THEOREM TypeCorrect == Spec => []TypeOK
BY Invariance, PTL DEF IInv

\* A block's reference count is the number of sequences that read it.
THEOREM RefCounts == Spec => []RefCountExact
BY Invariance, PTL DEF IInv

\* Exactly the unreferenced blocks are free, each listed once.
THEOREM FreeLists == Spec => []FreeListExact
BY Invariance, PTL DEF IInv

\* A table has exactly the blocks that its tokens need.
THEOREM TablesCover == Spec => []CoversTokens
BY Invariance, PTL DEF IInv

\* A block that is still being written has one reader, its writer.
THEOREM TailsPrivate == Spec => []OpenTailPrivate
BY Invariance, PTL DEF IInv

=============================================================================
