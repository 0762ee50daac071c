--------------------------- MODULE InductionLemmas ---------------------------
(***************************************************************************)
(* Induction on natural numbers in a form without operator parameters, the *)
(* extrema of sets of naturals, and remainders, for the proof modules.     *)
(***************************************************************************)
EXTENDS Integers, FiniteSets, FiniteSetsExt, FiniteSetTheorems,
        WellFoundedInduction, TLAPS

Below == {p \in Nat \X Nat : p[1] < p[2]}

\* The order of the naturals is well founded.
LEMMA BelowWF == IsWellFoundedOn(Below, Nat)
  BY NatLessThanWellFounded DEF OpToRel, Below

\* A nonempty set of naturals has a least element.
LEMMA Least ==
    ASSUME NEW T \in SUBSET Nat, T # {}
    PROVE  \E m \in T : \A x \in T : m <= x
<1>1. PICK m \in T : \A y \in T : <<y, m>> \notin Below
  BY BelowWF, WFMin
<1>2. ASSUME NEW x \in T PROVE m <= x
  <2>1. <<x, m>> \in Nat \X Nat
    OBVIOUS
  <2>2. ~ (x < m)
    BY <1>1, <2>1 DEF Below
  <2> QED BY <2>2
<1> QED BY <1>2

\* Induction: a set of naturals that holds 0 and is closed under successor.
LEMMA SetInduction ==
    ASSUME NEW S \in SUBSET Nat, 0 \in S, \A n \in S : n + 1 \in S
    PROVE  S = Nat
<1>1. SUFFICES ASSUME Nat \ S # {} PROVE FALSE
  OBVIOUS
<1>2. PICK m \in Nat \ S : \A x \in Nat \ S : m <= x
  BY <1>1, Least
<1>3. m # 0 /\ m - 1 \in Nat
  BY <1>2
<1>4. m - 1 \in S
  BY <1>2, <1>3
<1> QED BY <1>2, <1>3, <1>4

\* Every finite nonempty set of naturals has a greatest element.
LEMMA Greatest ==
    ASSUME NEW T \in SUBSET Nat, IsFiniteSet(T), T # {}
    PROVE  \E m \in T : \A x \in T : x <= m
<1> DEFINE Bounded(n) == \A U \in SUBSET Nat :
               IsFiniteSet(U) /\ Cardinality(U) = n /\ U # {} =>
                 \E m \in U : \A x \in U : x <= m
           S == {n \in Nat : Bounded(n)}
<1>1. 0 \in S
  BY FS_EmptySet
<1>2. ASSUME NEW n \in S PROVE n + 1 \in S
  <2>1. SUFFICES ASSUME NEW U \in SUBSET Nat, IsFiniteSet(U), Cardinality(U) = n + 1, U # {}
                 PROVE  \E m \in U : \A x \in U : x <= m
    OBVIOUS
  <2>2. PICK u \in U : TRUE
    BY <2>1
  <2>3. IsFiniteSet(U \ {u}) /\ Cardinality(U \ {u}) = n
    <3>1. n \in Nat /\ Cardinality(U \ {u}) = Cardinality(U) - 1
      BY <2>1, FS_RemoveElement
    <3> QED BY <2>1, <3>1, FS_RemoveElement
  <2>4. CASE U \ {u} = {}
    BY <2>4
  <2>5. CASE U \ {u} # {}
    <3>1. PICK m \in U \ {u} : \A x \in U \ {u} : x <= m
      BY <2>3, <2>5
    <3> QED BY <3>1
  <2> QED BY <2>4, <2>5
<1>3. S = Nat
  <2> HIDE DEF S
  <2>1. S \in SUBSET Nat
    BY DEF S
  <2> QED BY <1>1, <1>2, <2>1, SetInduction
<1>4. Cardinality(T) \in S
  BY <1>3, FS_CardinalityType
<1> QED BY <1>4

\* What Max returns.
LEMMA MaxIsGreatest ==
    ASSUME NEW T \in SUBSET Nat, IsFiniteSet(T), T # {}
    PROVE  Max(T) \in T /\ \A x \in T : x <= Max(T)
<1>1. \E m \in T : \A y \in T : m >= y
  BY Greatest
<1> QED BY <1>1 DEF Max

\* What Min returns.
LEMMA MinIsLeast ==
    ASSUME NEW T \in SUBSET Nat, T # {}
    PROVE  Min(T) \in T /\ \A x \in T : Min(T) <= x
<1>1. \E m \in T : \A y \in T : m =< y
  BY Least
<1> QED BY <1>1 DEF Min

-----------------------------------------------------------------------------
(* Remainders. *)

\* Quotient and remainder.
LEMMA DivMod ==
    \A a \in Int, n \in Nat \ {0} :
        /\ a \div n \in Int /\ a % n \in Int /\ 0 <= a % n /\ a % n < n
        /\ a = n * (a \div n) + (a % n)
OBVIOUS

\* Multiples of n are n apart.
LEMMA Apart ==
    ASSUME NEW n \in Nat \ {0}, NEW q \in Int, NEW p \in Int, p > q
    PROVE  n * p >= n * q + n
<1>1. PICK d \in Nat : p = q + 1 + d
  <2>1. p - q - 1 \in Nat /\ p = q + 1 + (p - q - 1)
    OBVIOUS
  <2> QED BY <2>1
<1>2. n * p = n * q + n + n * d
  BY <1>1
<1>3. n * d >= 0 /\ n * d \in Int /\ n * q \in Int
  BY <1>1
<1> QED BY <1>2, <1>3

\* Quotient and remainder are unique.
LEMMA ModUnique ==
    ASSUME NEW a \in Int, NEW n \in Nat \ {0}, NEW q \in Int, NEW r \in 0 .. n - 1, a = n * q + r
    PROVE  a % n = r
<1>1. PICK p \in Int, m \in 0 .. n - 1 : p = a \div n /\ m = a % n /\ a = n * p + m
  BY DivMod
<1>2. PICK x \in Int, y \in Int : x = n * p /\ y = n * q
  OBVIOUS
<1>3. x + m = y + r
  BY <1>1, <1>2
<1>4. CASE p > q
  <2>1. x >= y + n
    BY <1>2, <1>4, Apart
  <2> QED BY <1>3, <2>1
<1>5. CASE q > p
  <2>1. y >= x + n
    BY <1>2, <1>5, Apart
  <2> QED BY <1>3, <2>1
<1>6. CASE p = q
  BY <1>1, <1>2, <1>3, <1>6
<1> QED BY <1>4, <1>5, <1>6

\* A remainder that is moved on wraps around once.
LEMMA ModPlus ==
    ASSUME NEW a \in Int, NEW n \in Nat \ {0}, NEW k \in 0 .. n - 1
    PROVE  (a + k) % n = IF (a % n) + k < n THEN (a % n) + k ELSE (a % n) + k - n
<1>1. PICK q \in Int, m \in 0 .. n - 1 : q = a \div n /\ m = a % n /\ a = n * q + m
  BY DivMod
<1>2. CASE m + k < n
  <2>1. PICK b \in Int, r \in 0 .. n - 1 : b = a + k /\ r = m + k
    BY <1>2
  <2>2. b = n * q + r
    BY <1>1, <2>1
  <2>3. b % n = r
    BY <2>2, ModUnique
  <2> QED BY <1>1, <1>2, <2>1, <2>3
<1>3. CASE m + k >= n
  <2>1. PICK b \in Int, r \in 0 .. n - 1, p \in Int : b = a + k /\ r = m + k - n /\ p = q + 1
    BY <1>3
  <2>2. n * p = n * q + n
    BY <2>1
  <2>3. b = n * p + r
    BY <1>1, <2>1, <2>2
  <2>4. b % n = r
    BY <2>3, ModUnique
  <2> QED BY <1>1, <1>3, <2>1, <2>4
<1> QED BY <1>2, <1>3

\* A multiple leaves no remainder, and a number below n is its own.
LEMMA ModSimple ==
    ASSUME NEW n \in Nat \ {0}
    PROVE  /\ \A q \in Int : (q * n) % n = 0
           /\ \A r \in 0 .. n - 1 : r % n = r
<1>1. ASSUME NEW q \in Int
      PROVE  (q * n) % n = 0
  <2>1. q * n \in Int /\ q * n = n * q + 0 /\ 0 \in 0 .. n - 1
    OBVIOUS
  <2> QED BY <2>1, ModUnique
<1>2. ASSUME NEW r \in 0 .. n - 1
      PROVE  r % n = r
  <2>1. r \in Int /\ r = n * 0 + r
    OBVIOUS
  <2> QED BY <2>1, ModUnique
<1> QED BY <1>1, <1>2

-----------------------------------------------------------------------------
(* FoldLeft takes the members of 1 .. n away from the greatest down. *)

\* What is left of a part of 1 .. n + 1 without its greatest member.
LEMMA MaxDropped ==
    ASSUME NEW n \in Nat, NEW s \in SUBSET (1 .. n + 1), s # {}
    PROVE  s \ {Max(s)} \in SUBSET (1 .. n)
<1>1. IsFiniteSet(1 .. n + 1)
  <2>1. n + 1 \in Int /\ 1 \in Int
    OBVIOUS
  <2> QED BY <2>1, FS_Interval
<1>2. IsFiniteSet(s)
  <2>1. s \subseteq 1 .. n + 1
    OBVIOUS
  <2> QED BY <1>1, <2>1, FS_Subset
<1>3. s \in SUBSET Nat
  OBVIOUS
<1>4. Max(s) \in s /\ \A x \in s : x <= Max(s)
  BY <1>2, <1>3, MaxIsGreatest
<1>5. ASSUME NEW x \in s, x # Max(s)
      PROVE  x \in 1 .. n
  <2>1. PICK m \in 1 .. n + 1 : m = Max(s)
    BY <1>4
  <2>2. x \in 1 .. n + 1 /\ x <= m /\ x # m
    BY <1>4, <1>5, <2>1
  <2> QED BY <2>2
<1> QED BY <1>5

\* The same of 1 .. n itself.
LEMMA MaxOfInterval ==
    ASSUME NEW n \in Nat \ {0}
    PROVE  Max(1 .. n) = n /\ (1 .. n) \ {Max(1 .. n)} = 1 .. n - 1
<1>1. IsFiniteSet(1 .. n)
  <2>1. n \in Int /\ 1 \in Int
    OBVIOUS
  <2> QED BY <2>1, FS_Interval
<1>2. (1 .. n) \in SUBSET Nat /\ n \in 1 .. n
  OBVIOUS
<1>3. Max(1 .. n) \in 1 .. n /\ \A x \in 1 .. n : x <= Max(1 .. n)
  BY <1>1, <1>2, MaxIsGreatest
<1> QED BY <1>2, <1>3

=============================================================================
