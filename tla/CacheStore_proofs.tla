------------------------- MODULE CacheStore_proofs --------------------------
(***************************************************************************)
(* Proofs about PrefixCache and CacheStore, for every set of prompts and of *)
(* requests, every capacity and every number of handles.                    *)
(***************************************************************************)
EXTENDS CacheStore, InductionLemmas, SequenceTheorems

-----------------------------------------------------------------------------
(* The inductive invariant. *)

\* How far the call that runs has come in its prompt, and that the handles it
\* may still issue are within the bound.
JobInv ==
    /\ job.kind # "idle" => job.req \in Requests /\ job.i >= 1 /\ want[job.req] \in Prompts
    /\ job.kind \in {"match", "insert"} => Len(got[job.req]) = job.i - 1
    /\ job.kind = "insert" => nextID + Len(want[job.req]) + 1 - job.i <= MaxHandle
    /\ job.kind = "evict" => /\ Len(got[job.req]) = job.i
                             /\ nextID + Len(want[job.req]) - job.i <= MaxHandle

\* Handles a request was given or has pinned were issued before, and a block that
\* is not resident has no reader.
IssuedInv ==
    /\ \A r \in Requests : \A i \in DOMAIN got[r] : got[r][i] <= nextID
    /\ \A r \in Requests : \A h \in pins[r] : h <= nextID
    /\ \A p \in Prefixes : ~Resident(p) => refs[p] = 0

\* No block is behind a handle that a call returned but the one it returned it for.
GotInv ==
    \A r \in Requests : \A i \in DOMAIN got[r] : \A p \in Prefixes :
        Resident(p) /\ handle[p] = got[r][i] => p = SubSeq(want[r], 1, i)

\* A request reads every resident block behind the handles it has pinned.
PinsRead ==
    \A r \in Requests : \A p \in Prefixes : Resident(p) /\ handle[p] \in pins[r] => p \in reading[r]

\* Only while it evicts is the cache over its limit, by one block, and then there
\* is one to drop.
Limit == Max({capacity, restored})
LimitInv == capacity > 0 =>
    \/ Len(lru) <= Limit
    \/ job.kind = "evict" /\ Len(lru) = Limit + 1 /\ Evictable # {}

\* A process that is down has no cache and no save under way.
DownInv ==
    /\ todo # {} => up
    /\ ~up => /\ lru = <<>> /\ handle = Uncached /\ refs = Unpinned
              /\ job = Idle /\ got = NoCalls /\ pins = NoPins /\ reading = NoPins
              /\ restored = 0

\* A list names each block and each handle once.
OnceEach(list) == \A i, j \in DOMAIN list : list[i][1] = list[j][1] \/ list[i][2] = list[j][2] => i = j
ListsInv == OnceEach(snap) /\ OnceEach(manifest.list)

\* While a save runs its snapshot is that of the cache, and what it has written so
\* far is what it was to write; when every save has ended so is the directory.
SaveInv ==
    /\ todo # {} => /\ snap = Snapshot
                    /\ ManifestFile \in todo \/ manifest = Written(snap)
    /\ ManifestFile \in todo => \A i \in DOMAIN snap : snap[i][2] \in todo
    /\ clean /\ ManifestFile \notin todo /\ manifest.state = "written" =>
           \A i \in DOMAIN manifest.list :
               manifest.list[i][2] \in todo \/ blob[manifest.list[i][2]] = manifest.list[i][1]

IInv == /\ TypeOK
        /\ JobInv
        /\ ListMatchesMap
        /\ IssuedInv
        /\ GotInv
        /\ RefsExact
        /\ ReadersSafe
        /\ PinsRead
        /\ LimitInv
        /\ CleanIdentity
        /\ RestoredComplete
        /\ DownInv
        /\ ListsInv
        /\ SaveInv

-----------------------------------------------------------------------------
(* Prompts, handles and lists of blocks. *)

\* A block is named by a prefix that is not empty.
LEMMA PrefixFacts ==
    /\ \A t \in Prompts : Len(t) \in Nat /\ \A k \in 1 .. Len(t) : SubSeq(t, 1, k) \in Prefixes
    /\ \A p \in Prefixes : p # NoBlock
<1>1. ASSUME NEW t \in Prompts
      PROVE  Len(t) \in Nat /\ \A k \in 1 .. Len(t) : SubSeq(t, 1, k) \in Prefixes
  BY PromptsAssumption DEF Prefixes
<1>2. ASSUME NEW p \in Prefixes
      PROVE  p # NoBlock
  <2>1. PICK t \in Prompts : \E k \in 1 .. Len(t) : p = SubSeq(t, 1, k)
    BY DEF Prefixes
  <2>2. t \in Seq(Range(t))
    BY PromptsAssumption
  <2>3. PICK k \in 1 .. Len(t) : p = SubSeq(t, 1, k)
    BY <2>1
  <2>4. Len(p) = k
    BY <2>2, <2>3
  <2> QED BY <2>2, <2>3, <2>4 DEF NoBlock
<1> QED BY <1>1, <1>2

\* Handles are numbers from one.
LEMMA HandleFacts ==
    /\ Handles \subseteq Nat
    /\ \A h \in Nat : 1 <= h /\ h <= MaxHandle => h \in Handles
    /\ 0 \notin Handles
    /\ \A h \in Handles : h >= 1 /\ h <= MaxHandle
BY CacheAssumption DEF Handles

\* A list of blocks, each once.
IsList(s) == s \in Seq(Prefixes) /\ IsInjective(s)

\* The blocks of a list after the one that is dropped move up by one place.
LEMMA DroppedAt ==
    ASSUME NEW s, IsList(s), NEW i \in 1 .. Len(s)
    PROVE  /\ Dropped(s, i) \in Seq(Prefixes) /\ Len(Dropped(s, i)) = Len(s) - 1
           /\ \A j \in 1 .. Len(s) - 1 : Dropped(s, i)[j] = IF j < i THEN s[j] ELSE s[j + 1]
<1> DEFINE n == Len(s)
<1>d. PICK d : d = Dropped(s, i)
  OBVIOUS
<1>0. s \in Seq(Prefixes) /\ n \in Nat /\ DOMAIN s = 1 .. n
  BY DEF IsList
<1>1. /\ d \in Seq(Prefixes) /\ Len(d) = n - 1
      /\ \A j \in 1 .. n - 1 : d[j] = IF j < i THEN s[j] ELSE s[j + 1]
  <2>1. /\ SubSeq(s, 1, i - 1) \in Seq(Prefixes) /\ Len(SubSeq(s, 1, i - 1)) = i - 1
        /\ \A j \in 1 .. i - 1 : SubSeq(s, 1, i - 1)[j] = s[j]
    BY <1>0
  <2>2. /\ SubSeq(s, i + 1, n) \in Seq(Prefixes) /\ Len(SubSeq(s, i + 1, n)) = n - i
        /\ \A j \in 1 .. n - i : SubSeq(s, i + 1, n)[j] = s[i + j]
    <3>0. i + 1 \in Int /\ n \in Int /\ \A j \in i + 1 .. n : s[j] \in Prefixes
      BY <1>0
    <3>1. SubSeq(s, i + 1, n) \in Seq(Prefixes) /\ Len(SubSeq(s, i + 1, n)) = n - i
      <4>1. PICK t : t = SubSeq(s, i + 1, n)
        OBVIOUS
      <4>2. t \in Seq(Prefixes) /\ Len(t) = IF i + 1 <= n THEN n - (i + 1) + 1 ELSE 0
        BY <3>0, <4>1, SubSeqProperties
      <4>3. Len(t) = n - i
        <5>1. i \in Int /\ n \in Int /\ i <= n
          BY <1>0
        <5>2. (IF i + 1 <= n THEN n - (i + 1) + 1 ELSE 0) = n - i
          BY <5>1
        <5> QED BY <4>2, <5>2
      <4> QED BY <4>1, <4>2, <4>3
    <3>2. ASSUME NEW j \in 1 .. n - i
          PROVE  SubSeq(s, i + 1, n)[j] = s[i + j]
      <4>1. SubSeq(s, i + 1, n)[j] = s[(i + 1) + j - 1]
        BY <1>0
      <4>2. (i + 1) + j - 1 = i + j
        BY <1>0
      <4> QED BY <4>1, <4>2
    <3> QED BY <3>1, <3>2
  <2>3. PICK a \in Seq(Prefixes), b \in Seq(Prefixes) :
            a = SubSeq(s, 1, i - 1) /\ b = SubSeq(s, i + 1, n) /\ d = a \o b
    BY <1>d, <2>1, <2>2 DEF Dropped
  <2>4. /\ Len(a) = i - 1 /\ Len(b) = n - i
        /\ \A j \in 1 .. i - 1 : a[j] = s[j]
        /\ \A j \in 1 .. n - i : b[j] = s[i + j]
    BY <2>1, <2>2, <2>3
  <2>c. d = a \o b
    BY <2>3
  <2>5. d \in Seq(Prefixes) /\ Len(d) = n - 1
    <3>1. a \o b \in Seq(Prefixes) /\ Len(a \o b) = Len(a) + Len(b)
      OBVIOUS
    <3> QED BY <1>0, <2>c, <2>4, <3>1
  <2>6. ASSUME NEW j \in 1 .. n - 1
        PROVE  d[j] = IF j < i THEN s[j] ELSE s[j + 1]
    <3>0. /\ j <= Len(a) => (a \o b)[j] = a[j]
          /\ j > Len(a) => (a \o b)[j] = b[j - Len(a)]
      BY <1>0, <2>4
    <3>1. CASE j < i
      <4>1. d[j] = a[j]
        BY <1>0, <2>c, <2>4, <3>0, <3>1
      <4> QED BY <1>0, <2>4, <3>1, <4>1
    <3>2. CASE j >= i
      <4>1. d[j] = b[j - (i - 1)] /\ j - (i - 1) \in 1 .. n - i
        BY <1>0, <2>c, <2>4, <3>0, <3>2
      <4>2. b[j - (i - 1)] = s[i + (j - (i - 1))] /\ i + (j - (i - 1)) = j + 1
        BY <1>0, <2>4, <4>1
      <4> QED BY <3>2, <4>1, <4>2
    <3> QED BY <1>0, <3>1, <3>2
  <2> QED BY <1>0, <2>5, <2>6
<1> QED BY <1>d, <1>1

\* Dropping one block of a list leaves the others.
LEMMA DroppedFacts ==
    ASSUME NEW s, IsList(s), NEW i \in 1 .. Len(s)
    PROVE  /\ IsList(Dropped(s, i))
           /\ Len(Dropped(s, i)) = Len(s) - 1
           /\ Range(Dropped(s, i)) = Range(s) \ {s[i]}
<1> DEFINE n == Len(s)
<1>d. PICK d : d = Dropped(s, i)
  OBVIOUS
<1>0. s \in Seq(Prefixes) /\ n \in Nat /\ DOMAIN s = 1 .. n
  BY DEF IsList
<1>1. /\ d \in Seq(Prefixes) /\ Len(d) = n - 1 /\ DOMAIN d = 1 .. n - 1
      /\ \A j \in 1 .. n - 1 : d[j] = IF j < i THEN s[j] ELSE s[j + 1]
  <2>1. /\ Dropped(s, i) \in Seq(Prefixes) /\ Len(Dropped(s, i)) = n - 1
        /\ \A j \in 1 .. n - 1 : Dropped(s, i)[j] = IF j < i THEN s[j] ELSE s[j + 1]
    BY DroppedAt
  <2>2. d \in Seq(Prefixes) /\ Len(d) = n - 1
    BY <1>d, <2>1
  <2>3. DOMAIN d = 1 .. n - 1
    BY <2>2
  <2> QED BY <1>d, <2>1, <2>2, <2>3
<1>2. \A j, k \in 1 .. n : s[j] = s[k] => j = k
  BY <1>0 DEF IsList, IsInjective
<1>3. ASSUME NEW j \in 1 .. n - 1, NEW k \in 1 .. n - 1, d[j] = d[k]
      PROVE  j = k
  <2>1. (IF j < i THEN j ELSE j + 1) = (IF k < i THEN k ELSE k + 1)
    <3>1. /\ (IF j < i THEN j ELSE j + 1) \in 1 .. n
          /\ (IF k < i THEN k ELSE k + 1) \in 1 .. n
      BY <1>0
    <3>2. s[IF j < i THEN j ELSE j + 1] = s[IF k < i THEN k ELSE k + 1]
      BY <1>1, <1>3
    <3> QED BY <1>2, <3>1, <3>2
  <2> QED BY <1>0, <2>1
<1>4. Range(d) \subseteq Range(s) \ {s[i]}
  <2>1. ASSUME NEW j \in 1 .. n - 1
        PROVE  d[j] \in Range(s) \ {s[i]}
    <3>1. PICK k \in 1 .. n : k # i /\ d[j] = s[k]
      BY <1>0, <1>1
    <3> QED BY <1>0, <1>2, <3>1 DEF Range
  <2> QED BY <1>1, <2>1 DEF Range
<1>5. Range(s) \ {s[i]} \subseteq Range(d)
  <2>1. ASSUME NEW k \in 1 .. n, s[k] # s[i]
        PROVE  s[k] \in Range(d)
    <3>1. PICK j \in 1 .. n - 1 : k = IF j < i THEN j ELSE j + 1
      <4>1. CASE k < i
        BY <1>0, <4>1
      <4>2. CASE k > i
        <5>1. k - 1 \in 1 .. n - 1 /\ ~(k - 1 < i) /\ k = (k - 1) + 1
          BY <1>0, <4>2
        <5> QED BY <5>1
      <4> QED BY <1>0, <2>1, <4>1, <4>2
    <3>2. d[j] = s[k]
      BY <1>1, <3>1
    <3> QED BY <1>1, <3>2 DEF Range
  <2> QED BY <1>0, <2>1 DEF Range
<1>6. IsList(d) /\ Len(d) = Len(s) - 1 /\ Range(d) = Range(s) \ {s[i]}
  BY <1>0, <1>1, <1>3, <1>4, <1>5 DEF IsList, IsInjective
<1> QED BY <1>d, <1>6

\* A block that is not in a list put in front of it.
LEMMA FrontFacts ==
    ASSUME NEW s, IsList(s), NEW p \in Prefixes, p \notin Range(s)
    PROVE  /\ IsList(<<p>> \o s)
           /\ Len(<<p>> \o s) = Len(s) + 1
           /\ Range(<<p>> \o s) = Range(s) \cup {p}
           /\ (<<p>> \o s)[1] = p
<1> DEFINE n == Len(s)
<1>d. PICK d : d = <<p>> \o s
  OBVIOUS
<1>0. s \in Seq(Prefixes) /\ n \in Nat /\ DOMAIN s = 1 .. n
  BY DEF IsList
<1>1. /\ d \in Seq(Prefixes) /\ Len(d) = n + 1 /\ DOMAIN d = 1 .. n + 1
      /\ d[1] = p /\ \A j \in 2 .. n + 1 : d[j] = s[j - 1]
  BY <1>d, <1>0
<1>2. \A j, k \in 1 .. n : s[j] = s[k] => j = k
  BY <1>0 DEF IsList, IsInjective
<1>3. \A j \in 1 .. n : s[j] # p
  BY <1>0 DEF Range
<1>4. ASSUME NEW j \in 1 .. n + 1, NEW k \in 1 .. n + 1, d[j] = d[k]
      PROVE  j = k
  <2>1. CASE j = 1 /\ k = 1
    BY <2>1
  <2>2. CASE j = 1 /\ k # 1
    <3>1. k - 1 \in 1 .. n /\ d[k] = s[k - 1]
      BY <1>0, <1>1, <2>2
    <3> QED BY <1>1, <1>3, <1>4, <2>2, <3>1
  <2>3. CASE j # 1 /\ k = 1
    <3>1. j - 1 \in 1 .. n /\ d[j] = s[j - 1]
      BY <1>0, <1>1, <2>3
    <3> QED BY <1>1, <1>3, <1>4, <2>3, <3>1
  <2>4. CASE j # 1 /\ k # 1
    <3>1. j - 1 \in 1 .. n /\ d[j] = s[j - 1] /\ k - 1 \in 1 .. n /\ d[k] = s[k - 1]
      BY <1>0, <1>1, <2>4
    <3>2. j - 1 = k - 1
      BY <1>2, <1>4, <3>1
    <3> QED BY <1>0, <3>2
  <2> QED BY <2>1, <2>2, <2>3, <2>4
<1>5. Range(d) \subseteq Range(s) \cup {p}
  <2>1. ASSUME NEW j \in 1 .. n + 1
        PROVE  d[j] = p \/ d[j] \in Range(s)
    <3>1. CASE j # 1
      <4>1. j - 1 \in 1 .. n /\ d[j] = s[j - 1]
        BY <1>0, <1>1, <3>1
      <4> QED BY <1>0, <4>1 DEF Range
    <3> QED BY <1>1, <3>1
  <2> QED BY <1>1, <2>1 DEF Range
<1>6. Range(s) \cup {p} \subseteq Range(d)
  <2>1. ASSUME NEW j \in 1 .. n
        PROVE  s[j] \in Range(d)
    <3>1. j + 1 \in 2 .. n + 1 /\ (j + 1) - 1 = j
      BY <1>0
    <3>2. d[j + 1] = s[j] /\ j + 1 \in DOMAIN d
      BY <1>0, <1>1, <3>1
    <3> QED BY <3>2 DEF Range
  <2>2. p \in Range(d)
    <3>1. 1 \in DOMAIN d
      BY <1>0, <1>1
    <3> QED BY <1>1, <3>1 DEF Range
  <2> QED BY <1>0, <2>1, <2>2 DEF Range
<1>7. IsList(d) /\ Len(d) = Len(s) + 1 /\ Range(d) = Range(s) \cup {p} /\ d[1] = p
  BY <1>1, <1>4, <1>5, <1>6 DEF IsList, IsInjective
<1> QED BY <1>d, <1>7

\* touch keeps the blocks of the list.
LEMMA TouchedFacts ==
    ASSUME IsList(lru), NEW p \in Prefixes, p \in Range(lru)
    PROVE  IsList(Touched(p)) /\ Len(Touched(p)) = Len(lru) /\ Range(Touched(p)) = Range(lru)
<1>1. Len(lru) \in Nat /\ DOMAIN lru = 1 .. Len(lru)
  BY DEF IsList
<1>2. \E i \in 1 .. Len(lru) : lru[i] = p
  BY <1>1 DEF Range
<1>3. PICK i \in 1 .. Len(lru) : i = IndexIn(lru, p) /\ lru[i] = p
  BY <1>2 DEF IndexIn
<1>4. PICK d : d = Dropped(lru, i)
  OBVIOUS
<1>5. IsList(d) /\ Len(d) = Len(lru) - 1 /\ Range(d) = Range(lru) \ {p}
  BY <1>3, <1>4, DroppedFacts
<1>6. Touched(p) = <<p>> \o d
  BY <1>3, <1>4 DEF Touched
<1>7. IsList(<<p>> \o d) /\ Len(<<p>> \o d) = Len(d) + 1 /\ Range(<<p>> \o d) = Range(d) \cup {p}
  BY <1>5, FrontFacts
<1>8. Range(d) \cup {p} = Range(lru) /\ Len(d) + 1 = Len(lru)
  BY <1>1, <1>5
<1>9. IsList(Touched(p)) /\ Len(Touched(p)) = Len(d) + 1 /\ Range(Touched(p)) = Range(d) \cup {p}
  BY <1>6, <1>7
<1> QED BY <1>8, <1>9

-----------------------------------------------------------------------------
(* What each step does. *)

Kinds == {"idle", "match", "insert", "evict"}

\* The types of a job, field by field.
LEMMA JobFacts ==
    /\ \A j \in Jobs : j.kind \in Kinds /\ j.req \in Requests \cup {{}} /\ j.i \in Nat
    /\ \A k \in Kinds, r \in Requests, i \in Nat : [kind |-> k, req |-> r, i |-> i] \in Jobs
    /\ Idle \in Jobs /\ Idle.kind = "idle"
BY DEF Jobs, Kinds, Idle

\* The list of resident blocks.
LEMMA LruFacts ==
    ASSUME TypeOK, ListMatchesMap
    PROVE  /\ IsList(lru) /\ Len(lru) \in Nat /\ DOMAIN lru = 1 .. Len(lru)
           /\ \A p \in Prefixes : p \in Range(lru) <=> handle[p] # 0
           /\ Range(lru) \subseteq Prefixes
BY DEF TypeOK, ListMatchesMap, IsList, Resident, Range

\* A call starts: only the call changes.
LEMMA StartEffect ==
    ASSUME TypeOK, NEW kind \in {"match", "insert"}, NEW r \in Requests, NEW t \in Prompts,
           Start(kind, r, t)
    PROVE  /\ job.kind = "idle"
           /\ job' \in Jobs /\ job'.kind = kind /\ job'.req = r /\ job'.i = 1
           /\ want' \in [Requests -> Prompts \cup {<<>>}] /\ want'[r] = t
           /\ got' \in [Requests -> Seq(Handles)] /\ got'[r] = <<>>
           /\ \A q \in Requests \ {r} : want'[q] = want[q] /\ got'[q] = got[q]
           /\ UNCHANGED <<capacity, lru, handle, refs, nextID, pins, reading, kv>>
<1>1. job.kind = "idle"
  BY DEF Start, Idle
<1>2. job' = [kind |-> kind, req |-> r, i |-> 1]
  BY DEF Start
<1>3. kind \in Kinds
  BY DEF Kinds
<1>4. job' \in Jobs
  BY <1>2, <1>3, JobFacts
<1>5. /\ want' = [want EXCEPT ![r] = t] /\ got' = [got EXCEPT ![r] = <<>>]
      /\ UNCHANGED <<capacity, lru, handle, refs, nextID, pins, reading, kv>>
  BY DEF Start
<1>6. job'.kind = kind /\ job'.req = r /\ job'.i = 1
  BY <1>2
<1>7. /\ want' \in [Requests -> Prompts \cup {<<>>}] /\ want'[r] = t
      /\ got' \in [Requests -> Seq(Handles)] /\ got'[r] = <<>>
      /\ \A q \in Requests \ {r} : want'[q] = want[q] /\ got'[q] = got[q]
  BY <1>5 DEF TypeOK
<1> QED BY <1>1, <1>4, <1>5, <1>6, <1>7

\* A resident block is found: its handle is returned, and it moves to the front.
LEMMA ReuseEffect ==
    ASSUME TypeOK, JobInv, ListMatchesMap, NEW kind \in {"match", "insert"}, Reuse(kind)
    PROVE  /\ job.kind = kind /\ job.req \in Requests /\ job.i \in Nat
           /\ job' \in Jobs /\ job'.kind = kind /\ job'.req = job.req /\ job'.i = job.i + 1
           /\ \E p \in Prefixes :
                  /\ handle[p] \in Handles
                  /\ p = SubSeq(want[job.req], 1, job.i)
                  /\ got' = [got EXCEPT ![job.req] = Append(@, handle[p])]
           /\ IsList(lru') /\ Len(lru') = Len(lru) /\ Range(lru') = Range(lru)
           /\ UNCHANGED <<capacity, handle, refs, nextID, want, pins, reading, kv>>
<1>1. PICK p \in Prefixes :
          /\ AtBlock(kind, p)
          /\ Resident(p)
          /\ lru' = Touched(p)
          /\ got' = [got EXCEPT ![job.req] = Append(@, handle[p])]
  BY DEF Reuse
<1>2. job.kind = kind /\ p = SubSeq(want[job.req], 1, job.i)
  BY <1>1 DEF AtBlock
<1>3. job.req \in Requests /\ job.i \in Nat
  BY <1>2, JobFacts DEF JobInv, TypeOK
<1>4. kind \in Kinds
  BY DEF Kinds
<1>5. job' = [kind |-> kind, req |-> job.req, i |-> job.i + 1]
  BY DEF Reuse
<1>6. job' \in Jobs
  BY <1>3, <1>4, <1>5, JobFacts
<1>7. job'.kind = kind /\ job'.req = job.req /\ job'.i = job.i + 1
  BY <1>5
<1>8. handle[p] \in Handles
  BY <1>1 DEF Resident, TypeOK
<1>9. IsList(lru') /\ Len(lru') = Len(lru) /\ Range(lru') = Range(lru)
  <2>1. IsList(lru) /\ p \in Range(lru)
    BY <1>1, LruFacts DEF Resident
  <2>2. IsList(Touched(p)) /\ Len(Touched(p)) = Len(lru) /\ Range(Touched(p)) = Range(lru)
    BY <2>1, TouchedFacts
  <2> QED BY <1>1, <2>2
<1>10. UNCHANGED <<capacity, handle, refs, nextID, want, pins, reading, kv>>
  BY DEF Reuse
<1> QED BY <1>1, <1>2, <1>3, <1>6, <1>7, <1>8, <1>9, <1>10

\* A block is created under the next handle.
LEMMA InsertEffect ==
    ASSUME TypeOK, JobInv, ListMatchesMap, InsertNew
    PROVE  /\ job.kind = "insert" /\ job.req \in Requests /\ job.i \in Nat
           /\ job' \in Jobs /\ job'.kind = "evict" /\ job'.req = job.req /\ job'.i = job.i
           /\ nextID' = nextID + 1 /\ nextID' \in Handles
           /\ got' = [got EXCEPT ![job.req] = Append(@, nextID')]
           /\ \E p \in Prefixes :
                  /\ handle[p] = 0 /\ p \notin Range(lru)
                  /\ p = SubSeq(want[job.req], 1, job.i)
                  /\ handle' = [handle EXCEPT ![p] = nextID']
                  /\ kv' = [kv EXCEPT ![nextID'] = p]
                  /\ IsList(lru') /\ Len(lru') = Len(lru) + 1 /\ Range(lru') = Range(lru) \cup {p}
                  /\ lru'[1] = p
           /\ UNCHANGED <<capacity, refs, want, pins, reading>>
<1>1. PICK p \in Prefixes :
          /\ AtBlock("insert", p)
          /\ ~Resident(p)
          /\ handle' = [handle EXCEPT ![p] = nextID + 1]
          /\ lru' = <<p>> \o lru
          /\ kv' = [kv EXCEPT ![nextID + 1] = p]
  BY DEF InsertNew, Create
<1>2. job.kind = "insert" /\ p = SubSeq(want[job.req], 1, job.i) /\ job.i <= Len(want[job.req])
  BY <1>1 DEF AtBlock
<1>3. job.req \in Requests /\ job.i \in Nat /\ want[job.req] \in Prompts
  BY <1>2, JobFacts DEF JobInv, TypeOK
<1>4. /\ nextID' = nextID + 1 /\ got' = [got EXCEPT ![job.req] = Append(@, nextID + 1)]
      /\ job' = [kind |-> "evict", req |-> job.req, i |-> job.i]
      /\ UNCHANGED <<capacity, refs, want, pins, reading>>
  BY DEF InsertNew, Create
<1>5. nextID + 1 \in Handles
  <2>1. nextID + Len(want[job.req]) + 1 - job.i <= MaxHandle
    BY <1>2 DEF JobInv
  <2>2. Len(want[job.req]) \in Nat /\ nextID \in Nat
    BY <1>3, PrefixFacts, HandleFacts DEF TypeOK
  <2>3. nextID + 1 <= MaxHandle
    BY <1>2, <1>3, <2>1, <2>2, CacheAssumption
  <2> QED BY <2>2, <2>3, HandleFacts
<1>6. "evict" \in Kinds
  BY DEF Kinds
<1>7. job' \in Jobs
  BY <1>3, <1>4, <1>6, JobFacts
<1>8. job'.kind = "evict" /\ job'.req = job.req /\ job'.i = job.i
  BY <1>4
<1>9. handle[p] = 0 /\ IsList(lru) /\ p \notin Range(lru)
  BY <1>1, LruFacts DEF Resident
<1>10. IsList(lru') /\ Len(lru') = Len(lru) + 1 /\ Range(lru') = Range(lru) \cup {p} /\ lru'[1] = p
  <2>1. PICK l : l = lru
    OBVIOUS
  <2>2. /\ IsList(<<p>> \o l) /\ Len(<<p>> \o l) = Len(l) + 1
        /\ Range(<<p>> \o l) = Range(l) \cup {p} /\ (<<p>> \o l)[1] = p
    BY <1>9, <2>1, FrontFacts
  <2>3. lru' = <<p>> \o l
    BY <1>1, <2>1
  <2> QED BY <2>1, <2>2, <2>3
<1> QED BY <1>1, <1>2, <1>3, <1>4, <1>5, <1>7, <1>8, <1>9, <1>10

\* Eviction drops one block that has no reader.
LEMMA EvictEffect ==
    ASSUME TypeOK, ListMatchesMap, EvictOne
    PROVE  /\ job.kind = "evict" /\ OverLimit
           /\ \E p \in Prefixes :
                  /\ handle[p] # 0 /\ refs[p] = 0
                  /\ handle' = [handle EXCEPT ![p] = 0]
                  /\ IsList(lru') /\ Len(lru') = Len(lru) - 1 /\ Range(lru') = Range(lru) \ {p}
           /\ UNCHANGED <<capacity, refs, nextID, job, want, got, pins, reading, kv>>
<1>1. /\ IsList(lru) /\ Len(lru) \in Nat /\ DOMAIN lru = 1 .. Len(lru)
      /\ \A p \in Prefixes : p \in Range(lru) <=> handle[p] # 0
      /\ Range(lru) \subseteq Prefixes
  BY LruFacts
<1>2. Evictable \subseteq 1 .. Len(lru) /\ Evictable # {}
  BY DEF EvictOne, Evictable
<1>3. IsFiniteSet(Evictable) /\ Evictable \subseteq Nat
  <2>1. IsFiniteSet(1 .. Len(lru)) /\ 1 .. Len(lru) \subseteq Nat
    BY <1>1, FS_Interval
  <2> QED BY <1>2, <2>1, FS_Subset
<1>4. PICK i \in Evictable : i = Max(Evictable)
  BY <1>2, <1>3, MaxIsGreatest
<1>5. /\ handle' = [handle EXCEPT ![lru[i]] = 0]
      /\ refs' = [refs EXCEPT ![lru[i]] = 0]
      /\ lru' = Dropped(lru, i)
  BY <1>4 DEF EvictOne
<1>6. i \in 1 .. Len(lru) /\ refs[lru[i]] = 0
  BY DEF Evictable
<1>7. PICK p \in Prefixes : p = lru[i]
  BY <1>1, <1>6 DEF IsList
<1>8. p \in Range(lru)
  BY <1>1, <1>6, <1>7 DEF Range
<1>9. IsList(lru') /\ Len(lru') = Len(lru) - 1 /\ Range(lru') = Range(lru) \ {p}
  <2>1. PICK l : l = lru
    OBVIOUS
  <2>2. /\ IsList(Dropped(l, i)) /\ Len(Dropped(l, i)) = Len(l) - 1
        /\ Range(Dropped(l, i)) = Range(l) \ {l[i]}
    BY <1>1, <1>6, <2>1, DroppedFacts
  <2> QED BY <1>5, <1>7, <2>1, <2>2
<1>10. refs' = refs
  BY <1>5, <1>6, <1>7 DEF TypeOK
<1>11. /\ job.kind = "evict" /\ OverLimit
       /\ UNCHANGED <<capacity, nextID, job, want, got, pins, reading, kv>>
  BY DEF EvictOne
<1> QED BY <1>1, <1>5, <1>6, <1>7, <1>8, <1>9, <1>10, <1>11

\* A call ends, or goes on after it evicted.
LEMMA EndEffect ==
    ASSUME TypeOK, JobInv, MatchEnd \/ InsertEnd \/ EvictEnd
    PROVE  /\ \/ job.kind \in {"match", "insert"} /\ job' = Idle
              \/ /\ job.kind = "evict" /\ job.req \in Requests /\ job.i \in Nat
                 /\ ~OverLimit \/ Evictable = {}
                 /\ job'.kind = "insert" /\ job'.req = job.req /\ job'.i = job.i + 1
           /\ job' \in Jobs
           /\ UNCHANGED <<capacity, lru, handle, refs, nextID, want, got, pins, reading, kv>>
<1>1. CASE MatchEnd \/ InsertEnd
  BY <1>1, JobFacts DEF MatchEnd, InsertEnd, Finish
<1>2. CASE EvictEnd
  <2>1. job.kind = "evict" /\ (~OverLimit \/ Evictable = {})
        /\ job' = [kind |-> "insert", req |-> job.req, i |-> job.i + 1]
    BY <1>2 DEF EvictEnd
  <2>2. job.req \in Requests /\ job.i \in Nat
    BY <2>1, JobFacts DEF JobInv, TypeOK
  <2>3. "insert" \in Kinds
    BY DEF Kinds
  <2>4. job' \in Jobs
    BY <2>1, <2>2, <2>3, JobFacts
  <2>5. job'.kind = "insert" /\ job'.req = job.req /\ job'.i = job.i + 1
    BY <2>1
  <2>6. UNCHANGED <<capacity, lru, handle, refs, nextID, want, got, pins, reading, kv>>
    BY <1>2 DEF EvictEnd
  <2> QED BY <2>1, <2>2, <2>4, <2>5, <2>6
<1> QED BY <1>1, <1>2

\* The steps of the cache.
LEMMA CacheKinds ==
    ASSUME CacheNext
    PROVE  \/ \E r \in Requests, t \in Prompts : Start("match", r, t) \/ StartInsert(r, t)
           \/ \E r \in Requests : Pin(r) \/ Unpin(r)
           \/ \E kind \in {"match", "insert"} : Reuse(kind)
           \/ InsertNew \/ EvictOne
           \/ MatchEnd \/ InsertEnd \/ EvictEnd
BY DEF CacheNext, StartMatch, MatchNext, InsertReuse

\* The kinds of steps.
LEMMA StepKinds ==
    ASSUME [Next]_vars
    PROVE  \/ CacheNext /\ up /\ todo = {} /\ UNCHANGED storeVars
           \/ SaveStart \/ WriteFile \/ SaveFail \/ BootCold
           \/ Crash \/ Restore \/ UNCHANGED vars
BY DEF Next, UseCache

\* Saving, failing to save and a cold start leave the cache alone.
LEMMA StoreFrame ==
    ASSUME SaveStart \/ WriteFile \/ SaveFail \/ BootCold \/ UNCHANGED vars
    PROVE  UNCHANGED cacheVars /\ restored' = restored
BY DEF SaveStart, WriteFile, SaveFail, BootCold, vars, storeVars

-----------------------------------------------------------------------------
(* Types. *)

\* Types of the cache, and of the store below it.
CacheTypes ==
    /\ capacity \in Capacities
    /\ lru \in Seq(Prefixes)
    /\ handle \in [Prefixes -> Handles \cup {0}]
    /\ refs \in [Prefixes -> Nat]
    /\ nextID \in Handles \cup {0}
    /\ job \in Jobs
    /\ want \in [Requests -> Prompts \cup {<<>>}]
    /\ got \in [Requests -> Seq(Handles)]
    /\ pins \in [Requests -> SUBSET Handles]
    /\ reading \in [Requests -> SUBSET Prefixes]
    /\ kv \in [Handles -> Blocks]

StoreTypes ==
    /\ up \in BOOLEAN
    /\ snap \in Listing
    /\ todo \subseteq Handles \cup {ManifestFile}
    /\ manifest \in Manifests
    /\ blob \in [Handles -> Blocks]
    /\ restored \in Nat
    /\ clean \in BOOLEAN

\* The types of the cache and those of its directory.
LEMMA TypeParts == TypeOK <=> CacheTypes /\ StoreTypes
BY DEF TypeOK, CacheTypes, StoreTypes

\* Pin adds a reader to every resident block behind the handles.
LEMMA PinEffect ==
    ASSUME TypeOK, NEW r \in Requests, Pin(r)
    PROVE  /\ job.kind = "idle" /\ pins[r] = {}
           /\ Range(got[r]) \in SUBSET Handles
           /\ pins' = [pins EXCEPT ![r] = Range(got[r])]
           /\ reading' = [reading EXCEPT ![r] = Behind(Range(got[r]))]
           /\ refs' \in [Prefixes -> Nat]
           /\ \A p \in Prefixes : refs'[p] = IF handle[p] # 0 /\ handle[p] \in Range(got[r])
                                           THEN refs[p] + 1 ELSE refs[p]
           /\ UNCHANGED <<capacity, lru, handle, nextID, job, want, got, kv>>
<1>1. got[r] \in Seq(Handles)
  BY DEF TypeOK
<1>2. Range(got[r]) \in SUBSET Handles
  BY <1>1 DEF Range
<1>3. refs' = [p \in Prefixes |-> IF p \in Behind(Range(got[r])) THEN refs[p] + 1 ELSE refs[p]]
  BY DEF Pin
<1>4. refs' \in [Prefixes -> Nat]
  BY <1>3 DEF TypeOK
<1>5. \A p \in Prefixes : p \in Behind(Range(got[r])) <=> handle[p] # 0 /\ handle[p] \in Range(got[r])
  BY DEF Behind, Resident
<1>6. /\ job = Idle /\ pins[r] = {}
      /\ pins' = [pins EXCEPT ![r] = Range(got[r])]
      /\ reading' = [reading EXCEPT ![r] = Behind(Range(got[r]))]
      /\ UNCHANGED <<capacity, lru, handle, nextID, job, want, got, kv>>
  BY DEF Pin
<1> QED BY <1>2, <1>3, <1>4, <1>5, <1>6, JobFacts

\* Unpin takes a reader from each block that has one behind the request's pins.
LEMMA UnpinEffect ==
    ASSUME TypeOK, NEW r \in Requests, Unpin(r)
    PROVE  /\ job.kind = "idle"
           /\ pins' = [pins EXCEPT ![r] = {}]
           /\ reading' = [reading EXCEPT ![r] = {}]
           /\ refs' \in [Prefixes -> Nat]
           /\ \A p \in Prefixes : refs'[p] = IF handle[p] # 0 /\ handle[p] \in pins[r] /\ refs[p] > 0
                                           THEN refs[p] - 1 ELSE refs[p]
           /\ UNCHANGED <<capacity, lru, handle, nextID, job, want, got, kv>>
<1>1. PICK bs \in SUBSET Prefixes : bs = Behind(pins[r]) \cap Pinned
  BY DEF Pinned
<1>2. /\ job = Idle
      /\ pins' = [pins EXCEPT ![r] = {}]
      /\ reading' = [reading EXCEPT ![r] = {}]
      /\ refs' = [p \in Prefixes |-> IF p \in bs THEN refs[p] - 1 ELSE refs[p]]
      /\ UNCHANGED <<capacity, lru, handle, nextID, job, want, got, kv>>
  BY <1>1 DEF Unpin, Release
<1>3. \A p \in Prefixes : p \in bs <=> handle[p] # 0 /\ handle[p] \in pins[r] /\ refs[p] > 0
  BY <1>1 DEF Behind, Resident, Pinned
<1>4. refs' \in [Prefixes -> Nat]
  BY <1>2, <1>3 DEF TypeOK
<1> QED BY <1>2, <1>3, <1>4, JobFacts

\* A call of the cache keeps the types.
LEMMA CallTypes ==
    ASSUME TypeOK, JobInv, ListMatchesMap, CacheNext
    PROVE  CacheTypes'
<1> USE DEF CacheTypes
<1>0. /\ capacity \in Capacities
      /\ lru \in Seq(Prefixes)
      /\ handle \in [Prefixes -> Handles \cup {0}]
      /\ refs \in [Prefixes -> Nat]
      /\ nextID \in Handles \cup {0}
      /\ job \in Jobs
      /\ want \in [Requests -> Prompts \cup {<<>>}]
      /\ got \in [Requests -> Seq(Handles)]
      /\ pins \in [Requests -> SUBSET Handles]
      /\ reading \in [Requests -> SUBSET Prefixes]
      /\ kv \in [Handles -> Blocks]
  BY DEF TypeOK
<1>1. ASSUME NEW kind \in {"match", "insert"}, NEW r \in Requests, NEW t \in Prompts, Start(kind, r, t)
      PROVE  CacheTypes'
  BY <1>0, <1>1, StartEffect
<1>2. ASSUME NEW r \in Requests, Pin(r)
      PROVE  CacheTypes'
  <2>1. Behind(Range(got[r])) \in SUBSET Prefixes
    BY DEF Behind
  <2> QED BY <1>0, <1>2, <2>1, PinEffect
<1>3. ASSUME NEW r \in Requests, Unpin(r)
      PROVE  CacheTypes'
  BY <1>0, <1>3, UnpinEffect
<1>4. ASSUME NEW kind \in {"match", "insert"}, Reuse(kind)
      PROVE  CacheTypes'
  <2>1. PICK p \in Prefixes : handle[p] \in Handles /\ got' = [got EXCEPT ![job.req] = Append(@, handle[p])]
    BY <1>4, ReuseEffect
  <2>2. job.req \in Requests /\ job' \in Jobs /\ lru' \in Seq(Prefixes)
        /\ UNCHANGED <<capacity, handle, refs, nextID, want, pins, reading, kv>>
    BY <1>4, ReuseEffect DEF IsList
  <2>3. got' \in [Requests -> Seq(Handles)]
    BY <1>0, <2>1, <2>2
  <2> QED BY <1>0, <2>2, <2>3
<1>5. CASE InsertNew
  <2>1. Prefixes \subseteq Blocks
    BY DEF Blocks
  <2>2. /\ job.req \in Requests /\ job' \in Jobs /\ nextID' \in Handles
        /\ got' = [got EXCEPT ![job.req] = Append(@, nextID')]
        /\ UNCHANGED <<capacity, refs, want, pins, reading>>
    BY <1>5, InsertEffect
  <2>3. PICK p \in Prefixes : /\ handle' = [handle EXCEPT ![p] = nextID']
                            /\ kv' = [kv EXCEPT ![nextID'] = p]
                            /\ lru' \in Seq(Prefixes)
    BY <1>5, InsertEffect DEF IsList
  <2>4. got' \in [Requests -> Seq(Handles)]
    BY <1>0, <2>2
  <2>5. handle' \in [Prefixes -> Handles \cup {0}] /\ kv' \in [Handles -> Blocks]
    BY <1>0, <2>1, <2>2, <2>3
  <2> QED BY <1>0, <2>2, <2>3, <2>4, <2>5
<1>6. CASE EvictOne
  BY <1>0, <1>6, EvictEffect DEF IsList
<1>7. CASE MatchEnd \/ InsertEnd \/ EvictEnd
  BY <1>0, <1>7, EndEffect
<1>8. \A r \in Requests, t \in Prompts : StartInsert(r, t) => Start("insert", r, t)
  BY DEF StartInsert
<1> QED BY <1>1, <1>2, <1>3, <1>4, <1>5, <1>6, <1>7, <1>8, CacheKinds

\* What a list gives a block is the handle of one of its records, or nothing.
LEMMA HandleInFacts ==
    ASSUME NEW list \in Listing, NEW p \in Prefixes
    PROVE  \/ \E i \in DOMAIN list : list[i][1] = p /\ list[i][2] = HandleIn(list, p)
           \/ HandleIn(list, p) = 0 /\ \A i \in DOMAIN list : list[i][1] # p
<1> DEFINE at == {i \in DOMAIN list : list[i][1] = p}
<1>1. CASE at = {}
  BY <1>1 DEF HandleIn
<1>2. CASE at # {}
  <2>1. DOMAIN list = 1 .. Len(list) /\ Len(list) \in Nat
    BY DEF Listing
  <2>2. IsFiniteSet(1 .. Len(list)) /\ 1 .. Len(list) \subseteq Nat
    BY <2>1, FS_Interval
  <2>3. IsFiniteSet(at) /\ at \subseteq Nat
    BY <2>1, <2>2, FS_Subset
  <2>4. Max(at) \in at
    BY <1>2, <2>3, MaxIsGreatest
  <2>5. HandleIn(list, p) = list[Max(at)][2]
    BY <1>2 DEF HandleIn
  <2> QED BY <2>4, <2>5
<1> QED BY <1>1, <1>2

\* A restart gives the cache the blocks and handles of the manifest, and the
\* bytes of its files.
LEMMA RestoreEffect ==
    ASSUME TypeOK, ListsInv, Restore
    PROVE  /\ ~up /\ up' = TRUE
           /\ manifest.state = "written"
           /\ IsList(lru') /\ Len(lru') = Len(manifest.list)
           /\ restored' = Len(manifest.list) /\ restored' \in Nat
           /\ handle' \in [Prefixes -> Handles \cup {0}]
           /\ \A p \in Prefixes : p \in Range(lru') <=> handle'[p] # 0
           /\ \A p \in Prefixes : handle'[p] # 0 =>
                  \E i \in DOMAIN manifest.list :
                      manifest.list[i][1] = p /\ manifest.list[i][2] = handle'[p]
           /\ \A p \in Prefixes : handle'[p] <= nextID'
           /\ nextID' \in Handles \cup {0}
           /\ kv' \in [Handles -> Blocks]
           /\ \A i \in DOMAIN manifest.list :
                  /\ kv'[manifest.list[i][2]] = blob[manifest.list[i][2]]
                  /\ blob[manifest.list[i][2]] # NoBlock
           /\ UNCHANGED <<capacity, refs, job, want, got, pins, reading, diskVars, clean>>
<1>1. PICK saved \in Listing : saved = manifest.list
  BY DEF TypeOK, Manifests
<1>2. /\ DOMAIN saved = 1 .. Len(saved) /\ Len(saved) \in Nat
      /\ \A i \in DOMAIN saved : saved[i] \in Prefixes \X Handles
  BY DEF Listing
<1>3. \A i \in DOMAIN saved : saved[i][1] \in Prefixes /\ saved[i][2] \in Handles
  BY <1>2
<1>4. /\ ~up /\ up' = TRUE
      /\ Restorable
      /\ lru' = [i \in DOMAIN saved |-> saved[i][1]]
      /\ handle' = [p \in Prefixes |-> HandleIn(saved, p)]
      /\ kv' = [h \in Handles |-> IF \E i \in DOMAIN saved : saved[i][2] = h THEN blob[h] ELSE NoBlock]
      /\ restored' = Len(saved)
      /\ nextID' = Max({0} \cup {saved[i][2] : i \in DOMAIN saved})
      /\ UNCHANGED <<capacity, refs, job, want, got, pins, reading, diskVars, clean>>
  BY <1>1 DEF Restore, RestoreFrom
<1>5. manifest.state = "written" /\ \A i \in DOMAIN saved : blob[saved[i][2]] # NoBlock
  BY <1>1, <1>4 DEF Restorable, Readable, BlobsLoad
<1>6. \A i, j \in DOMAIN saved : saved[i][1] = saved[j][1] => i = j
  BY <1>1 DEF ListsInv, OnceEach
<1>7. IsList(lru') /\ Len(lru') = Len(saved)
  <2>1. lru' \in Seq(Prefixes) /\ Len(lru') = Len(saved)
    BY <1>2, <1>3, <1>4
  <2>2. IsInjective(lru')
    BY <1>4, <1>6 DEF IsInjective
  <2> QED BY <2>1, <2>2 DEF IsList
<1>8. \A p \in Prefixes :
          \/ \E i \in DOMAIN saved : saved[i][1] = p /\ saved[i][2] = handle'[p]
          \/ handle'[p] = 0 /\ \A i \in DOMAIN saved : saved[i][1] # p
  BY <1>4, HandleInFacts
<1>9. handle' \in [Prefixes -> Handles \cup {0}]
  <2>1. \A p \in Prefixes : handle'[p] \in Handles \cup {0}
    BY <1>3, <1>8
  <2> QED BY <1>4, <2>1
<1>10. \A p \in Prefixes : p \in Range(lru') <=> handle'[p] # 0
  <2>1. \A p \in Prefixes : p \in Range(lru') <=> \E i \in DOMAIN saved : saved[i][1] = p
    BY <1>4 DEF Range
  <2> QED BY <1>3, <1>8, <2>1, HandleFacts
<1>11. /\ nextID' \in Handles \cup {0}
       /\ \A i \in DOMAIN saved : saved[i][2] <= nextID'
  <2> DEFINE hs == {0} \cup {saved[i][2] : i \in DOMAIN saved}
  <2>1. hs \in SUBSET (Handles \cup {0}) /\ hs # {}
    BY <1>3
  <2>2. IsFiniteSet(Handles \cup {0})
    <3>1. IsFiniteSet(Handles)
      BY FS_Interval, CacheAssumption DEF Handles
    <3> QED BY <3>1, FS_AddElement
  <2>3. IsFiniteSet(hs) /\ hs \in SUBSET Nat
    <3>1. Handles \cup {0} \subseteq Nat
      BY HandleFacts
    <3> HIDE DEF hs
    <3>2. hs \in SUBSET Nat
      BY <2>1, <3>1
    <3>3. IsFiniteSet(hs)
      BY <2>1, <2>2, FS_Subset
    <3> QED BY <3>2, <3>3
  <2>4. Max(hs) \in hs /\ \A x \in hs : x <= Max(hs)
    BY <2>1, <2>3, MaxIsGreatest
  <2>5. nextID' = Max(hs)
    BY <1>4
  <2> QED BY <2>1, <2>4, <2>5
<1>12. \A p \in Prefixes : handle'[p] <= nextID'
  BY <1>3, <1>8, <1>11, HandleFacts
<1>13. /\ kv' \in [Handles -> Blocks]
       /\ \A i \in DOMAIN saved : kv'[saved[i][2]] = blob[saved[i][2]]
  <2>1. \A h \in Handles : blob[h] \in Blocks
    BY DEF TypeOK
  <2>2. NoBlock \in Blocks
    BY DEF Blocks
  <2> QED BY <1>3, <1>4, <2>1, <2>2
<1> QED BY <1>1, <1>2, <1>4, <1>5, <1>7, <1>8, <1>9, <1>10, <1>11, <1>12, <1>13

\* What is in the directory after a write that did not end.
LEMMA InterruptEffect ==
    ASSUME TypeOK, ListsInv, Interrupt
    PROVE  /\ manifest' \in Manifests /\ blob' \in [Handles -> Blocks]
           /\ OnceEach(manifest'.list)
           /\ todo = {} => UNCHANGED <<manifest, blob>>
<1>1. TornManifest \in Manifests /\ TornManifest.list = <<>>
  BY DEF Manifests, TornManifest, Listing
<1>2. Torn \in Blocks
  BY DEF Blocks
<1>3. \A f \in Pending : f \in Handles \cup {ManifestFile}
  BY DEF Pending, TypeOK
<1>4. OnceEach(<<>>) /\ OnceEach(manifest.list)
  BY DEF OnceEach, ListsInv
<1>5. CASE UNCHANGED <<manifest, blob>>
  BY <1>4, <1>5 DEF TypeOK
<1>6. ASSUME NEW f \in Pending, Holding(f, TornManifest, Torn)
      PROVE  /\ manifest' \in Manifests /\ blob' \in [Handles -> Blocks]
             /\ OnceEach(manifest'.list)
             /\ todo # {}
  <2>1. manifest' \in {manifest, TornManifest}
    BY <1>6 DEF Holding
  <2>2. manifest' \in Manifests /\ OnceEach(manifest'.list)
    BY <1>1, <1>4, <2>1 DEF TypeOK
  <2>3. blob' \in [Handles -> Blocks]
    BY <1>2, <1>3, <1>6 DEF Holding, TypeOK
  <2>4. todo # {}
    BY <1>6 DEF Pending
  <2> QED BY <2>2, <2>3, <2>4
<1> QED BY <1>5, <1>6 DEF Interrupt

\* A snapshot lists the resident blocks, each once.
LEMMA SnapshotFacts ==
    ASSUME TypeOK, ListMatchesMap
    PROVE  /\ Snapshot \in Listing
           /\ OnceEach(Snapshot)
           /\ DOMAIN Snapshot = 1 .. Len(lru)
           /\ \A i \in 1 .. Len(lru) :
                  /\ Snapshot[i][1] = lru[i] /\ Snapshot[i][2] = handle[lru[i]]
                  /\ lru[i] \in Prefixes /\ handle[lru[i]] \in Handles
<1>1. /\ Len(lru) \in Nat /\ DOMAIN lru = 1 .. Len(lru) /\ IsInjective(lru)
      /\ \A p \in Prefixes : p \in Range(lru) <=> handle[p] # 0
      /\ Range(lru) \subseteq Prefixes
  BY LruFacts DEF IsList
<1>2. \A i \in 1 .. Len(lru) : lru[i] \in Prefixes /\ handle[lru[i]] \in Handles
  BY <1>1 DEF TypeOK, Range
<1>3. PICK l : l = Snapshot
  OBVIOUS
<1>4. /\ l \in Listing /\ DOMAIN l = 1 .. Len(lru)
      /\ \A i \in 1 .. Len(lru) : l[i] = <<lru[i], handle[lru[i]]>>
  BY <1>1, <1>2, <1>3 DEF Snapshot, Listing
<1>5. \A i \in 1 .. Len(lru) : l[i][1] = lru[i] /\ l[i][2] = handle[lru[i]]
  BY <1>4
<1>6. \A i, j \in 1 .. Len(lru) : lru[i] = lru[j] \/ handle[lru[i]] = handle[lru[j]] => i = j
  <2>1. \A p, q \in Prefixes : handle[p] # 0 /\ handle[p] = handle[q] => p = q
    BY DEF ListMatchesMap, Resident
  <2> QED BY <1>1, <1>2, <2>1, HandleFacts DEF IsInjective
<1>7. OnceEach(l)
  BY <1>4, <1>5, <1>6 DEF OnceEach
<1> QED BY <1>2, <1>3, <1>4, <1>5, <1>7

\* The first states are well typed.
LEMMA InitType == Init => TypeOK
<1> SUFFICES ASSUME Init
             PROVE  TypeOK
  OBVIOUS
<1>1. CacheTypes
  <2>1. NoBlock \in Blocks
    BY DEF Blocks
  <2> QED BY <2>1, JobFacts DEF Init, CacheInit, CacheTypes, Uncached, Unpinned, NoCalls, NoPins, NoState
<1>2. StoreTypes
  <2>1. Absent \in Manifests
    BY DEF Absent, Manifests, Listing
  <2>2. NoBlock \in Blocks /\ snap \in Listing
    BY DEF Init, Blocks, Listing
  <2> QED BY <2>1, <2>2 DEF Init, StoreTypes
<1> QED BY <1>1, <1>2, TypeParts

\* Every step keeps the types.
LEMMA TypeStep ==
    TypeOK /\ JobInv /\ ListMatchesMap /\ ListsInv /\ [Next]_vars => TypeOK'
<1> SUFFICES ASSUME TypeOK, JobInv, ListMatchesMap, ListsInv, [Next]_vars
             PROVE  CacheTypes' /\ StoreTypes'
  BY DEF TypeOK, CacheTypes, StoreTypes
<1>0. CacheTypes /\ StoreTypes
  BY TypeParts
<1>1. CASE CacheNext /\ UNCHANGED storeVars
  <2>1. CacheTypes'
    BY <1>1, CallTypes
  <2>2. StoreTypes'
    BY <1>0, <1>1 DEF StoreTypes, storeVars, diskVars
  <2> QED BY <2>1, <2>2
<1>2. CASE SaveStart \/ WriteFile \/ SaveFail \/ BootCold \/ UNCHANGED vars
  <2>1. UNCHANGED cacheVars /\ restored' = restored
    BY <1>2, StoreFrame
  <2>2. CacheTypes'
    BY <1>0, <2>1 DEF CacheTypes, cacheVars
  <2>3. CASE SaveStart
    <3>1. \A p \in Range(lru) : handle[p] \in Handles
      BY LruFacts DEF TypeOK
    <3>2. snap' = Snapshot /\ todo' \subseteq Handles \cup {ManifestFile}
          /\ UNCHANGED <<up, manifest, blob, clean>>
      BY <2>3, <3>1 DEF SaveStart
    <3> QED BY <1>0, <2>1, <2>2, <3>2, SnapshotFacts DEF StoreTypes
  <2>4. CASE WriteFile
    <3>1. PICK f \in Handles \cup {ManifestFile} :
              /\ Holding(f, Written(snap), IF f \in Handles THEN kv[f] ELSE NoBlock)
              /\ todo' = todo \ {f}
      BY <1>0, <2>4 DEF WriteFile, Pending, StoreTypes
    <3>2. Written(snap) \in Manifests
      BY <1>0 DEF Written, Manifests, StoreTypes
    <3>3. manifest' \in Manifests
      BY <1>0, <3>1, <3>2 DEF Holding, StoreTypes
    <3>4. f \in Handles => kv[f] \in Blocks
      BY <1>0 DEF CacheTypes
    <3>5. blob' \in [Handles -> Blocks]
      BY <1>0, <3>1, <3>4 DEF Holding, StoreTypes
    <3>6. UNCHANGED <<up, snap, clean>>
      BY <2>4 DEF WriteFile
    <3> QED BY <1>0, <2>1, <2>2, <3>1, <3>3, <3>5, <3>6 DEF StoreTypes
  <2>5. CASE SaveFail
    <3>1. manifest' \in Manifests /\ blob' \in [Handles -> Blocks]
      BY <2>5, InterruptEffect DEF SaveFail
    <3>2. todo' = {} /\ snap' = <<>> /\ clean' = FALSE /\ up' = up
      BY <2>5 DEF SaveFail
    <3>3. snap' \in Listing
      BY <3>2 DEF Listing
    <3> QED BY <1>0, <2>1, <2>2, <3>1, <3>2, <3>3 DEF StoreTypes
  <2>6. CASE BootCold
    <3>1. up' \in BOOLEAN /\ UNCHANGED <<diskVars, clean>>
      BY <2>6 DEF BootCold
    <3> QED BY <1>0, <2>1, <2>2, <3>1 DEF StoreTypes, diskVars
  <2>7. CASE UNCHANGED vars
    BY <1>0, <2>2, <2>7 DEF StoreTypes, vars, storeVars, diskVars
  <2> QED BY <1>2, <2>3, <2>4, <2>5, <2>6, <2>7
<1>3. CASE Crash
  <2>1. CacheTypes'
    <3>1. NoBlock \in Blocks
      BY DEF Blocks
    <3> QED BY <1>3, <3>1, JobFacts DEF Crash, Renew, CacheTypes, Uncached, Unpinned, NoCalls, NoPins, NoState
  <2>2. manifest' \in Manifests /\ blob' \in [Handles -> Blocks]
    BY <1>3, InterruptEffect DEF Crash
  <2>3. up' = FALSE /\ todo' = {} /\ snap' = <<>> /\ restored' = 0
    BY <1>3 DEF Crash
  <2>5. snap' \in Listing
    BY <2>3 DEF Listing
  <2>4. clean' \in BOOLEAN
    BY <1>3, Zenon DEF Crash
  <2> QED BY <2>1, <2>2, <2>3, <2>4, <2>5 DEF StoreTypes
<1>4. CASE Restore
  <2>1. CacheTypes'
    BY <1>0, <1>4, RestoreEffect DEF CacheTypes, IsList
  <2>2. restored' \in Nat /\ up' \in BOOLEAN /\ UNCHANGED <<diskVars, clean>>
    BY <1>4, RestoreEffect
  <2> QED BY <1>0, <2>1, <2>2 DEF StoreTypes, diskVars
<1> QED BY <1>1, <1>2, <1>3, <1>4, StepKinds

-----------------------------------------------------------------------------
(* The cache. *)

\* A call returns one handle per block it went past, and issues no handle the
\* bound does not allow.
LEMMA JobStep ==
    TypeOK /\ JobInv /\ ListMatchesMap /\ DownInv /\ ListsInv /\ [Next]_vars => JobInv'
<1> SUFFICES ASSUME TypeOK, JobInv, ListMatchesMap, DownInv, ListsInv, [Next]_vars
             PROVE  JobInv'
  OBVIOUS
<1>0. /\ nextID \in Nat /\ MaxHandle \in Nat
      /\ \A r \in Requests : want[r] \in Prompts => Len(want[r]) \in Nat
      /\ \A r \in Requests : Len(got[r]) \in Nat
  BY PrefixFacts, HandleFacts, CacheAssumption DEF TypeOK
<1>1. ASSUME NEW kind \in {"match", "insert"}, NEW r \in Requests, NEW t \in Prompts, Start(kind, r, t),
             kind = "insert" => nextID + Len(t) <= MaxHandle
      PROVE  JobInv'
  <2>1. /\ job'.kind = kind /\ job'.req = r /\ job'.i = 1 /\ want'[r] = t /\ got'[r] = <<>>
        /\ nextID' = nextID
    BY <1>1, StartEffect
  <2>2. nextID + Len(t) + 1 - 1 = nextID + Len(t) /\ Len(<<>>) = 1 - 1
    BY <1>0, PrefixFacts
  <2> QED BY <1>1, <2>1, <2>2 DEF JobInv
<1>2. ASSUME NEW r \in Requests, Pin(r) \/ Unpin(r)
      PROVE  JobInv'
  <2>1. UNCHANGED <<nextID, job, want, got>>
    BY <1>2 DEF Pin, Unpin, Release
  <2> QED BY <2>1 DEF JobInv
<1>3. ASSUME NEW kind \in {"match", "insert"}, Reuse(kind)
      PROVE  JobInv'
  <2>1. /\ job.kind = kind /\ job.req \in Requests /\ job.i \in Nat
        /\ job'.kind = kind /\ job'.req = job.req /\ job'.i = job.i + 1
        /\ UNCHANGED <<nextID, want>>
    BY <1>3, ReuseEffect
  <2>2. PICK h \in Handles : got' = [got EXCEPT ![job.req] = Append(@, h)]
    BY <1>3, ReuseEffect
  <2>3. Len(got'[job.req]) = Len(got[job.req]) + 1
    BY <2>1, <2>2 DEF TypeOK
  <2>4. want[job.req] \in Prompts /\ Len(got[job.req]) = job.i - 1
        /\ (kind = "insert" => nextID + Len(want[job.req]) + 1 - job.i <= MaxHandle)
    BY <2>1 DEF JobInv
  <2>5. kind = "insert" => nextID + Len(want[job.req]) + 1 - (job.i + 1) <= MaxHandle
    BY SMTT(30), <1>0, <2>1, <2>4
  <2>6. Len(got'[job.req]) = (job.i + 1) - 1 /\ job.i + 1 >= 1
    BY <1>0, <2>1, <2>3, <2>4
  <2> QED BY <2>1, <2>4, <2>5, <2>6 DEF JobInv
<1>4. CASE InsertNew
  <2>1. /\ job.kind = "insert" /\ job.req \in Requests /\ job.i \in Nat
        /\ job'.kind = "evict" /\ job'.req = job.req /\ job'.i = job.i
        /\ nextID' = nextID + 1 /\ nextID' \in Handles
        /\ got' = [got EXCEPT ![job.req] = Append(@, nextID')]
        /\ want' = want
    BY <1>4, InsertEffect
  <2>2. Len(got'[job.req]) = Len(got[job.req]) + 1
    BY <2>1 DEF TypeOK
  <2>3. want[job.req] \in Prompts /\ job.i >= 1 /\ Len(got[job.req]) = job.i - 1
        /\ nextID + Len(want[job.req]) + 1 - job.i <= MaxHandle
    BY <2>1 DEF JobInv
  <2>4. Len(got'[job.req]) = job.i
    BY <2>1, <2>2, <2>3
  <2>5. PICK m \in Nat : m = Len(want[job.req])
    BY <1>0, <2>1, <2>3
  <2>6. (nextID + 1) + m - job.i <= MaxHandle
    <3>1. nextID + m + 1 - job.i <= MaxHandle
      BY <2>3, <2>5
    <3> QED BY <1>0, <2>1, <3>1
  <2> QED BY <2>1, <2>3, <2>4, <2>5, <2>6 DEF JobInv
<1>5. CASE EvictOne
  <2>1. UNCHANGED <<nextID, job, want, got>>
    BY <1>5 DEF EvictOne
  <2> QED BY <2>1 DEF JobInv
<1>6. CASE MatchEnd \/ InsertEnd \/ EvictEnd
  <2>1. UNCHANGED <<nextID, want, got>>
    BY <1>6, EndEffect
  <2>2. CASE job' = Idle
    BY <2>2, JobFacts DEF JobInv
  <2>3. CASE job.kind = "evict" /\ job.req \in Requests /\ job.i \in Nat
             /\ job'.kind = "insert" /\ job'.req = job.req /\ job'.i = job.i + 1
    <3>1. want[job.req] \in Prompts /\ Len(got[job.req]) = job.i
          /\ nextID + Len(want[job.req]) - job.i <= MaxHandle
      BY <2>3 DEF JobInv
    <3>2. job.i = (job.i + 1) - 1 /\ job.i + 1 >= 1
          /\ nextID + Len(want[job.req]) + 1 - (job.i + 1) <= MaxHandle
      <4>1. PICK n \in Nat : n = Len(want[job.req])
        BY <1>0, <2>3, <3>1
      <4>2. nextID + n - job.i <= MaxHandle
        BY <3>1, <4>1
      <4>3. nextID + n + 1 - (job.i + 1) <= MaxHandle
        BY <1>0, <2>3, <4>2
      <4> QED BY <2>3, <4>1, <4>3
    <3> QED BY <2>1, <2>3, <3>1, <3>2 DEF JobInv
  <2> QED BY <1>6, <2>2, <2>3, EndEffect
<1>7. CASE SaveStart \/ WriteFile \/ SaveFail \/ BootCold \/ UNCHANGED vars
  BY <1>7, StoreFrame DEF JobInv, cacheVars
<1>8. CASE Crash
  BY <1>8, JobFacts DEF Crash, Renew, JobInv
<1>9. CASE Restore
  <2>1. job' = Idle
    BY <1>9, RestoreEffect DEF DownInv
  <2> QED BY <2>1, JobFacts DEF JobInv
<1>10. \A r \in Requests, t \in Prompts : StartInsert(r, t) => Start("insert", r, t) /\ nextID + Len(t) <= MaxHandle
  BY DEF StartInsert
<1>11. CASE CacheNext
  BY <1>1, <1>2, <1>3, <1>4, <1>5, <1>6, <1>10, <1>11, CacheKinds
<1> QED BY <1>7, <1>8, <1>9, <1>11, StepKinds

\* In terms of handles: the list and the map.
LEMMA ListMeans ==
    ListMatchesMap <=>
        /\ IsInjective(lru)
        /\ \A p \in Prefixes : p \in Range(lru) <=> handle[p] # 0
        /\ \A p, q \in Prefixes : handle[p] # 0 /\ handle[p] = handle[q] => p = q
        /\ \A p \in Prefixes : handle[p] <= nextID
BY DEF ListMatchesMap, Resident

\* The list and the map change together.
LEMMA ListStep ==
    TypeOK /\ JobInv /\ ListMatchesMap /\ ListsInv /\ [Next]_vars => ListMatchesMap'
<1> SUFFICES ASSUME TypeOK, JobInv, ListMatchesMap, ListsInv, [Next]_vars
             PROVE  /\ IsInjective(lru')
                    /\ \A p \in Prefixes : p \in Range(lru') <=> handle'[p] # 0
                    /\ \A p, q \in Prefixes : handle'[p] # 0 /\ handle'[p] = handle'[q] => p = q
                    /\ \A p \in Prefixes : handle'[p] <= nextID'
  BY DEF ListMatchesMap, Resident
<1>0. /\ nextID \in Nat /\ \A p \in Prefixes : handle[p] \in Nat /\ handle[p] <= nextID
      /\ IsInjective(lru)
      /\ \A p \in Prefixes : p \in Range(lru) <=> handle[p] # 0
      /\ \A p, q \in Prefixes : handle[p] # 0 /\ handle[p] = handle[q] => p = q
  <2>1. Handles \cup {0} \subseteq Nat
    BY HandleFacts
  <2>2. nextID \in Nat /\ \A p \in Prefixes : handle[p] \in Nat
    BY <2>1 DEF TypeOK
  <2> QED BY <2>2, ListMeans
<1>1. CASE UNCHANGED <<lru, handle, nextID>>
  BY <1>0, <1>1
<1>2. ASSUME NEW kind \in {"match", "insert"}, Reuse(kind)
      PROVE  IsInjective(lru') /\ Range(lru') = Range(lru) /\ UNCHANGED <<handle, nextID>>
  BY <1>2, ReuseEffect DEF IsList
<1>3. CASE InsertNew
  <2>1. PICK p \in Prefixes :
            /\ handle' = [handle EXCEPT ![p] = nextID']
            /\ IsInjective(lru') /\ Range(lru') = Range(lru) \cup {p}
    BY <1>3, InsertEffect DEF IsList
  <2>2. nextID' = nextID + 1
    BY <1>3, InsertEffect
  <2>3. handle'[p] = nextID + 1 /\ \A q \in Prefixes \ {p} : handle'[q] = handle[q]
    BY <2>1, <2>2 DEF TypeOK
  <2>4. \A q \in Prefixes : handle[q] # nextID + 1 /\ handle[q] <= nextID + 1
    BY <1>0
  <2>5. nextID + 1 # 0 /\ nextID + 1 <= nextID + 1
    BY <1>0
  <2> QED BY <1>0, <2>1, <2>2, <2>3, <2>4, <2>5
<1>4. CASE EvictOne
  <2>1. PICK p \in Prefixes :
            /\ handle' = [handle EXCEPT ![p] = 0]
            /\ IsInjective(lru') /\ Range(lru') = Range(lru) \ {p}
    BY <1>4, EvictEffect DEF IsList
  <2>2. nextID' = nextID
    BY <1>4, EvictEffect
  <2>3. handle'[p] = 0 /\ \A q \in Prefixes \ {p} : handle'[q] = handle[q]
    BY <2>1 DEF TypeOK
  <2> QED BY <1>0, <2>1, <2>2, <2>3
<1>5. CASE Crash
  BY <1>5 DEF Crash, Renew, Uncached, IsInjective, Range
<1>6. CASE Restore
  <2>1. /\ IsInjective(lru')
        /\ \A p \in Prefixes : p \in Range(lru') <=> handle'[p] # 0
        /\ \A p \in Prefixes : handle'[p] <= nextID'
    BY <1>6, RestoreEffect DEF IsList
  <2>2. ASSUME NEW p \in Prefixes, NEW q \in Prefixes, handle'[p] # 0, handle'[p] = handle'[q]
        PROVE  p = q
    <3>1. PICK i \in DOMAIN manifest.list : manifest.list[i][1] = p /\ manifest.list[i][2] = handle'[p]
      BY <1>6, <2>2, RestoreEffect
    <3>2. PICK j \in DOMAIN manifest.list : manifest.list[j][1] = q /\ manifest.list[j][2] = handle'[q]
      BY <1>6, <2>2, RestoreEffect
    <3>3. i = j
      BY <2>2, <3>1, <3>2 DEF ListsInv, OnceEach
    <3> QED BY <3>1, <3>2, <3>3
  <2> QED BY <2>1, <2>2
<1>7. CASE CacheNext
  <2>1. ASSUME \/ \E r \in Requests, t \in Prompts : Start("match", r, t) \/ Start("insert", r, t)
               \/ \E r \in Requests : Pin(r) \/ Unpin(r)
               \/ MatchEnd \/ InsertEnd \/ EvictEnd
        PROVE  UNCHANGED <<lru, handle, nextID>>
    BY <2>1 DEF Start, Pin, Unpin, Release, MatchEnd, InsertEnd, Finish, EvictEnd
  <2>2. \A kind \in {"match", "insert"} : Reuse(kind) =>
            IsInjective(lru') /\ Range(lru') = Range(lru) /\ UNCHANGED <<handle, nextID>>
    BY <1>2
  <2>3. \A r \in Requests, t \in Prompts : StartInsert(r, t) => Start("insert", r, t)
    BY DEF StartInsert
  <2>4. CASE \E kind \in {"match", "insert"} : Reuse(kind)
    BY <1>0, <2>2, <2>4
  <2> QED BY <1>1, <1>3, <1>4, <1>7, <2>1, <2>3, <2>4, CacheKinds
<1> QED BY <1>1, <1>5, <1>6, <1>7, StepKinds, StoreFrame DEF cacheVars

\* A request holds issued handles only, and an evicted block keeps no reader.
LEMMA IssuedStep ==
    TypeOK /\ JobInv /\ ListMatchesMap /\ IssuedInv /\ DownInv /\ ListsInv /\ [Next]_vars => IssuedInv'
<1> SUFFICES ASSUME TypeOK, JobInv, ListMatchesMap, IssuedInv, DownInv, ListsInv, [Next]_vars
             PROVE  /\ \A r \in Requests : \A i \in DOMAIN got'[r] : got'[r][i] <= nextID'
                    /\ \A r \in Requests : \A h \in pins'[r] : h <= nextID'
                    /\ \A p \in Prefixes : handle'[p] = 0 => refs'[p] = 0
  BY DEF IssuedInv, Resident
<1>0. /\ \A r \in Requests : \A i \in DOMAIN got[r] : got[r][i] <= nextID
      /\ \A r \in Requests : \A h \in pins[r] : h <= nextID
      /\ \A p \in Prefixes : handle[p] = 0 => refs[p] = 0
  BY DEF IssuedInv, Resident
<1>a. /\ nextID \in Nat
      /\ \A r \in Requests : \A h \in pins[r] : h \in Nat
      /\ \A r \in Requests : got[r] \in Seq(Handles) /\ \A i \in DOMAIN got[r] : got[r][i] \in Nat
      /\ \A p \in Prefixes : handle[p] <= nextID
  <2>1. Handles \cup {0} \subseteq Nat
    BY HandleFacts
  <2>2. nextID \in Nat /\ \A r \in Requests : \A h \in pins[r] : h \in Nat
    BY <2>1 DEF TypeOK
  <2>3. \A r \in Requests : got[r] \in Seq(Handles)
    BY DEF TypeOK
  <2>4. \A g \in Seq(Handles) : \A i \in DOMAIN g : g[i] \in Nat
    BY <2>1
  <2>5. \A p \in Prefixes : handle[p] <= nextID
    BY DEF ListMatchesMap
  <2> QED BY <2>2, <2>3, <2>4, <2>5
<1>1. CASE UNCHANGED <<handle, refs, nextID, got, pins>>
  BY <1>0, <1>1
<1>2. ASSUME NEW kind \in {"match", "insert"}, NEW r \in Requests, NEW t \in Prompts, Start(kind, r, t)
      PROVE  /\ \A q \in Requests : \A i \in DOMAIN got'[q] : got'[q][i] <= nextID
             /\ UNCHANGED <<handle, refs, nextID, pins>>
  <2>1. /\ got'[r] = <<>> /\ \A q \in Requests \ {r} : got'[q] = got[q]
        /\ UNCHANGED <<handle, refs, nextID, pins>>
    BY <1>2, StartEffect
  <2>2. DOMAIN <<>> = {}
    OBVIOUS
  <2> QED BY <1>0, <2>1, <2>2
<1>3. ASSUME NEW r \in Requests, NEW h \in Handles, h <= nextID', nextID \in Nat, nextID' \in Nat, nextID <= nextID',
             got' = [got EXCEPT ![r] = Append(@, h)]
      PROVE  \A q \in Requests : \A i \in DOMAIN got'[q] : got'[q][i] <= nextID'
  <2>1. \A q \in Requests \ {r} : got'[q] = got[q]
    BY <1>3 DEF TypeOK
  <2>2. PICK g \in Seq(Handles) : g = got[r]
    BY <1>a
  <2>3. got'[r] = Append(g, h)
    BY <1>3, <2>2 DEF TypeOK
  <2>4. \A i \in DOMAIN Append(g, h) : Append(g, h)[i] = h \/ (i \in DOMAIN g /\ Append(g, h)[i] = g[i])
    OBVIOUS
  <2>5. \A i \in DOMAIN got'[r] : got'[r][i] <= nextID'
    BY <1>0, <1>3, <1>a, <2>2, <2>3, <2>4
  <2>6. ASSUME NEW q \in Requests \ {r}, NEW i \in DOMAIN got[q]
        PROVE  got[q][i] <= nextID'
    BY <1>0, <1>3, <1>a
  <2> QED BY <2>1, <2>5, <2>6
<1>4. ASSUME NEW kind \in {"match", "insert"}, Reuse(kind)
      PROVE  /\ \A q \in Requests : \A i \in DOMAIN got'[q] : got'[q][i] <= nextID'
             /\ UNCHANGED <<handle, refs, nextID, pins>>
  <2>1. PICK p \in Prefixes : handle[p] \in Handles /\ got' = [got EXCEPT ![job.req] = Append(@, handle[p])]
    BY <1>4, ReuseEffect
  <2>2. job.req \in Requests /\ UNCHANGED <<handle, refs, nextID, pins>>
    BY <1>4, ReuseEffect
  <2>3. handle[p] <= nextID' /\ nextID' \in Nat /\ nextID <= nextID'
    BY <1>a, <2>2
  <2> QED BY <1>3, <1>a, <2>1, <2>2, <2>3
<1>5. CASE InsertNew
  <2>1. /\ job.req \in Requests /\ nextID' = nextID + 1 /\ nextID' \in Handles
        /\ got' = [got EXCEPT ![job.req] = Append(@, nextID')]
        /\ UNCHANGED <<refs, pins>>
    BY <1>5, InsertEffect
  <2>2. PICK p \in Prefixes : handle' = [handle EXCEPT ![p] = nextID']
    BY <1>5, InsertEffect
  <2>3. nextID' \in Nat /\ nextID <= nextID' /\ nextID' # 0 /\ nextID' <= nextID'
    BY <1>a, <2>1
  <2>4. \A q \in Requests : \A i \in DOMAIN got'[q] : got'[q][i] <= nextID'
    BY <1>3, <1>a, <2>1, <2>3
  <2>5. \A r \in Requests : \A h \in pins'[r] : h <= nextID'
    BY <1>0, <1>a, <2>1
  <2>6. \A q \in Prefixes : handle'[q] = 0 => handle[q] = 0
    BY <2>2, <2>3 DEF TypeOK
  <2> QED BY <1>0, <2>1, <2>4, <2>5, <2>6
<1>6. CASE EvictOne
  <2>1. PICK p \in Prefixes : refs[p] = 0 /\ handle' = [handle EXCEPT ![p] = 0]
    BY <1>6, EvictEffect
  <2>2. UNCHANGED <<refs, nextID, got, pins>>
    BY <1>6, EvictEffect
  <2>3. \A q \in Prefixes : q # p => handle'[q] = handle[q]
    BY <2>1 DEF TypeOK
  <2> QED BY <1>0, <2>1, <2>2, <2>3
<1>7. ASSUME NEW r \in Requests, Pin(r)
      PROVE  /\ \A q \in Requests : \A h \in pins'[q] : h <= nextID
             /\ \A p \in Prefixes : handle'[p] = 0 => refs'[p] = 0
             /\ UNCHANGED <<nextID, got>>
  <2>1. /\ pins' = [pins EXCEPT ![r] = Range(got[r])]
        /\ \A p \in Prefixes : refs'[p] = IF handle[p] # 0 /\ handle[p] \in Range(got[r])
                                        THEN refs[p] + 1 ELSE refs[p]
        /\ UNCHANGED <<handle, nextID, got>>
    BY <1>7, PinEffect
  <2>2. \A h \in Range(got[r]) : h <= nextID
    BY <1>0 DEF Range
  <2>3. \A q \in Requests : \A h \in pins'[q] : h <= nextID
    BY <1>0, <2>1, <2>2 DEF TypeOK
  <2> QED BY <1>0, <2>1, <2>3
<1>8. ASSUME NEW r \in Requests, Unpin(r)
      PROVE  /\ \A q \in Requests : \A h \in pins'[q] : h <= nextID
             /\ \A p \in Prefixes : handle'[p] = 0 => refs'[p] = 0
             /\ UNCHANGED <<nextID, got>>
  <2>1. /\ pins' = [pins EXCEPT ![r] = {}]
        /\ \A p \in Prefixes : refs'[p] = IF handle[p] # 0 /\ handle[p] \in pins[r] /\ refs[p] > 0
                                        THEN refs[p] - 1 ELSE refs[p]
        /\ UNCHANGED <<handle, nextID, got>>
    BY <1>8, UnpinEffect
  <2>2. \A q \in Requests : \A h \in pins'[q] : h <= nextID
    BY <1>0, <2>1 DEF TypeOK
  <2> QED BY <1>0, <2>1, <2>2
<1>9. CASE MatchEnd \/ InsertEnd \/ EvictEnd
  BY <1>1, <1>9, EndEffect
<1>10. CASE Crash
  BY <1>10 DEF Crash, Renew, Unpinned, NoCalls, NoPins
<1>11. CASE Restore
  <2>1. refs = Unpinned /\ got = NoCalls /\ pins = NoPins /\ UNCHANGED <<refs, got, pins>>
    BY <1>11, RestoreEffect DEF DownInv
  <2> QED BY <2>1 DEF Unpinned, NoCalls, NoPins
<1>12. CASE CacheNext
  <2>1. \A r \in Requests, t \in Prompts : StartInsert(r, t) => Start("insert", r, t)
    BY DEF StartInsert
  <2>2. CASE \E r \in Requests, t \in Prompts : Start("match", r, t) \/ StartInsert(r, t)
    <3>1. PICK kind \in {"match", "insert"}, r \in Requests, t \in Prompts : Start(kind, r, t)
      BY <2>1, <2>2
    <3> QED BY <1>0, <1>2, <3>1
  <2>3. CASE \E r \in Requests : Pin(r) \/ Unpin(r)
    BY <1>0, <1>7, <1>8, <2>3
  <2>4. CASE \E kind \in {"match", "insert"} : Reuse(kind)
    BY <1>0, <1>4, <2>4
  <2> QED BY <1>5, <1>6, <1>9, <1>12, <2>2, <2>3, <2>4, CacheKinds
<1> QED BY <1>1, <1>10, <1>11, <1>12, StepKinds, StoreFrame DEF cacheVars

\* The readers of a handle.
\* Handles are not issued twice in one life of the process.
LEMMA GotStep ==
    TypeOK /\ JobInv /\ ListMatchesMap /\ IssuedInv /\ GotInv /\ DownInv /\ ListsInv /\ [Next]_vars
        => GotInv'
<1> SUFFICES ASSUME TypeOK, JobInv, ListMatchesMap, IssuedInv, GotInv, DownInv, ListsInv, [Next]_vars
             PROVE  \A r \in Requests : \A i \in DOMAIN got'[r] : \A p \in Prefixes :
                        handle'[p] # 0 /\ handle'[p] = got'[r][i] => p = SubSeq(want'[r], 1, i)
  BY DEF GotInv, Resident
<1>0. /\ \A r \in Requests : \A i \in DOMAIN got[r] : \A p \in Prefixes :
             handle[p] # 0 /\ handle[p] = got[r][i] => p = SubSeq(want[r], 1, i)
      /\ \A r \in Requests : \A i \in DOMAIN got[r] : got[r][i] <= nextID
      /\ \A r \in Requests : got[r] \in Seq(Handles)
      /\ \A p, q \in Prefixes : handle[p] # 0 /\ handle[p] = handle[q] => p = q
      /\ nextID \in Nat
  BY HandleFacts DEF GotInv, Resident, IssuedInv, TypeOK, ListMatchesMap
<1>1. CASE UNCHANGED <<handle, got, want>>
  BY <1>0, <1>1
<1>2. ASSUME NEW kind \in {"match", "insert"}, NEW r \in Requests, NEW t \in Prompts, Start(kind, r, t),
             NEW q \in Requests, NEW i \in DOMAIN got'[q], NEW p \in Prefixes,
             handle'[p] # 0, handle'[p] = got'[q][i]
      PROVE  p = SubSeq(want'[q], 1, i)
  <2>1. /\ got'[r] = <<>> /\ handle' = handle
        /\ \A o \in Requests \ {r} : want'[o] = want[o] /\ got'[o] = got[o]
    BY <1>2, StartEffect
  <2>2. q # r
    BY <1>2, <2>1
  <2> QED BY <1>0, <1>2, <2>1, <2>2
<1>3. ASSUME NEW kind \in {"match", "insert"}, Reuse(kind),
             NEW q \in Requests, NEW i \in DOMAIN got'[q], NEW p \in Prefixes,
             handle'[p] # 0, handle'[p] = got'[q][i]
      PROVE  p = SubSeq(want'[q], 1, i)
  <2>1. /\ job.req \in Requests /\ job.i \in Nat /\ Len(got[job.req]) = job.i - 1
        /\ UNCHANGED <<handle, want>>
    BY <1>3, ReuseEffect DEF JobInv
  <2>2. PICK b \in Prefixes : /\ handle[b] \in Handles
                             /\ b = SubSeq(want[job.req], 1, job.i)
                             /\ got' = [got EXCEPT ![job.req] = Append(@, handle[b])]
    BY <1>3, ReuseEffect
  <2>3. CASE q = job.req
    <3>0. got'[q] = Append(got[q], handle[b])
      BY <2>1, <2>2, <2>3 DEF TypeOK
    <3>1. got'[q] = Append(got[q], handle[b]) /\ got[q] \in Seq(Handles) /\ Len(got[q]) + 1 = job.i
      BY <1>0, <2>1, <2>3, <3>0
    <3>2. CASE i = job.i
      <4>1. got'[q][i] = handle[b]
        BY <3>1, <3>2
      <4> QED BY <1>0, <1>3, <2>1, <2>2, <2>3, <3>2, <4>1
    <3>3. CASE i # job.i
      <4>1. i \in DOMAIN got[q] /\ got'[q][i] = got[q][i]
        BY <3>1, <3>3
      <4> QED BY <1>0, <1>3, <2>1, <4>1
    <3> QED BY <3>2, <3>3
  <2>4. CASE q # job.req
    <3>1. got'[q] = got[q]
      BY <2>1, <2>2, <2>4 DEF TypeOK
    <3> QED BY <1>0, <1>3, <2>1, <3>1
  <2> QED BY <2>3, <2>4
<1>4. ASSUME InsertNew,
             NEW q \in Requests, NEW i \in DOMAIN got'[q], NEW p \in Prefixes,
             handle'[p] # 0, handle'[p] = got'[q][i]
      PROVE  p = SubSeq(want'[q], 1, i)
  <2>1. /\ job.req \in Requests /\ job.i \in Nat /\ Len(got[job.req]) = job.i - 1
        /\ nextID' = nextID + 1 /\ nextID' \in Handles
        /\ got' = [got EXCEPT ![job.req] = Append(@, nextID')]
        /\ want' = want
    BY <1>4, InsertEffect DEF JobInv
  <2>2. PICK b \in Prefixes : /\ b = SubSeq(want[job.req], 1, job.i)
                             /\ handle' = [handle EXCEPT ![b] = nextID']
    BY <1>4, InsertEffect
  <2>3. handle'[b] = nextID' /\ \A o \in Prefixes \ {b} : handle'[o] = handle[o] /\ handle[o] <= nextID
    BY <2>2 DEF TypeOK, ListMatchesMap
  <2>4. \A o \in Prefixes : handle'[o] = nextID' => o = b
    BY <1>0, <2>1, <2>3, HandleFacts DEF TypeOK
  <2>5. ASSUME i \in DOMAIN got[q], got'[q][i] = got[q][i]
        PROVE  p = SubSeq(want'[q], 1, i)
    <3>1. got[q][i] <= nextID
      BY <1>0, <2>5
    <3>2. p # b
      BY <1>0, <1>4, <2>1, <2>3, <2>5, <3>1
    <3> QED BY <1>0, <1>4, <2>1, <2>3, <2>5, <3>2
  <2>6. CASE q = job.req
    <3>0. got'[q] = Append(got[q], nextID')
      BY <2>1, <2>6 DEF TypeOK
    <3>1. got'[q] = Append(got[q], nextID') /\ got[q] \in Seq(Handles) /\ Len(got[q]) + 1 = job.i
      BY <1>0, <2>1, <2>6, <3>0
    <3>2. CASE i = job.i
      <4>1. got'[q][i] = nextID'
        BY <3>1, <3>2
      <4> QED BY <1>4, <2>1, <2>2, <2>4, <2>6, <3>2, <4>1
    <3>3. CASE i # job.i
      <4>1. i \in DOMAIN got[q] /\ got'[q][i] = got[q][i]
        BY <3>1, <3>3
      <4> QED BY <2>5, <4>1
    <3> QED BY <3>2, <3>3
  <2>7. CASE q # job.req
    <3>1. got'[q] = got[q]
      BY <2>1, <2>7 DEF TypeOK
    <3> QED BY <2>5, <3>1
  <2> QED BY <2>6, <2>7
<1>5. CASE EvictOne
  <2>1. PICK p \in Prefixes : handle' = [handle EXCEPT ![p] = 0]
    BY <1>5, EvictEffect
  <2>2. UNCHANGED <<got, want>>
    BY <1>5, EvictEffect
  <2>3. \A q \in Prefixes : handle'[q] # 0 => handle'[q] = handle[q]
    BY <2>1 DEF TypeOK
  <2> QED BY <1>0, <2>2, <2>3
<1>6. CASE Crash
  BY <1>6 DEF Crash, Renew, Uncached
<1>7. CASE Restore
  <2>1. got = NoCalls /\ got' = got
    BY <1>7, RestoreEffect DEF DownInv
  <2> QED BY <2>1 DEF NoCalls
<1>8. CASE CacheNext
  <2>1. ASSUME (\E r \in Requests : Pin(r) \/ Unpin(r)) \/ MatchEnd \/ InsertEnd \/ EvictEnd
        PROVE  UNCHANGED <<handle, got, want>>
    BY <2>1 DEF Pin, Unpin, Release, MatchEnd, InsertEnd, Finish, EvictEnd
  <2>2. \A r \in Requests, t \in Prompts : StartInsert(r, t) => Start("insert", r, t)
    BY DEF StartInsert
  <2> QED BY <1>1, <1>2, <1>3, <1>4, <1>5, <1>8, <2>1, <2>2, CacheKinds
<1> QED BY <1>1, <1>6, <1>7, <1>8, StepKinds, StoreFrame DEF cacheVars

Readers(h) == {r \in Requests : h \in pins[r]}

\* Pin and Unpin count exactly the requests that hold a handle.
LEMMA RefsStep ==
    TypeOK /\ JobInv /\ ListMatchesMap /\ IssuedInv /\ RefsExact /\ DownInv /\ ListsInv /\ [Next]_vars
        => RefsExact'
<1> SUFFICES ASSUME TypeOK, JobInv, ListMatchesMap, IssuedInv, RefsExact, DownInv, ListsInv, [Next]_vars
             PROVE  \A p \in Prefixes : handle'[p] # 0 =>
                        refs'[p] = Cardinality({r \in Requests : handle'[p] \in pins'[r]})
  BY DEF RefsExact, Resident
<1>0. /\ \A p \in Prefixes : handle[p] # 0 => refs[p] = Cardinality(Readers(handle[p]))
      /\ \A p \in Prefixes : handle[p] = 0 => refs[p] = 0
      /\ \A r \in Requests : \A h \in pins[r] : h <= nextID
  BY DEF RefsExact, IssuedInv, Resident, Readers
<1>a. \A h : IsFiniteSet(Readers(h)) /\ Cardinality(Readers(h)) \in Nat
  BY CacheAssumption, FS_Subset, FS_CardinalityType DEF Readers
<1>1. CASE UNCHANGED <<handle, refs, pins>>
  BY <1>0, <1>1 DEF Readers
<1>2. CASE InsertNew
  <2>1. nextID' = nextID + 1 /\ UNCHANGED <<refs, pins>>
    BY <1>2, InsertEffect
  <2>2. PICK p \in Prefixes : handle[p] = 0 /\ handle' = [handle EXCEPT ![p] = nextID']
    BY <1>2, InsertEffect
  <2>3. nextID \in Nat
    BY HandleFacts DEF TypeOK
  <2>4. \A r \in Requests : nextID' \notin pins[r]
    BY <1>0, <2>1, <2>3
  <2>5. Readers(nextID') = {}
    BY <2>4 DEF Readers
  <2>6. handle'[p] = nextID' /\ \A q \in Prefixes : q # p => handle'[q] = handle[q]
    BY <2>2 DEF TypeOK
  <2>7. \A h : {r \in Requests : h \in pins'[r]} = Readers(h)
    BY <2>1 DEF Readers
  <2>8. refs'[p] = 0 /\ \A q \in Prefixes : refs'[q] = refs[q]
    BY <1>0, <2>1, <2>2
  <2>9. ASSUME NEW q \in Prefixes, handle'[q] # 0
        PROVE  refs'[q] = Cardinality({r \in Requests : handle'[q] \in pins'[r]})
    <3>1. CASE q = p
      <4>1. refs'[q] = 0 /\ handle'[q] = nextID'
        BY <2>6, <2>8, <3>1
      <4>2. {r \in Requests : handle'[q] \in pins'[r]} = {}
        BY <2>5, <2>7, <4>1
      <4> QED BY <4>1, <4>2, FS_EmptySet
    <3>2. CASE q # p
      <4>1. refs'[q] = refs[q] /\ handle'[q] = handle[q] /\ handle[q] # 0
        BY <2>6, <2>8, <2>9, <3>2
      <4>2. {r \in Requests : handle'[q] \in pins'[r]} = Readers(handle[q])
        BY <2>7, <4>1
      <4> QED BY <1>0, <4>1, <4>2
    <3> QED BY <3>1, <3>2
  <2> QED BY <2>9
<1>3. CASE EvictOne
  <2>1. PICK p \in Prefixes : handle' = [handle EXCEPT ![p] = 0]
    BY <1>3, EvictEffect
  <2>2. UNCHANGED <<refs, pins>>
    BY <1>3, EvictEffect
  <2>3. \A q \in Prefixes : handle'[q] # 0 => handle'[q] = handle[q]
    BY <2>1 DEF TypeOK
  <2> QED BY <1>0, <2>2, <2>3 DEF Readers
<1>4. ASSUME NEW r \in Requests, Pin(r), NEW p \in Prefixes, handle'[p] # 0
      PROVE  refs'[p] = Cardinality({q \in Requests : handle'[p] \in pins'[q]})
  <2>1. /\ pins[r] = {} /\ pins' = [pins EXCEPT ![r] = Range(got[r])]
        /\ refs'[p] = IF handle[p] # 0 /\ handle[p] \in Range(got[r]) THEN refs[p] + 1 ELSE refs[p]
        /\ handle' = handle
    BY <1>4, PinEffect
  <2>2. pins'[r] = Range(got[r]) /\ \A q \in Requests : q # r => pins'[q] = pins[q]
    BY <2>1 DEF TypeOK
  <2>3. r \notin Readers(handle[p])
    BY <2>1 DEF Readers
  <2>4. CASE handle[p] \in Range(got[r])
    <3>1. {q \in Requests : handle'[p] \in pins'[q]} = Readers(handle[p]) \cup {r}
      BY <2>1, <2>2, <2>4 DEF Readers
    <3>2. Cardinality(Readers(handle[p]) \cup {r}) = Cardinality(Readers(handle[p])) + 1
      BY <1>a, <2>3, FS_AddElement
    <3> QED BY <1>0, <1>4, <2>1, <2>4, <3>1, <3>2
  <2>5. CASE handle[p] \notin Range(got[r])
    <3>1. {q \in Requests : handle'[p] \in pins'[q]} = Readers(handle[p])
      BY <2>1, <2>2, <2>5 DEF Readers
    <3> QED BY <1>0, <1>4, <2>1, <2>5, <3>1
  <2> QED BY <2>4, <2>5
<1>5. ASSUME NEW r \in Requests, Unpin(r), NEW p \in Prefixes, handle'[p] # 0
      PROVE  refs'[p] = Cardinality({q \in Requests : handle'[p] \in pins'[q]})
  <2>1. /\ pins' = [pins EXCEPT ![r] = {}]
        /\ refs'[p] = IF handle[p] # 0 /\ handle[p] \in pins[r] /\ refs[p] > 0 THEN refs[p] - 1 ELSE refs[p]
        /\ handle' = handle
    BY <1>5, UnpinEffect
  <2>2. pins'[r] = {} /\ \A q \in Requests : q # r => pins'[q] = pins[q]
    BY <2>1 DEF TypeOK
  <2>3. CASE handle[p] \in pins[r]
    <3>1. {q \in Requests : handle'[p] \in pins'[q]} = Readers(handle[p]) \ {r} /\ r \in Readers(handle[p])
      BY <2>1, <2>2, <2>3 DEF Readers
    <3>2. /\ Cardinality(Readers(handle[p]) \ {r}) = Cardinality(Readers(handle[p])) - 1
          /\ Cardinality(Readers(handle[p]) \ {r}) \in Nat
      BY <1>a, <3>1, FS_RemoveElement, FS_CardinalityType
    <3>3. refs[p] = Cardinality(Readers(handle[p])) /\ refs[p] > 0
      BY <1>0, <1>5, <1>a, <2>1, <3>2
    <3> QED BY <1>5, <2>1, <2>3, <3>1, <3>2, <3>3
  <2>4. CASE handle[p] \notin pins[r]
    <3>1. {q \in Requests : handle'[p] \in pins'[q]} = Readers(handle[p])
      BY <2>1, <2>2, <2>4 DEF Readers
    <3> QED BY <1>0, <1>5, <2>1, <2>4, <3>1
  <2> QED BY <2>3, <2>4
<1>6. CASE Crash
  BY <1>6 DEF Crash, Renew, Uncached
<1>7. CASE Restore
  <2>1. refs = Unpinned /\ pins = NoPins /\ UNCHANGED <<refs, pins>>
    BY <1>7, RestoreEffect DEF DownInv
  <2>2. \A h : {r \in Requests : h \in pins'[r]} = {}
    BY <2>1 DEF NoPins
  <2> QED BY <2>1, <2>2, FS_EmptySet DEF Unpinned
<1>8. CASE CacheNext
  <2>1. ASSUME \/ \E r \in Requests, t \in Prompts : Start("match", r, t) \/ StartInsert(r, t)
               \/ \E kind \in {"match", "insert"} : Reuse(kind)
               \/ MatchEnd \/ InsertEnd \/ EvictEnd
        PROVE  UNCHANGED <<handle, refs, pins>>
    BY <2>1 DEF StartInsert, Start, Reuse, MatchEnd, InsertEnd, Finish, EvictEnd
  <2>2. CASE \E r \in Requests : Pin(r) \/ Unpin(r)
    BY <1>4, <1>5, <2>2
  <2> QED BY <1>1, <1>2, <1>3, <1>8, <2>1, <2>2, CacheKinds
<1> QED BY <1>1, <1>6, <1>7, <1>8, StepKinds, StoreFrame DEF cacheVars

\* A block with a reader is not evicted.
LEMMA ReadersStep ==
    TypeOK /\ JobInv /\ ListMatchesMap /\ RefsExact /\ ReadersSafe /\ DownInv /\ ListsInv /\ [Next]_vars
        => ReadersSafe'
<1> SUFFICES ASSUME TypeOK, JobInv, ListMatchesMap, RefsExact, ReadersSafe, DownInv, ListsInv, [Next]_vars
             PROVE  \A r \in Requests : \A p \in reading'[r] : handle'[p] # 0 /\ handle'[p] \in pins'[r]
  BY DEF ReadersSafe, Resident
<1>0. \A r \in Requests : \A p \in reading[r] :
          p \in Prefixes /\ handle[p] # 0 /\ handle[p] \in pins[r]
  BY DEF TypeOK, ReadersSafe, Resident
<1>1. CASE UNCHANGED <<handle, pins, reading>>
  BY <1>0, <1>1
<1>2. CASE InsertNew
  <2>1. PICK p \in Prefixes : handle[p] = 0 /\ handle' = [handle EXCEPT ![p] = nextID']
    BY <1>2, InsertEffect
  <2>2. UNCHANGED <<pins, reading>>
    BY <1>2, InsertEffect
  <2>3. \A q \in Prefixes : handle[q] # 0 => handle'[q] = handle[q]
    BY <2>1 DEF TypeOK
  <2> QED BY <1>0, <2>2, <2>3
<1>3. CASE EvictOne
  <2>1. PICK p \in Prefixes : handle[p] # 0 /\ refs[p] = 0 /\ handle' = [handle EXCEPT ![p] = 0]
    BY <1>3, EvictEffect
  <2>2. UNCHANGED <<pins, reading>>
    BY <1>3, EvictEffect
  <2>3. IsFiniteSet(Readers(handle[p])) /\ Cardinality(Readers(handle[p])) = 0
    BY <2>1, CacheAssumption, FS_Subset DEF Readers, RefsExact, Resident
  <2>4. Readers(handle[p]) = {}
    BY <2>3, FS_EmptySet
  <2>5. \A r \in Requests : p \notin reading[r]
    BY <1>0, <2>4 DEF Readers
  <2>6. \A q \in Prefixes : q # p => handle'[q] = handle[q]
    BY <2>1 DEF TypeOK
  <2> QED BY <1>0, <2>2, <2>5, <2>6
<1>4. ASSUME NEW r \in Requests, Pin(r)
      PROVE  \A q \in Requests : \A p \in reading'[q] : handle'[p] # 0 /\ handle'[p] \in pins'[q]
  <2>1. /\ pins' = [pins EXCEPT ![r] = Range(got[r])]
        /\ reading' = [reading EXCEPT ![r] = Behind(Range(got[r]))]
        /\ handle' = handle
    BY <1>4, PinEffect
  <2>2. \A p \in Behind(Range(got[r])) : handle[p] # 0 /\ handle[p] \in Range(got[r])
    BY DEF Behind, Resident
  <2> QED BY <1>0, <2>1, <2>2 DEF TypeOK
<1>5. ASSUME NEW r \in Requests, Unpin(r)
      PROVE  \A q \in Requests : \A p \in reading'[q] : handle'[p] # 0 /\ handle'[p] \in pins'[q]
  <2>1. /\ pins' = [pins EXCEPT ![r] = {}] /\ reading' = [reading EXCEPT ![r] = {}] /\ handle' = handle
    BY <1>5, UnpinEffect
  <2> QED BY <1>0, <2>1 DEF TypeOK
<1>6. CASE Crash
  BY <1>6 DEF Crash, Renew, NoPins
<1>7. CASE Restore
  <2>1. reading = NoPins /\ reading' = reading
    BY <1>7, RestoreEffect DEF DownInv
  <2> QED BY <2>1 DEF NoPins
<1>8. CASE CacheNext
  <2>1. ASSUME \/ \E r \in Requests, t \in Prompts : Start("match", r, t) \/ StartInsert(r, t)
               \/ \E kind \in {"match", "insert"} : Reuse(kind)
               \/ MatchEnd \/ InsertEnd \/ EvictEnd
        PROVE  UNCHANGED <<handle, pins, reading>>
    BY <2>1 DEF StartInsert, Start, Reuse, MatchEnd, InsertEnd, Finish, EvictEnd
  <2>2. CASE \E r \in Requests : Pin(r) \/ Unpin(r)
    BY <1>4, <1>5, <2>2
  <2> QED BY <1>1, <1>2, <1>3, <1>8, <2>1, <2>2, CacheKinds
<1> QED BY <1>1, <1>6, <1>7, <1>8, StepKinds, StoreFrame DEF cacheVars

\* Nor does a block that stays lose a reader.
LEMMA PinsStep ==
    TypeOK /\ JobInv /\ ListMatchesMap /\ IssuedInv /\ PinsRead /\ DownInv /\ ListsInv /\ [Next]_vars
        => PinsRead'
<1> SUFFICES ASSUME TypeOK, JobInv, ListMatchesMap, IssuedInv, PinsRead, DownInv, ListsInv, [Next]_vars
             PROVE  \A r \in Requests : \A p \in Prefixes :
                        handle'[p] # 0 /\ handle'[p] \in pins'[r] => p \in reading'[r]
  BY DEF PinsRead, Resident
<1>0. /\ \A r \in Requests : \A p \in Prefixes :
             handle[p] # 0 /\ handle[p] \in pins[r] => p \in reading[r]
      /\ \A r \in Requests : \A h \in pins[r] : h <= nextID
  BY DEF PinsRead, Resident, IssuedInv
<1>1. CASE UNCHANGED <<handle, pins, reading>>
  BY <1>0, <1>1
<1>2. CASE InsertNew
  <2>1. nextID' = nextID + 1 /\ UNCHANGED <<pins, reading>>
    BY <1>2, InsertEffect
  <2>2. PICK p \in Prefixes : handle' = [handle EXCEPT ![p] = nextID']
    BY <1>2, InsertEffect
  <2>3. nextID \in Nat
    BY HandleFacts DEF TypeOK
  <2>4. \A r \in Requests : nextID' \notin pins[r]
    BY <1>0, <2>1, <2>3
  <2>5. handle'[p] = nextID' /\ \A q \in Prefixes : q # p => handle'[q] = handle[q]
    BY <2>2 DEF TypeOK
  <2> QED BY <1>0, <2>1, <2>4, <2>5
<1>3. CASE EvictOne
  <2>1. PICK p \in Prefixes : handle' = [handle EXCEPT ![p] = 0]
    BY <1>3, EvictEffect
  <2>2. UNCHANGED <<pins, reading>>
    BY <1>3, EvictEffect
  <2>3. \A q \in Prefixes : handle'[q] # 0 => handle'[q] = handle[q]
    BY <2>1 DEF TypeOK
  <2> QED BY <1>0, <2>2, <2>3
<1>4. ASSUME NEW r \in Requests, Pin(r), NEW q \in Requests, NEW p \in Prefixes,
             handle'[p] # 0, handle'[p] \in pins'[q]
      PROVE  p \in reading'[q]
  <2>1. /\ pins' = [pins EXCEPT ![r] = Range(got[r])]
        /\ reading' = [reading EXCEPT ![r] = Behind(Range(got[r]))]
        /\ handle' = handle
    BY <1>4, PinEffect
  <2>2. CASE q = r
    <3>1. pins'[q] = Range(got[r]) /\ reading'[q] = Behind(Range(got[r]))
      BY <2>1, <2>2 DEF TypeOK
    <3> QED BY <1>4, <2>1, <3>1 DEF Behind, Resident
  <2>3. CASE q # r
    <3>1. pins'[q] = pins[q] /\ reading'[q] = reading[q]
      BY <2>1, <2>3 DEF TypeOK
    <3> QED BY <1>0, <1>4, <2>1, <3>1
  <2> QED BY <2>2, <2>3
<1>5. ASSUME NEW r \in Requests, Unpin(r), NEW q \in Requests, NEW p \in Prefixes,
             handle'[p] # 0, handle'[p] \in pins'[q]
      PROVE  p \in reading'[q]
  <2>1. /\ pins' = [pins EXCEPT ![r] = {}] /\ reading' = [reading EXCEPT ![r] = {}] /\ handle' = handle
    BY <1>5, UnpinEffect
  <2>2. q # r
    BY <1>5, <2>1 DEF TypeOK
  <2>3. pins'[q] = pins[q] /\ reading'[q] = reading[q]
    BY <2>1, <2>2 DEF TypeOK
  <2> QED BY <1>0, <1>5, <2>1, <2>3
<1>6. CASE Crash
  BY <1>6 DEF Crash, Renew, Uncached
<1>7. CASE Restore
  <2>1. pins = NoPins /\ pins' = pins
    BY <1>7, RestoreEffect DEF DownInv
  <2> QED BY <2>1 DEF NoPins
<1>8. CASE CacheNext
  <2>1. ASSUME \/ \E r \in Requests, t \in Prompts : Start("match", r, t) \/ StartInsert(r, t)
               \/ \E kind \in {"match", "insert"} : Reuse(kind)
               \/ MatchEnd \/ InsertEnd \/ EvictEnd
        PROVE  UNCHANGED <<handle, pins, reading>>
    BY <2>1 DEF StartInsert, Start, Reuse, MatchEnd, InsertEnd, Finish, EvictEnd
  <2>2. CASE \E r \in Requests : Pin(r) \/ Unpin(r)
    BY <1>4, <1>5, <2>2
  <2> QED BY <1>1, <1>2, <1>3, <1>8, <2>1, <2>2, CacheKinds
<1> QED BY <1>1, <1>6, <1>7, <1>8, StepKinds, StoreFrame DEF cacheVars

\* The limit is at least each of the two numbers it is made of.
LEMMA LimitFacts ==
    \A a, b \in Nat : Max({a, b}) \in Nat /\ a <= Max({a, b}) /\ b <= Max({a, b})
<1> SUFFICES ASSUME NEW a \in Nat, NEW b \in Nat
             PROVE  Max({a, b}) \in Nat /\ a <= Max({a, b}) /\ b <= Max({a, b})
  OBVIOUS
<1>1. IsFiniteSet({a} \cup {b})
  <2>1. IsFiniteSet({a})
    BY FS_Singleton
  <2> QED BY <2>1, FS_AddElement
<1>2. {a, b} = {a} \cup {b} /\ {a, b} \in SUBSET Nat /\ {a, b} # {}
  OBVIOUS
<1>3. Max({a, b}) \in {a, b} /\ \A x \in {a, b} : x <= Max({a, b})
  BY <1>1, <1>2, MaxIsGreatest
<1> QED BY <1>3

\* An Insert cannot push the cache over its limit: what it created can go again.
LEMMA LimitStep ==
    TypeOK /\ JobInv /\ ListMatchesMap /\ IssuedInv /\ LimitInv /\ ListsInv /\ [Next]_vars => LimitInv'
<1> SUFFICES ASSUME TypeOK, JobInv, ListMatchesMap, IssuedInv, LimitInv, ListsInv, [Next]_vars
             PROVE  LimitInv'
  OBVIOUS
<1>0. /\ capacity \in Nat /\ restored \in Nat
      /\ Limit \in Nat /\ capacity <= Limit
  BY LimitFacts, CacheAssumption DEF TypeOK, Limit
<1>a. Len(lru) \in Nat
  BY LruFacts
<1>1. CASE UNCHANGED cacheVars /\ restored' = restored
  BY <1>1 DEF LimitInv, Limit, Evictable, cacheVars
<1>2. CASE Crash
  <2>1. lru' = <<>> /\ capacity' \in Nat /\ restored' = 0
    BY <1>2, CacheAssumption DEF Crash, Renew
  <2>2. Limit' \in Nat /\ Len(lru') = 0
    BY <2>1, LimitFacts DEF Limit
  <2>3. Len(lru') <= Limit'
    BY <2>2
  <2> QED BY <2>3 DEF LimitInv
<1>3. CASE Restore
  <2>1. Len(lru') = restored' /\ restored' \in Nat /\ capacity' = capacity
    BY <1>3, RestoreEffect
  <2>2. restored' <= Limit'
    BY <1>0, <2>1, LimitFacts DEF Limit
  <2>3. Len(lru') <= Limit'
    BY <2>1, <2>2
  <2> QED BY <2>3 DEF LimitInv
<1>4. CASE CacheNext /\ UNCHANGED storeVars
  <2>1. restored' = restored
    BY <1>4 DEF storeVars
  <2>2. ASSUME UNCHANGED <<capacity, lru>>, job.kind # "evict"
        PROVE  LimitInv'
    <3>1. Limit' = Limit
      BY <2>1, <2>2 DEF Limit
    <3>2. capacity > 0 => Len(lru) <= Limit
      BY <2>2 DEF LimitInv
    <3> QED BY <2>2, <3>1, <3>2 DEF LimitInv
  <2>3. CASE \E r \in Requests, t \in Prompts : Start("match", r, t) \/ StartInsert(r, t)
    BY <2>2, <2>3, StartEffect DEF StartInsert
  <2>4. CASE \E r \in Requests : Pin(r) \/ Unpin(r)
    BY <2>2, <2>4, PinEffect, UnpinEffect
  <2>5. CASE \E kind \in {"match", "insert"} : Reuse(kind)
    <3>1. /\ job.kind \in {"match", "insert"}
          /\ Len(lru') = Len(lru) /\ capacity' = capacity
      BY <2>5, ReuseEffect
    <3>2. Limit' = Limit
      BY <2>1, <3>1 DEF Limit
    <3>3. capacity > 0 => Len(lru) <= Limit
      BY <3>1 DEF LimitInv
    <3> QED BY <3>1, <3>2, <3>3 DEF LimitInv
  <2>6. CASE InsertNew
    <3>1. PICK p \in Prefixes : handle[p] = 0 /\ Len(lru') = Len(lru) + 1 /\ lru'[1] = p
      BY <2>6, InsertEffect
    <3>2. job.kind = "insert" /\ job'.kind = "evict" /\ UNCHANGED <<capacity, refs>>
      BY <2>6, InsertEffect
    <3>3. Limit' = Limit
      BY <2>1, <3>2 DEF Limit
    <3>4. capacity > 0 => Len(lru) <= Limit
      BY <3>2 DEF LimitInv
    <3>5. 1 \in Evictable'
      <4>1. refs'[lru'[1]] = 0 /\ 1 \in 1 .. Len(lru')
        BY <1>a, <3>1, <3>2 DEF IssuedInv, Resident
      <4> QED BY <4>1 DEF Evictable
    <3>6. capacity > 0 => Len(lru') <= Limit \/ Len(lru') = Limit + 1
      BY <1>0, <1>a, <3>1, <3>4
    <3> QED BY <3>2, <3>3, <3>5, <3>6 DEF LimitInv
  <2>7. CASE EvictOne
    <3>1. Len(lru') = Len(lru) - 1 /\ capacity' = capacity
      BY <2>7, EvictEffect
    <3>2. Limit' = Limit
      BY <2>1, <3>1 DEF Limit
    <3>3. capacity > 0 => Len(lru) <= Limit \/ Len(lru) = Limit + 1
      BY DEF LimitInv
    <3>4. capacity > 0 => Len(lru') <= Limit
      BY <1>0, <1>a, <3>1, <3>3
    <3> QED BY <3>1, <3>2, <3>4 DEF LimitInv
  <2>8. CASE MatchEnd \/ InsertEnd \/ EvictEnd
    <3>1. UNCHANGED <<capacity, lru>>
      BY <2>8, EndEffect
    <3>2. CASE job.kind # "evict"
      BY <2>2, <3>1, <3>2
    <3>3. CASE job.kind = "evict" /\ (~OverLimit \/ Evictable = {})
      <4>1. capacity > 0 => Len(lru) <= Limit
        BY <1>0, <1>a, <3>3 DEF LimitInv, OverLimit
      <4>2. Limit' = Limit
        BY <2>1, <3>1 DEF Limit
      <4> QED BY <3>1, <4>1, <4>2 DEF LimitInv
    <3> QED BY <2>8, <3>2, <3>3, EndEffect
  <2> QED BY <1>4, <2>3, <2>4, <2>5, <2>6, <2>7, <2>8, CacheKinds
<1> QED BY <1>1, <1>2, <1>3, <1>4, StepKinds, StoreFrame

-----------------------------------------------------------------------------
(* The directory. *)

\* What a process that is down holds, and that a save ends before it goes down.
LEMMA DownStep == TypeOK /\ DownInv /\ ListsInv /\ [Next]_vars => DownInv'
<1> SUFFICES ASSUME TypeOK, DownInv, ListsInv, [Next]_vars
             PROVE  DownInv'
  OBVIOUS
<1>1. CASE CacheNext /\ up /\ todo = {} /\ UNCHANGED storeVars
  BY <1>1 DEF DownInv, storeVars, diskVars
<1>2. CASE SaveStart \/ WriteFile \/ SaveFail
  <2>1. up /\ up' = up
    BY <1>2 DEF SaveStart, WriteFile, SaveFail
  <2> QED BY <2>1 DEF DownInv
<1>3. CASE BootCold
  BY <1>3 DEF BootCold, DownInv
<1>4. CASE Crash
  BY <1>4 DEF Crash, Renew, DownInv
<1>5. CASE Restore
  <2>1. up' = TRUE
    BY <1>5, RestoreEffect
  <2> QED BY <2>1 DEF DownInv
<1>6. CASE UNCHANGED vars
  BY <1>6 DEF vars, cacheVars, storeVars, diskVars, DownInv
<1> QED BY <1>1, <1>2, <1>3, <1>4, <1>5, <1>6, StepKinds

\* Manifests and snapshots name each block and each handle once.
LEMMA ListsStep == TypeOK /\ ListMatchesMap /\ ListsInv /\ [Next]_vars => ListsInv'
<1> SUFFICES ASSUME TypeOK, ListMatchesMap, ListsInv, [Next]_vars
             PROVE  OnceEach(snap') /\ OnceEach(manifest'.list)
  BY DEF ListsInv, OnceEach
<1>0. OnceEach(snap) /\ OnceEach(manifest.list) /\ OnceEach(<<>>)
  BY DEF ListsInv, OnceEach
<1>1. CASE UNCHANGED <<snap, manifest>>
  BY <1>0, <1>1
<1>2. CASE SaveStart
  BY <1>0, <1>2, SnapshotFacts DEF SaveStart
<1>3. CASE WriteFile
  <2>1. snap' = snap /\ manifest' \in {manifest, Written(snap)}
    BY <1>3 DEF WriteFile, Holding
  <2>2. Written(snap).list = snap
    BY DEF Written
  <2> QED BY <1>0, <2>1, <2>2
<1>4. CASE SaveFail \/ Crash
  <2>1. snap' = <<>> /\ Interrupt
    BY <1>4 DEF SaveFail, Crash
  <2> QED BY <1>0, <2>1, InterruptEffect
<1>5. CASE Restore
  BY <1>1, <1>5, RestoreEffect DEF diskVars
<1> QED BY <1>1, <1>2, <1>3, <1>4, <1>5, StepKinds DEF BootCold, diskVars, storeVars, vars

\* As long as every save has ended a block's state is its own, over evictions,
\* handles that are issued again, and restarts.
LEMMA CleanStep ==
    TypeOK /\ JobInv /\ ListMatchesMap /\ IssuedInv /\ CleanIdentity /\ DownInv /\ ListsInv /\ SaveInv
        /\ [Next]_vars => CleanIdentity'
<1> SUFFICES ASSUME TypeOK, JobInv, ListMatchesMap, IssuedInv, CleanIdentity, DownInv, ListsInv, SaveInv,
                    [Next]_vars, clean'
             PROVE  /\ \A p \in Prefixes : handle'[p] # 0 => kv'[handle'[p]] = p
                    /\ \A r \in Requests : \A i \in DOMAIN got'[r] : kv'[got'[r][i]] = SubSeq(want'[r], 1, i)
  BY DEF CleanIdentity, KVIdentity, HandlesGenuine, Resident
<1>0. ASSUME clean
      PROVE  /\ \A p \in Prefixes : handle[p] # 0 => kv[handle[p]] = p
             /\ \A r \in Requests : \A i \in DOMAIN got[r] : kv[got[r][i]] = SubSeq(want[r], 1, i)
  BY <1>0 DEF CleanIdentity, KVIdentity, HandlesGenuine, Resident
<1>a. /\ nextID \in Nat
      /\ \A p \in Prefixes : handle[p] <= nextID /\ handle[p] \in Nat
      /\ \A r \in Requests : got[r] \in Seq(Handles)
      /\ \A r \in Requests : \A i \in DOMAIN got[r] : got[r][i] \in Handles /\ got[r][i] <= nextID
  <2>1. Handles \cup {0} \subseteq Nat
    BY HandleFacts
  <2>2. nextID \in Nat /\ \A p \in Prefixes : handle[p] \in Nat
    BY <2>1 DEF TypeOK
  <2>3. \A r \in Requests : got[r] \in Seq(Handles)
    BY DEF TypeOK
  <2>4. \A g \in Seq(Handles) : \A i \in DOMAIN g : g[i] \in Handles
    OBVIOUS
  <2> QED BY <2>2, <2>3, <2>4 DEF ListMatchesMap, IssuedInv
<1>1. CASE UNCHANGED cacheVars /\ clean
  BY <1>0, <1>1 DEF cacheVars
<1>2. CASE Crash
  BY <1>2 DEF Crash, Renew, Uncached, NoCalls
<1>3. CASE Restore
  <2>1. clean /\ ~up /\ todo = {}
    BY <1>3, RestoreEffect DEF DownInv
  <2>2. got' = NoCalls
    BY <1>3, <2>1, RestoreEffect DEF DownInv
  <2>3. ASSUME NEW p \in Prefixes, handle'[p] # 0
        PROVE  kv'[handle'[p]] = p
    <3>1. PICK i \in DOMAIN manifest.list : manifest.list[i][1] = p /\ manifest.list[i][2] = handle'[p]
      BY <1>3, <2>3, RestoreEffect
    <3>2. kv'[handle'[p]] = blob[manifest.list[i][2]]
      BY <1>3, <3>1, RestoreEffect
    <3>3. manifest.state = "written"
      BY <1>3, RestoreEffect
    <3>4. blob[manifest.list[i][2]] = p
      BY <2>1, <3>1, <3>3 DEF SaveInv
    <3> QED BY <3>2, <3>4
  <2> QED BY <2>2, <2>3 DEF NoCalls
<1>4. CASE CacheNext /\ clean
  <2>0. /\ \A p \in Prefixes : handle[p] # 0 => kv[handle[p]] = p
        /\ \A r \in Requests : \A i \in DOMAIN got[r] : kv[got[r][i]] = SubSeq(want[r], 1, i)
    BY <1>0, <1>4
  <2>1. CASE UNCHANGED <<handle, kv, got, want>>
    BY <2>0, <2>1
  <2>2. ASSUME NEW kind \in {"match", "insert"}, NEW r \in Requests, NEW t \in Prompts, Start(kind, r, t)
        PROVE  /\ UNCHANGED <<handle, kv>>
               /\ \A q \in Requests : \A i \in DOMAIN got'[q] : kv[got'[q][i]] = SubSeq(want'[q], 1, i)
    <3>1. /\ got'[r] = <<>>
          /\ \A q \in Requests \ {r} : want'[q] = want[q] /\ got'[q] = got[q]
          /\ UNCHANGED <<handle, kv>>
      BY <2>2, StartEffect
    <3>2. DOMAIN <<>> = {}
      OBVIOUS
    <3> QED BY <2>0, <3>1, <3>2
  <2>3. ASSUME NEW h \in Handles, NEW p \in Prefixes, job.req \in Requests, job.i \in Nat,
               job.kind \in {"match", "insert"},
               p = SubSeq(want[job.req], 1, job.i), want' = want,
               got' = [got EXCEPT ![job.req] = Append(@, h)],
               kv'[h] = p,
               \A r \in Requests : \A i \in DOMAIN got[r] : kv'[got[r][i]] = kv[got[r][i]]
        PROVE  \A q \in Requests : \A i \in DOMAIN got'[q] : kv'[got'[q][i]] = SubSeq(want'[q], 1, i)
    <3>1. PICK g \in Seq(Handles) : g = got[job.req]
      BY <1>a, <2>3
    <3>2. got'[job.req] = Append(g, h) /\ \A q \in Requests \ {job.req} : got'[q] = got[q]
      BY <2>3, <3>1 DEF TypeOK
    <3>3. Len(g) + 1 = job.i
      BY <2>3, <3>1 DEF JobInv
    <3>4. \A i \in DOMAIN Append(g, h) :
              \/ i = Len(g) + 1 /\ Append(g, h)[i] = h
              \/ i \in DOMAIN g /\ Append(g, h)[i] = g[i]
      OBVIOUS
    <3>5. ASSUME NEW i \in DOMAIN Append(g, h)
          PROVE  kv'[Append(g, h)[i]] = SubSeq(want[job.req], 1, i)
      <4>1. CASE i = Len(g) + 1 /\ Append(g, h)[i] = h
        BY <2>3, <3>3, <4>1
      <4>2. CASE i \in DOMAIN g /\ Append(g, h)[i] = g[i]
        <5>1. kv'[g[i]] = kv[g[i]]
          BY <2>3, <3>1, <4>2
        <5>2. kv[g[i]] = SubSeq(want[job.req], 1, i)
          BY <2>0, <2>3, <3>1, <4>2
        <5> QED BY <4>2, <5>1, <5>2
      <4> QED BY <3>4, <4>1, <4>2
    <3>6. ASSUME NEW q \in Requests \ {job.req}, NEW i \in DOMAIN got'[q]
          PROVE  kv'[got'[q][i]] = SubSeq(want[q], 1, i)
      <4>1. got'[q] = got[q]
        BY <3>2
      <4>2. kv'[got[q][i]] = kv[got[q][i]]
        BY <2>3, <4>1
      <4>3. kv[got[q][i]] = SubSeq(want[q], 1, i)
        BY <2>0, <4>1
      <4> QED BY <4>1, <4>2, <4>3
    <3>7. ASSUME NEW q \in Requests, NEW i \in DOMAIN got'[q]
          PROVE  kv'[got'[q][i]] = SubSeq(want[q], 1, i)
      <4>1. CASE q = job.req
        BY <3>2, <3>5, <3>7, <4>1
      <4>2. CASE q # job.req
        BY <3>6, <3>7, <4>2
      <4> QED BY <4>1, <4>2
    <3> QED BY <2>3, <3>7
  <2>4. ASSUME NEW kind \in {"match", "insert"}, Reuse(kind)
        PROVE  /\ UNCHANGED <<handle, kv>>
               /\ \A q \in Requests : \A i \in DOMAIN got'[q] : kv'[got'[q][i]] = SubSeq(want'[q], 1, i)
    <3>1. PICK p \in Prefixes : /\ handle[p] \in Handles
                              /\ p = SubSeq(want[job.req], 1, job.i)
                              /\ got' = [got EXCEPT ![job.req] = Append(@, handle[p])]
      BY <2>4, ReuseEffect
    <3>2. /\ job.kind \in {"match", "insert"} /\ job.req \in Requests /\ job.i \in Nat
          /\ UNCHANGED <<handle, want, kv>>
      BY <2>4, ReuseEffect
    <3>3. kv'[handle[p]] = p
      BY <2>0, <3>1, <3>2, HandleFacts
    <3> QED BY <2>3, <3>1, <3>2, <3>3
  <2>5. CASE InsertNew
    <3>1. /\ job.kind = "insert" /\ job.req \in Requests /\ job.i \in Nat
          /\ nextID' = nextID + 1 /\ nextID' \in Handles
          /\ got' = [got EXCEPT ![job.req] = Append(@, nextID')]
          /\ want' = want
      BY <2>5, InsertEffect
    <3>2. PICK p \in Prefixes : /\ p = SubSeq(want[job.req], 1, job.i)
                              /\ handle' = [handle EXCEPT ![p] = nextID']
                              /\ kv' = [kv EXCEPT ![nextID'] = p]
      BY <2>5, InsertEffect
    <3>3. kv'[nextID'] = p /\ \A h \in Handles : h # nextID' => kv'[h] = kv[h]
      BY <3>1, <3>2 DEF TypeOK
    <3>4. \A n \in Nat : n <= nextID => n # nextID'
      BY <1>a, <3>1
    <3>5. \A r \in Requests : \A i \in DOMAIN got[r] : kv'[got[r][i]] = kv[got[r][i]]
      BY <1>a, <3>3, <3>4, HandleFacts
    <3>6. \A q \in Requests : \A i \in DOMAIN got'[q] : kv'[got'[q][i]] = SubSeq(want'[q], 1, i)
      BY <2>3, <3>1, <3>2, <3>3, <3>5
    <3>7. handle'[p] = nextID' /\ \A q \in Prefixes : q # p => handle'[q] = handle[q]
      BY <3>2 DEF TypeOK
    <3>8. \A q \in Prefixes : handle[q] # 0 => kv'[handle[q]] = q
      <4>1. \A q \in Prefixes : handle[q] # 0 => handle[q] \in Handles /\ handle[q] # nextID'
        BY <1>a, <3>4 DEF TypeOK
      <4> QED BY <2>0, <3>3, <4>1
    <3> QED BY <3>3, <3>6, <3>7, <3>8
  <2>6. CASE EvictOne
    <3>1. PICK p \in Prefixes : handle' = [handle EXCEPT ![p] = 0]
      BY <2>6, EvictEffect
    <3>2. UNCHANGED <<kv, got, want>>
      BY <2>6, EvictEffect
    <3>3. \A q \in Prefixes : handle'[q] # 0 => handle'[q] = handle[q]
      BY <3>1 DEF TypeOK
    <3> QED BY <2>0, <3>2, <3>3
  <2>7. CASE \E r \in Requests, t \in Prompts : Start("match", r, t) \/ StartInsert(r, t)
    <3>1. PICK kind \in {"match", "insert"}, r \in Requests, t \in Prompts : Start(kind, r, t)
      BY <2>7 DEF StartInsert
    <3> QED BY <2>0, <2>2, <3>1
  <2>8. CASE \E kind \in {"match", "insert"} : Reuse(kind)
    BY <2>0, <2>4, <2>8
  <2>9. CASE (\E r \in Requests : Pin(r) \/ Unpin(r)) \/ MatchEnd \/ InsertEnd \/ EvictEnd
    BY <2>1, <2>9 DEF Pin, Unpin, Release, MatchEnd, InsertEnd, Finish, EvictEnd
  <2> QED BY <1>4, <2>5, <2>6, <2>7, <2>8, <2>9, CacheKinds
<1>5. CASE SaveStart \/ WriteFile \/ SaveFail \/ BootCold \/ UNCHANGED vars
  <2>1. clean
    BY <1>5 DEF SaveStart, WriteFile, SaveFail, BootCold, vars, storeVars
  <2> QED BY <1>1, <1>5, <2>1, StoreFrame
<1>6. CASE CacheNext /\ UNCHANGED storeVars
  <2>1. clean
    BY <1>6 DEF storeVars
  <2> QED BY <1>4, <1>6, <2>1
<1> QED BY <1>2, <1>3, <1>5, <1>6, StepKinds

\* A restart loads no block without state, and an Insert makes none.
LEMMA CompleteStep ==
    TypeOK /\ JobInv /\ ListMatchesMap /\ RestoredComplete /\ DownInv /\ ListsInv /\ [Next]_vars
        => RestoredComplete'
<1> SUFFICES ASSUME TypeOK, JobInv, ListMatchesMap, RestoredComplete, DownInv, ListsInv, [Next]_vars, up'
             PROVE  \A p \in Prefixes : handle'[p] # 0 => kv'[handle'[p]] # NoBlock
  BY DEF RestoredComplete, Resident
<1>0. up => \A p \in Prefixes : handle[p] # 0 => kv[handle[p]] # NoBlock
  BY DEF RestoredComplete, Resident
<1>1. CASE up /\ UNCHANGED <<handle, kv>>
  BY <1>0, <1>1
<1>2. CASE SaveStart \/ WriteFile \/ SaveFail \/ UNCHANGED vars
  <2>1. up
    BY <1>2 DEF SaveStart, WriteFile, SaveFail, vars, storeVars
  <2> QED BY <1>1, <1>2, <2>1, StoreFrame DEF cacheVars
<1>3. CASE BootCold \/ Crash
  BY <1>3 DEF BootCold, Crash, DownInv, Uncached, cacheVars
<1>4. CASE Restore
  <2>1. ASSUME NEW p \in Prefixes, handle'[p] # 0
        PROVE  kv'[handle'[p]] # NoBlock
    <3>1. PICK i \in DOMAIN manifest.list : manifest.list[i][2] = handle'[p]
      BY <1>4, <2>1, RestoreEffect
    <3> QED BY <1>4, <3>1, RestoreEffect
  <2> QED BY <2>1
<1>5. CASE CacheNext /\ up
  <2>1. CASE InsertNew
    <3>1. nextID' \in Handles /\ nextID' = nextID + 1
      BY <2>1, InsertEffect
    <3>2. PICK p \in Prefixes : /\ handle' = [handle EXCEPT ![p] = nextID']
                              /\ kv' = [kv EXCEPT ![nextID'] = p]
      BY <2>1, InsertEffect
    <3>3. kv'[nextID'] = p /\ \A h \in Handles : kv'[h] = kv[h] \/ kv'[h] = p
      BY <3>1, <3>2 DEF TypeOK
    <3>4. handle'[p] = nextID' /\ \A q \in Prefixes : q # p => handle'[q] = handle[q]
      BY <3>2 DEF TypeOK
    <3>5. \A q \in Prefixes : handle[q] # 0 => handle[q] \in Handles
      BY DEF TypeOK
    <3>6. p # NoBlock
      BY PrefixFacts
    <3> QED BY <1>0, <1>5, <3>3, <3>4, <3>5, <3>6
  <2>2. CASE EvictOne
    <3>1. PICK p \in Prefixes : handle' = [handle EXCEPT ![p] = 0]
      BY <2>2, EvictEffect
    <3>2. kv' = kv
      BY <2>2, EvictEffect
    <3>3. \A q \in Prefixes : handle'[q] # 0 => handle'[q] = handle[q]
      BY <3>1 DEF TypeOK
    <3> QED BY <1>0, <1>5, <3>2, <3>3
  <2>3. ASSUME \/ \E r \in Requests, t \in Prompts : Start("match", r, t) \/ StartInsert(r, t)
               \/ \E r \in Requests : Pin(r) \/ Unpin(r)
               \/ \E kind \in {"match", "insert"} : Reuse(kind)
               \/ MatchEnd \/ InsertEnd \/ EvictEnd
        PROVE  UNCHANGED <<handle, kv>>
    BY <2>3 DEF StartInsert, Start, Pin, Unpin, Release, Reuse, MatchEnd, InsertEnd, Finish, EvictEnd
  <2> QED BY <1>1, <1>5, <2>1, <2>2, <2>3, CacheKinds
<1> QED BY <1>2, <1>3, <1>4, <1>5, StepKinds

\* A save writes its snapshot: the manifest, and then each block's own state.
LEMMA SaveStep ==
    TypeOK /\ ListMatchesMap /\ CleanIdentity /\ DownInv /\ ListsInv /\ SaveInv /\ [Next]_vars => SaveInv'
<1> SUFFICES ASSUME TypeOK, ListMatchesMap, CleanIdentity, DownInv, ListsInv, SaveInv, [Next]_vars
             PROVE  SaveInv'
  OBVIOUS
<1>0. /\ todo # {} => snap = Snapshot /\ (ManifestFile \in todo \/ manifest = Written(snap))
      /\ ManifestFile \in todo => \A i \in DOMAIN snap : snap[i][2] \in todo
      /\ clean /\ ManifestFile \notin todo /\ manifest.state = "written" =>
             \A i \in DOMAIN manifest.list :
                 manifest.list[i][2] \in todo \/ blob[manifest.list[i][2]] = manifest.list[i][1]
  BY DEF SaveInv
<1>1. CASE todo = {} /\ todo' = {} /\ UNCHANGED <<manifest, blob>> /\ (clean' => clean)
  BY <1>0, <1>1 DEF SaveInv
<1>2. CASE UNCHANGED <<cacheVars, diskVars, clean>>
  <2>1. Snapshot' = Snapshot
    BY <1>2 DEF cacheVars, Snapshot
  <2>2. UNCHANGED <<snap, todo, manifest, blob, clean>>
    BY <1>2 DEF diskVars
  <2> QED BY <1>0, <2>1, <2>2 DEF SaveInv
<1>3. CASE todo' = {} /\ clean' = FALSE
  BY <1>3 DEF SaveInv
<1>4. CASE SaveStart
  <2>1. /\ UNCHANGED cacheVars /\ snap' = Snapshot
        /\ todo' = {ManifestFile} \cup {handle[p] : p \in Range(lru)}
    BY <1>4 DEF SaveStart
  <2>2. Snapshot' = Snapshot
    BY <2>1 DEF cacheVars, Snapshot
  <2>3. ASSUME NEW i \in DOMAIN snap'
        PROVE  snap'[i][2] \in todo'
    <3>1. i \in 1 .. Len(lru) /\ snap'[i][2] = handle[lru[i]]
      BY <2>1, SnapshotFacts
    <3>2. lru[i] \in Range(lru)
      BY <3>1, LruFacts DEF IsList, Range
    <3> QED BY <2>1, <3>1, <3>2
  <2>4. ManifestFile \in todo'
    BY <2>1
  <2> QED BY <2>1, <2>2, <2>3, <2>4 DEF SaveInv
<1>5. CASE WriteFile
  <2>1. PICK f \in Pending :
            /\ Holding(f, Written(snap), IF f \in Handles THEN kv[f] ELSE NoBlock)
            /\ todo' = todo \ {f}
    BY <1>5 DEF WriteFile
  <2>2. UNCHANGED cacheVars /\ snap' = snap /\ clean' = clean
    BY <1>5 DEF WriteFile
  <2>3. Snapshot' = Snapshot
    BY <2>2 DEF cacheVars, Snapshot
  <2>4. f \in todo /\ f \in Handles \cup {ManifestFile} /\ snap = Snapshot
    BY <1>0, <2>1 DEF Pending, TypeOK
  <2>5. CASE f = ManifestFile
    <3>1. manifest' = Written(snap) /\ ManifestFile \notin todo'
      BY <2>1, <2>5 DEF Holding
    <3>2. Written(snap).list = snap
      BY DEF Written
    <3>3. ASSUME NEW i \in DOMAIN snap
          PROVE  snap[i][2] \in todo'
      <4>1. snap[i][2] \in todo
        BY <1>0, <2>4, <2>5
      <4>2. snap[i][2] \in Handles
        BY <2>4, SnapshotFacts
      <4> QED BY <2>1, <2>5, <4>1, <4>2, HandleFacts DEF ManifestFile
    <3> QED BY <2>2, <2>3, <2>4, <3>1, <3>2, <3>3 DEF SaveInv
  <2>6. CASE f # ManifestFile
    <3>1. ManifestFile \notin todo /\ ManifestFile \notin todo' /\ f \in Handles
      BY <2>1, <2>4, <2>6 DEF Pending
    <3>2. manifest = Written(snap) /\ manifest' = manifest
      BY <1>0, <2>1, <2>4, <2>6, <3>1 DEF Holding
    <3>3. blob' = [blob EXCEPT ![f] = kv[f]]
      BY <2>1, <2>6, <3>1 DEF Holding
    <3>4. manifest.list = snap
      BY <3>2 DEF Written
    <3>5. ASSUME clean, manifest.state = "written", NEW i \in DOMAIN snap
          PROVE  snap[i][2] \in todo' \/ blob'[snap[i][2]] = snap[i][1]
      <4>1. /\ snap[i][1] = lru[i] /\ snap[i][2] = handle[lru[i]]
            /\ lru[i] \in Prefixes /\ handle[lru[i]] \in Handles
        BY <2>4, SnapshotFacts
      <4>2. snap[i][2] \in todo \/ blob[snap[i][2]] = snap[i][1]
        BY <1>0, <3>1, <3>4, <3>5
      <4>3. CASE snap[i][2] = f
        <5>1. kv[handle[lru[i]]] = lru[i]
          BY <3>5, <4>1, HandleFacts DEF CleanIdentity, KVIdentity, Resident
        <5>2. blob'[f] = kv[f]
          BY <3>1, <3>3 DEF TypeOK
        <5> QED BY <4>1, <4>3, <5>1, <5>2
      <4>4. CASE snap[i][2] # f
        <5>1. blob'[snap[i][2]] = blob[snap[i][2]]
          BY <3>3, <4>1, <4>4 DEF TypeOK
        <5> QED BY <2>1, <4>2, <4>4, <5>1
      <4> QED BY <4>3, <4>4
    <3> QED BY <2>2, <2>3, <2>4, <3>1, <3>2, <3>4, <3>5 DEF SaveInv
  <2> QED BY <2>5, <2>6
<1>6. CASE SaveFail
  BY <1>3, <1>6 DEF SaveFail
<1>7. CASE Crash
  <2>1. todo' = {} /\ clean' = (clean /\ todo = {}) /\ Interrupt
    BY <1>7 DEF Crash
  <2>2. CASE todo = {}
    <3>1. UNCHANGED <<manifest, blob>>
      BY <2>1, <2>2, InterruptEffect
    <3> QED BY <1>1, <2>1, <2>2, <3>1
  <2>3. CASE todo # {}
    BY <1>3, <2>1, <2>3
  <2> QED BY <2>2, <2>3
<1>8. CASE CacheNext /\ todo = {} /\ UNCHANGED storeVars
  BY <1>1, <1>8 DEF storeVars, diskVars
<1>9. CASE Restore
  <2>1. todo = {}
    BY <1>9, RestoreEffect DEF DownInv
  <2> QED BY <1>1, <1>9, <2>1, RestoreEffect DEF diskVars
<1>10. CASE BootCold \/ UNCHANGED vars
  BY <1>2, <1>10 DEF BootCold, vars, storeVars
<1> QED BY <1>4, <1>5, <1>6, <1>7, <1>8, <1>9, <1>10, StepKinds

-----------------------------------------------------------------------------
(* The theorems. *)

\* The first states satisfy the invariant.
LEMMA InitInv == Init => IInv
<1> SUFFICES ASSUME Init
             PROVE  IInv
  OBVIOUS
<1>1. TypeOK
  BY InitType
<1>2. /\ lru = <<>> /\ handle = Uncached /\ refs = Unpinned /\ nextID = 0 /\ job = Idle
      /\ got = NoCalls /\ pins = NoPins /\ reading = NoPins
      /\ up = TRUE /\ snap = <<>> /\ todo = {} /\ manifest = Absent /\ restored = 0
  BY DEF Init, CacheInit
<1>3. job.kind = "idle" /\ manifest.state = "absent" /\ manifest.list = <<>>
  BY <1>2 DEF Idle, Absent
<1>4. \A p \in Prefixes : handle[p] = 0 /\ refs[p] = 0
  BY <1>2 DEF Uncached, Unpinned
<1>5. \A r \in Requests : got[r] = <<>> /\ pins[r] = {} /\ reading[r] = {}
  BY <1>2 DEF NoCalls, NoPins
<1>6. DOMAIN lru = {} /\ Len(lru) = 0 /\ DOMAIN snap = {} /\ DOMAIN <<>> = {}
  BY <1>2
<1>7. JobInv
  BY <1>3 DEF JobInv
<1>8. ListMatchesMap
  <2>1. IsInjective(lru) /\ Range(lru) = {}
    BY <1>6 DEF IsInjective, Range
  <2> QED BY <1>2, <1>4, <2>1 DEF ListMatchesMap, Resident
<1>9. IssuedInv /\ GotInv
  BY <1>4, <1>5, <1>6 DEF IssuedInv, GotInv
<1>10. RefsExact /\ RestoredComplete
  BY <1>4 DEF RefsExact, RestoredComplete, Resident
<1>11. ReadersSafe /\ PinsRead
  BY <1>5 DEF ReadersSafe, PinsRead
<1>12. LimitInv
  <2>1. capacity \in Nat /\ restored \in Nat
    BY <1>1, CacheAssumption DEF TypeOK
  <2>2. Limit \in Nat
    BY <2>1, LimitFacts DEF Limit
  <2> QED BY <1>6, <2>2 DEF LimitInv
<1>13. CleanIdentity
  BY <1>4, <1>5, <1>6 DEF CleanIdentity, KVIdentity, HandlesGenuine, Resident
<1>14. DownInv /\ ListsInv
  BY <1>2, <1>3, <1>6 DEF DownInv, ListsInv, OnceEach
<1>15. SaveInv
  BY <1>2, <1>3 DEF SaveInv
<1> QED BY <1>1, <1>7, <1>8, <1>9, <1>10, <1>11, <1>12, <1>13, <1>14, <1>15 DEF IInv

\* Every step keeps the invariant.
LEMMA NextInv == IInv /\ [Next]_vars => IInv'
<1> SUFFICES ASSUME IInv, [Next]_vars
             PROVE  IInv'
  OBVIOUS
<1>1. /\ TypeOK /\ JobInv /\ ListMatchesMap /\ IssuedInv /\ GotInv
      /\ RefsExact /\ ReadersSafe /\ PinsRead
      /\ LimitInv /\ CleanIdentity /\ RestoredComplete /\ DownInv /\ ListsInv /\ SaveInv
  BY DEF IInv
<1>2. TypeOK' /\ JobInv' /\ ListMatchesMap' /\ IssuedInv' /\ GotInv'
  BY <1>1, TypeStep, JobStep, ListStep, IssuedStep, GotStep
<1>3. RefsExact' /\ ReadersSafe' /\ PinsRead' /\ LimitInv'
  BY <1>1, RefsStep, ReadersStep, PinsStep, LimitStep
<1>4. CleanIdentity' /\ RestoredComplete' /\ DownInv' /\ ListsInv' /\ SaveInv'
  BY <1>1, CleanStep, CompleteStep, DownStep, ListsStep, SaveStep
<1> QED BY <1>2, <1>3, <1>4 DEF IInv

\* What the cache, its pins, its saves and its restarts keep between them, for
\* any prompts, requests, capacities and number of handles.
THEOREM Invariant == Spec => []IInv
BY InitInv, NextInv, PTL DEF Spec

\* Every variable keeps its type.
THEOREM TypeCorrect == Spec => []TypeOK
BY Invariant, PTL DEF IInv

\* The list and the map of the cache, which the code keeps by hand, hold the same
\* blocks, each once and under a handle of its own.
THEOREM ListAndMapAgree == Spec => []ListMatchesMap
BY Invariant, PTL DEF IInv

\* A block has as many readers as there are requests with a pin on its handle,
\* although Pin passes over blocks that were evicted and Unpin must too.
THEOREM RefCountsExact == Spec => []RefsExact
BY Invariant, PTL DEF IInv

\* A block that is read is not evicted until its reader gives it back.
THEOREM ReadersAreSafe == Spec => []ReadersSafe
BY Invariant, PTL DEF IInv

\* Between calls the cache is within its limit, pinned blocks or not.
THEOREM NeverOverLimit == Spec => []WithinLimit
<1>1. IInv => WithinLimit
  <2> SUFFICES ASSUME IInv, job.kind # "evict", capacity > 0
               PROVE  Len(lru) <= Limit
    BY DEF WithinLimit, Limit
  <2> QED BY DEF IInv, LimitInv
<1> QED BY <1>1, Invariant, PTL

\* As long as every save ends, no history of inserts, evictions, saves, crashes and
\* restores makes a handle stand for another block's keys and values.
THEOREM IdentityKept == Spec => []CleanIdentity
BY Invariant, PTL DEF IInv

\* No restore offers a block without state, from whatever save it comes.
THEOREM RestoresComplete == Spec => []RestoredComplete
BY Invariant, PTL DEF IInv

-----------------------------------------------------------------------------
(* The order of use. *)

\* One block was used after another when it comes before it in the list.
LEMMA NewerMeans ==
    ASSUME NEW s, NEW n \in Int, Len(s) = n, DOMAIN s = 1 .. n
    PROVE  \A e : e \in NewerIn(s) <=> \E i, j \in 1 .. n : i < j /\ e = <<s[i], s[j]>>
<1>1. ASSUME NEW e, e \in NewerIn(s)
      PROVE  \E i, j \in 1 .. n : i < j /\ e = <<s[i], s[j]>>
  <2>1. PICK i \in 1 .. n : e \in {<<s[i], s[j]>> : j \in i + 1 .. n}
    BY <1>1 DEF NewerIn
  <2>2. PICK j \in i + 1 .. n : e = <<s[i], s[j]>>
    BY <2>1
  <2> QED BY <2>2
<1>2. ASSUME NEW i \in 1 .. n, NEW j \in 1 .. n, i < j
      PROVE  <<s[i], s[j]>> \in NewerIn(s)
  <2>1. j \in i + 1 .. n
    BY <1>2
  <2> QED BY <2>1 DEF NewerIn
<1> QED BY <1>1, <1>2

\* The order names the blocks of its list only.
LEMMA NewerRange ==
    ASSUME NEW s, IsList(s)
    PROVE  \A e \in NewerIn(s) : e[1] \in Range(s) /\ e[2] \in Range(s)
<1>1. PICK n \in Nat : n = Len(s) /\ DOMAIN s = 1 .. n
  BY DEF IsList
<1>2. ASSUME NEW e \in NewerIn(s)
      PROVE  e[1] \in Range(s) /\ e[2] \in Range(s)
  <2>1. PICK i \in 1 .. n, j \in 1 .. n : i < j /\ e = <<s[i], s[j]>>
    BY <1>1, NewerMeans
  <2>2. e[1] = s[i] /\ e[2] = s[j]
    BY <2>1
  <2> QED BY <1>1, <2>2 DEF Range
<1> QED BY <1>2

\* Dropping a block takes it out of the order and leaves the rest of it.
LEMMA DroppedOrder ==
    ASSUME NEW s, IsList(s), NEW i \in 1 .. Len(s)
    PROVE  NewerIn(Dropped(s, i)) = {e \in NewerIn(s) : e[1] # s[i] /\ e[2] # s[i]}
<1>d. PICK d : d = Dropped(s, i)
  OBVIOUS
<1>n. PICK n \in Nat : n = Len(s)
  BY DEF IsList
<1>0. /\ DOMAIN s = 1 .. n /\ DOMAIN d = 1 .. n - 1 /\ Len(d) = n - 1
      /\ \A j \in 1 .. n - 1 : d[j] = IF j < i THEN s[j] ELSE s[j + 1]
      /\ \A j, k \in 1 .. n : s[j] = s[k] => j = k
      /\ i \in 1 .. n
  <2>1. IsList(d) /\ Len(d) = n - 1
    BY <1>d, <1>n, DroppedFacts
  <2>2. DOMAIN d = 1 .. n - 1
    BY <1>n, <2>1 DEF IsList
  <2>3. DOMAIN s = 1 .. n /\ \A j, k \in 1 .. n : s[j] = s[k] => j = k
    BY <1>n DEF IsList, IsInjective
  <2>4. \A j \in 1 .. Len(s) - 1 : Dropped(s, i)[j] = IF j < i THEN s[j] ELSE s[j + 1]
    BY DroppedAt
  <2>5. i \in 1 .. n /\ \A j \in 1 .. n - 1 : d[j] = IF j < i THEN s[j] ELSE s[j + 1]
    BY <1>d, <1>n, <2>4
  <2> QED BY <2>1, <2>2, <2>3, <2>5
<1>1. /\ \A e : e \in NewerIn(s) <=> \E j, k \in 1 .. n : j < k /\ e = <<s[j], s[k]>>
      /\ \A e : e \in NewerIn(d) <=> \E j, k \in 1 .. n - 1 : j < k /\ e = <<d[j], d[k]>>
  <2>0. n \in Int /\ Len(s) = n /\ DOMAIN s = 1 .. n
    BY <1>n, <1>0
  <2>1. \A e : e \in NewerIn(s) <=> \E j, k \in 1 .. n : j < k /\ e = <<s[j], s[k]>>
    BY <2>0, NewerMeans
  <2>2. n - 1 \in Int /\ Len(d) = n - 1 /\ DOMAIN d = 1 .. n - 1
    BY <1>0
  <2>3. \A e : e \in NewerIn(d) <=> \E j, k \in 1 .. n - 1 : j < k /\ e = <<d[j], d[k]>>
    BY <2>2, NewerMeans
  <2> QED BY <2>1, <2>3
<1>2. ASSUME NEW j \in 1 .. n - 1, NEW k \in 1 .. n - 1, j < k
      PROVE  /\ <<d[j], d[k]>> \in NewerIn(s)
             /\ d[j] # s[i] /\ d[k] # s[i]
  <2>1. PICK a \in 1 .. n : a = (IF j < i THEN j ELSE j + 1)
    BY <1>0
  <2>2. PICK b \in 1 .. n : b = (IF k < i THEN k ELSE k + 1)
    BY <1>0
  <2>3. d[j] = s[a] /\ d[k] = s[b]
    BY <1>0, <2>1, <2>2
  <2>4. a < b /\ a # i /\ b # i
    BY <1>0, <1>2, <2>1, <2>2
  <2> QED BY <1>0, <1>1, <2>3, <2>4
<1>3. ASSUME NEW a \in 1 .. n, NEW b \in 1 .. n, a < b, s[a] # s[i], s[b] # s[i]
      PROVE  <<s[a], s[b]>> \in NewerIn(d)
  <2>0. a # i /\ b # i
    BY <1>3
  <2>1. PICK j \in 1 .. n - 1 : a = (IF j < i THEN j ELSE j + 1)
    <3>1. (IF a < i THEN a ELSE a - 1) \in 1 .. n - 1
      BY <1>0, <1>3, <2>0
    <3>2. a = IF (IF a < i THEN a ELSE a - 1) < i THEN (IF a < i THEN a ELSE a - 1)
                                                  ELSE (IF a < i THEN a ELSE a - 1) + 1
      BY <1>0, <2>0
    <3> QED BY <3>1, <3>2
  <2>2. PICK k \in 1 .. n - 1 : b = (IF k < i THEN k ELSE k + 1)
    <3>1. (IF b < i THEN b ELSE b - 1) \in 1 .. n - 1
      BY <1>0, <1>3, <2>0
    <3>2. b = IF (IF b < i THEN b ELSE b - 1) < i THEN (IF b < i THEN b ELSE b - 1)
                                                  ELSE (IF b < i THEN b ELSE b - 1) + 1
      BY <1>0, <2>0
    <3> QED BY <3>1, <3>2
  <2>3. j < k
    BY <1>0, <1>3, <2>1, <2>2
  <2>4. d[j] = s[a] /\ d[k] = s[b]
    BY <1>0, <2>1, <2>2
  <2> QED BY <1>1, <2>3, <2>4
<1>4. \A e : e \in NewerIn(d) => e \in NewerIn(s) /\ e[1] # s[i] /\ e[2] # s[i]
  <2> SUFFICES ASSUME NEW e, e \in NewerIn(d)
               PROVE  e \in NewerIn(s) /\ e[1] # s[i] /\ e[2] # s[i]
    OBVIOUS
  <2>1. PICK j \in 1 .. n - 1, k \in 1 .. n - 1 : j < k /\ e = <<d[j], d[k]>>
    BY <1>1
  <2>2. e[1] = d[j] /\ e[2] = d[k]
    BY <2>1
  <2> QED BY <1>2, <2>1, <2>2
<1>5. \A e : e \in NewerIn(s) /\ e[1] # s[i] /\ e[2] # s[i] => e \in NewerIn(d)
  <2> SUFFICES ASSUME NEW e, e \in NewerIn(s), e[1] # s[i], e[2] # s[i]
               PROVE  e \in NewerIn(d)
    OBVIOUS
  <2>1. PICK a \in 1 .. n, b \in 1 .. n : a < b /\ e = <<s[a], s[b]>>
    BY <1>1
  <2>2. e[1] = s[a] /\ e[2] = s[b]
    BY <2>1
  <2> QED BY <1>3, <2>1, <2>2
<1>6. NewerIn(d) = {e \in NewerIn(s) : e[1] # s[i] /\ e[2] # s[i]}
  BY <1>4, <1>5
<1> QED BY <1>d, <1>6

\* A block in front of a list was used after each of the others.
LEMMA FrontOrder ==
    ASSUME NEW s, IsList(s), NEW p \in Prefixes, p \notin Range(s)
    PROVE  NewerIn(<<p>> \o s) = NewerIn(s) \cup {<<p, q>> : q \in Range(s)}
<1>d. PICK d : d = <<p>> \o s
  OBVIOUS
<1>n. PICK n \in Nat : n = Len(s)
  BY DEF IsList
<1>0. /\ DOMAIN s = 1 .. n /\ DOMAIN d = 1 .. n + 1 /\ Len(d) = n + 1
      /\ d[1] = p /\ \A j \in 2 .. n + 1 : d[j] = s[j - 1]
  <2>1. s \in Seq(Prefixes)
    BY DEF IsList
  <2> QED BY <1>d, <1>n, <2>1
<1>1. /\ \A e : e \in NewerIn(s) <=> \E j, k \in 1 .. n : j < k /\ e = <<s[j], s[k]>>
      /\ \A e : e \in NewerIn(d) <=> \E j, k \in 1 .. n + 1 : j < k /\ e = <<d[j], d[k]>>
  <2>0. n \in Int /\ Len(s) = n /\ DOMAIN s = 1 .. n
    BY <1>n, <1>0
  <2>1. \A e : e \in NewerIn(s) <=> \E j, k \in 1 .. n : j < k /\ e = <<s[j], s[k]>>
    BY <2>0, NewerMeans
  <2>2. n + 1 \in Int /\ Len(d) = n + 1 /\ DOMAIN d = 1 .. n + 1
    BY <1>0
  <2>3. \A e : e \in NewerIn(d) <=> \E j, k \in 1 .. n + 1 : j < k /\ e = <<d[j], d[k]>>
    BY <2>2, NewerMeans
  <2> QED BY <2>1, <2>3
<1>2. ASSUME NEW j \in 1 .. n + 1, NEW k \in 1 .. n + 1, j < k
      PROVE  <<d[j], d[k]>> \in NewerIn(s) \cup {<<p, q>> : q \in Range(s)}
  <2>1. k - 1 \in 1 .. n /\ d[k] = s[k - 1] /\ s[k - 1] \in Range(s)
    <3>1. k - 1 \in 1 .. n /\ k \in 2 .. n + 1
      BY <1>2
    <3> QED BY <1>0, <3>1 DEF Range
  <2>2. CASE j = 1
    BY <1>0, <2>1, <2>2
  <2>3. CASE j # 1
    <3>1. j - 1 \in 1 .. n /\ d[j] = s[j - 1] /\ j - 1 < k - 1
      BY <1>0, <1>2, <2>3
    <3> QED BY <1>1, <2>1, <3>1
  <2> QED BY <2>2, <2>3
<1>3. ASSUME NEW j \in 1 .. n, NEW k \in 1 .. n, j < k
      PROVE  <<s[j], s[k]>> \in NewerIn(d)
  <2>1. PICK a \in 2 .. n + 1 : a = j + 1
    OBVIOUS
  <2>2. PICK b \in 2 .. n + 1 : b = k + 1
    OBVIOUS
  <2>3. /\ a \in 1 .. n + 1 /\ b \in 1 .. n + 1 /\ a < b
        /\ a - 1 = j /\ b - 1 = k
    BY <1>3, <2>1, <2>2
  <2>4. d[a] = s[j] /\ d[b] = s[k]
    BY <1>0, <2>3
  <2> QED BY <1>1, <2>3, <2>4
<1>4. ASSUME NEW q \in Range(s)
      PROVE  <<p, q>> \in NewerIn(d)
  <2>1. PICK j \in 1 .. n : q = s[j]
    BY <1>0 DEF Range
  <2>2. PICK a \in 2 .. n + 1 : a = j + 1
    OBVIOUS
  <2>3. 1 \in 1 .. n + 1 /\ a \in 1 .. n + 1 /\ 1 < a /\ a - 1 = j
    BY <2>2
  <2>4. d[a] = q /\ d[1] = p
    BY <1>0, <2>1, <2>3
  <2> QED BY <1>1, <2>3, <2>4
<1>5. NewerIn(d) \subseteq NewerIn(s) \cup {<<p, q>> : q \in Range(s)}
  BY <1>1, <1>2
<1>6. NewerIn(s) \cup {<<p, q>> : q \in Range(s)} \subseteq NewerIn(d)
  BY <1>1, <1>3, <1>4
<1>7. NewerIn(d) = NewerIn(s) \cup {<<p, q>> : q \in Range(s)}
  BY <1>5, <1>6
<1> QED BY <1>d, <1>7

\* touch takes a block out of the order and makes it the last used.
LEMMA TouchedOrder ==
    ASSUME IsList(lru), NEW p \in Prefixes, p \in Range(lru)
    PROVE  NewerIn(Touched(p)) = {e \in NewerIn(lru) : e[1] # p /\ e[2] # p}
                                 \cup {<<p, q>> : q \in Range(lru) \ {p}}
<1>1. Len(lru) \in Nat /\ DOMAIN lru = 1 .. Len(lru)
  BY DEF IsList
<1>2. \E i \in 1 .. Len(lru) : lru[i] = p
  BY <1>1 DEF Range
<1>3. PICK i \in 1 .. Len(lru) : i = IndexIn(lru, p) /\ lru[i] = p
  BY <1>2 DEF IndexIn
<1>4. PICK d : d = Dropped(lru, i)
  OBVIOUS
<1>5. IsList(d) /\ Range(d) = Range(lru) \ {p}
  BY <1>3, <1>4, DroppedFacts
<1>6. NewerIn(d) = {e \in NewerIn(lru) : e[1] # p /\ e[2] # p}
  BY <1>3, <1>4, DroppedOrder
<1>7. Touched(p) = <<p>> \o d
  BY <1>3, <1>4 DEF Touched
<1>8. NewerIn(<<p>> \o d) = NewerIn(d) \cup {<<p, q>> : q \in Range(d)}
  BY <1>5, FrontOrder
<1>9. NewerIn(Touched(p)) = NewerIn(d) \cup {<<p, q>> : q \in Range(d)}
  BY <1>7, <1>8
<1> QED BY <1>5, <1>6, <1>9

\* A list names as many blocks as it is long.
LEMMA ListSize ==
    ASSUME NEW s, IsList(s)
    PROVE  Cardinality(Range(s)) = Len(s)
<1>n. PICK n \in Nat : n = Len(s) /\ DOMAIN s = 1 .. n
  BY DEF IsList
<1>1. IsFiniteSet(1 .. n) /\ Cardinality(1 .. n) = n
  <2>1. /\ IsFiniteSet(1 .. n)
        /\ Cardinality(1 .. n) = IF 1 > n THEN 0 ELSE n - 1 + 1
    BY FS_Interval
  <2> QED BY <2>1
<1>2. \A j, k \in 1 .. n : s[j] = s[k] => j = k
  BY <1>n DEF IsList, IsInjective
<1>3. s \in [1 .. n -> Range(s)]
  BY <1>n DEF IsList, Range
<1>4. \A q \in Range(s) : \E j \in 1 .. n : s[j] = q
  BY <1>n DEF Range
<1>5. s \in Bijection(1 .. n, Range(s))
  BY <1>2, <1>3, <1>4 DEF Bijection, Injection, Surjection, IsInjective
<1>6. ExistsBijection(1 .. n, Range(s))
  BY <1>5 DEF ExistsBijection
<1>7. Cardinality(1 .. n) = Cardinality(Range(s))
  BY <1>1, <1>6, FS_Bijection
<1> QED BY <1>n, <1>1, <1>7

-----------------------------------------------------------------------------
(* Each step is one of the abstract cache, or none. *)

\* A call is given the next block of its prompt.
LEMMA GivenNext ==
    ASSUME TypeOK, NEW r \in Requests, NEW h \in Handles, want' = want,
           got' = [got EXCEPT ![r] = Append(@, h)]
    PROVE  Given' = [Given EXCEPT ![r] = @ \cup {SubSeq(want[r], 1, Len(got[r]) + 1)}]
<1> DEFINE part(q) == {SubSeq(want[q], 1, i) : i \in DOMAIN got[q]}
           part2(q) == {SubSeq(want[q], 1, i) : i \in DOMAIN got'[q]}
<1>1. got[r] \in Seq(Handles) /\ got'[r] = Append(got[r], h) /\ Len(got[r]) \in Nat
      /\ \A q \in Requests \ {r} : got'[q] = got[q]
  BY DEF TypeOK
<1>2. DOMAIN got'[r] = DOMAIN got[r] \cup {Len(got[r]) + 1}
  BY <1>1
<1>3. part2(r) = part(r) \cup {SubSeq(want[r], 1, Len(got[r]) + 1)}
  BY <1>2
<1>4. \A q \in Requests \ {r} : part2(q) = part(q)
  BY <1>1
<1>5. Given = [q \in Requests |-> part(q)] /\ Given' = [q \in Requests |-> part2(q)]
  BY DEF Given
<1> HIDE DEF part, part2
<1> QED BY <1>3, <1>4, <1>5

\* A call begins with nothing.
LEMMA StartLru ==
    ASSUME TypeOK, NEW kind \in {"match", "insert"}, NEW r \in Requests, NEW t \in Prompts,
           Start(kind, r, t), Saved' = Saved
    PROVE  Lru!Call(r)
<1>1. /\ got'[r] = <<>>
      /\ \A q \in Requests \ {r} : want'[q] = want[q] /\ got'[q] = got[q]
      /\ UNCHANGED <<capacity, lru, reading>>
  BY StartEffect
<1>2. {SubSeq(want'[r], 1, i) : i \in DOMAIN got'[r]} = {}
  BY <1>1
<1>3. Given' = [Given EXCEPT ![r] = {}]
  BY <1>1, <1>2 DEF Given
<1> QED BY <1>1, <1>3 DEF Lru!Call

\* A resident block that is found is used.
LEMMA ReuseLru ==
    ASSUME TypeOK, JobInv, ListMatchesMap, NEW kind \in {"match", "insert"}, Reuse(kind), Saved' = Saved
    PROVE  \E r \in Requests, p \in Prefixes : Lru!Use(r, p)
<1>1. PICK p \in Prefixes :
          /\ Resident(p) /\ lru' = Touched(p) /\ p = SubSeq(want[job.req], 1, job.i)
          /\ got' = [got EXCEPT ![job.req] = Append(@, handle[p])]
  BY DEF Reuse, AtBlock
<1>g. job.req \in Requests /\ Given' = [Given EXCEPT ![job.req] = @ \cup {p}]
  <2>1. /\ job.req \in Requests /\ job.i \in Nat /\ Len(got[job.req]) = job.i - 1
        /\ want' = want
    BY ReuseEffect DEF JobInv
  <2>2. Len(got[job.req]) + 1 = job.i
    BY <2>1
  <2>3. handle[p] \in Handles
    BY <1>1 DEF Resident, TypeOK
  <2> QED BY <1>1, <2>1, <2>2, <2>3, GivenNext
<1>2. IsList(lru) /\ p \in Range(lru)
  BY <1>1, LruFacts DEF Resident
<1>3. /\ Range(Touched(p)) = Range(lru)
      /\ NewerIn(Touched(p)) = {e \in NewerIn(lru) : e[1] # p /\ e[2] # p}
                               \cup {<<p, q>> : q \in Range(lru) \ {p}}
  BY <1>2, TouchedFacts, TouchedOrder
<1>4. /\ Range(lru') = Range(lru)
      /\ NewerIn(lru') = {e \in NewerIn(lru) : e[1] # p /\ e[2] # p}
                         \cup {<<p, q>> : q \in Range(lru) \ {p}}
  BY <1>1, <1>3
<1>5. capacity' = capacity /\ reading' = reading
  BY DEF Reuse
<1>6. Lru!Use(job.req, p)
  BY <1>g, <1>2, <1>4, <1>5 DEF Lru!Use, Lru!Give, Lru!OnTop, Lru!Without
<1> QED BY <1>g, <1>6

\* A block that is created is added, as the last used.
LEMMA InsertLru ==
    ASSUME TypeOK, JobInv, ListMatchesMap, InsertNew, Saved' = Saved
    PROVE  \E r \in Requests, p \in Prefixes : Lru!Add(r, p)
<1>1. PICK p \in Prefixes :
          ~Resident(p) /\ lru' = <<p>> \o lru /\ p = SubSeq(want[job.req], 1, job.i)
  BY DEF InsertNew, Create, AtBlock
<1>g. job.req \in Requests /\ Given' = [Given EXCEPT ![job.req] = @ \cup {p}]
  <2>1. /\ job.req \in Requests /\ job.i \in Nat /\ Len(got[job.req]) = job.i - 1
        /\ nextID' \in Handles /\ got' = [got EXCEPT ![job.req] = Append(@, nextID')]
        /\ want' = want
    BY InsertEffect DEF JobInv
  <2>2. Len(got[job.req]) + 1 = job.i
    BY <2>1
  <2>3. PICK h \in Handles : h = nextID'
    BY <2>1
  <2> QED BY <1>1, <2>1, <2>2, <2>3, GivenNext
<1>2. IsList(lru) /\ p \notin Range(lru)
  BY <1>1, LruFacts DEF Resident
<1>3. PICK s : s = lru
  OBVIOUS
<1>4. /\ Range(<<p>> \o s) = Range(s) \cup {p}
      /\ NewerIn(<<p>> \o s) = NewerIn(s) \cup {<<p, q>> : q \in Range(s)}
      /\ \A e \in NewerIn(s) : e[1] \in Range(s) /\ e[2] \in Range(s)
  BY <1>2, <1>3, FrontFacts, FrontOrder, NewerRange
<1>5. {e \in NewerIn(s) : e[1] # p /\ e[2] # p} = NewerIn(s) /\ Range(s) \ {p} = Range(s)
  BY <1>2, <1>3, <1>4
<1>6. /\ Range(lru') = Range(lru) \cup {p}
      /\ NewerIn(lru') = {e \in NewerIn(lru) : e[1] # p /\ e[2] # p}
                         \cup {<<p, q>> : q \in Range(lru) \ {p}}
  BY <1>1, <1>3, <1>4, <1>5
<1>7. capacity' = capacity /\ reading' = reading
  BY DEF InsertNew, Create
<1>8. Lru!Add(job.req, p)
  BY <1>g, <1>2, <1>6, <1>7 DEF Lru!Add, Lru!Give, Lru!OnTop, Lru!Without
<1> QED BY <1>g, <1>8

\* The abstract cache counts its blocks as this module does.
LEMMA SameSize == \A S : Lru!Cardinality(S) = Cardinality(S)
BY DEF Lru!Cardinality, Cardinality

\* The block that is dropped is the one nobody reads whose last use is longest ago.
LEMMA EvictLru ==
    ASSUME TypeOK, ListMatchesMap, IssuedInv, RefsExact, ReadersSafe, PinsRead, EvictOne, Saved' = Saved
    PROVE  \E p \in Prefixes : Lru!Evict(p)
<1>1. /\ IsList(lru) /\ Len(lru) \in Nat /\ DOMAIN lru = 1 .. Len(lru)
      /\ \A p \in Prefixes : p \in Range(lru) <=> handle[p] # 0
      /\ Range(lru) \subseteq Prefixes
  BY LruFacts
<1>2. Evictable \subseteq 1 .. Len(lru) /\ Evictable # {}
  BY DEF EvictOne, Evictable
<1>3. IsFiniteSet(Evictable) /\ Evictable \subseteq Nat
  <2>1. IsFiniteSet(1 .. Len(lru)) /\ 1 .. Len(lru) \subseteq Nat
    BY <1>1, FS_Interval
  <2> QED BY <1>2, <2>1, FS_Subset
<1>4. PICK i \in Evictable : i = Max(Evictable) /\ \A j \in Evictable : j <= i
  BY <1>2, <1>3, MaxIsGreatest
<1>5. lru' = Dropped(lru, i) /\ capacity' = capacity /\ reading' = reading /\ Given' = Given
  BY <1>4 DEF EvictOne, Given
<1>6. i \in 1 .. Len(lru) /\ refs[lru[i]] = 0
  BY DEF Evictable
<1>7. PICK p \in Prefixes : p = lru[i]
  BY <1>1, <1>6 DEF IsList
<1>8. p \in Range(lru) /\ refs[p] = 0 /\ handle[p] # 0
  BY <1>1, <1>6, <1>7 DEF Range
<1>9. /\ Range(lru') = Range(lru) \ {p}
      /\ NewerIn(lru') = {e \in NewerIn(lru) : e[1] # p /\ e[2] # p}
  <2>1. PICK l : l = lru
    OBVIOUS
  <2>2. /\ Range(Dropped(l, i)) = Range(l) \ {l[i]}
        /\ NewerIn(Dropped(l, i)) = {e \in NewerIn(l) : e[1] # l[i] /\ e[2] # l[i]}
    BY <1>1, <1>6, <2>1, DroppedFacts, DroppedOrder
  <2> QED BY <1>5, <1>7, <2>1, <2>2
<1>10. \A q \in Prefixes : handle[q] # 0 =>
           (refs[q] = 0 <=> \A r \in Requests : q \notin reading[r])
  <2> SUFFICES ASSUME NEW q \in Prefixes, handle[q] # 0
               PROVE  refs[q] = 0 <=> \A r \in Requests : q \notin reading[r]
    OBVIOUS
  <2>1. IsFiniteSet(Readers(handle[q])) /\ refs[q] = Cardinality(Readers(handle[q]))
    BY CacheAssumption, FS_Subset DEF Readers, RefsExact, Resident
  <2>2. refs[q] = 0 <=> Readers(handle[q]) = {}
    BY <2>1, FS_EmptySet
  <2>3. \A r \in Requests : q \in reading[r] <=> handle[q] \in pins[r]
    BY DEF ReadersSafe, PinsRead, Resident
  <2> QED BY <2>2, <2>3 DEF Readers
<1>11. ~Lru!InUse(p)
  BY <1>8, <1>10 DEF Lru!InUse
<1>12. capacity > 0 /\ Lru!Cardinality(Range(lru)) > capacity
  BY <1>1, ListSize, SameSize DEF EvictOne, OverLimit
<1>13. ASSUME NEW q \in Range(lru) \ {p}
       PROVE  Lru!InUse(q) \/ <<q, p>> \in NewerIn(lru)
  <2>1. PICK j \in 1 .. Len(lru) : q = lru[j]
    BY <1>1 DEF Range
  <2>2. q \in Prefixes /\ handle[q] # 0
    BY <1>1
  <2>3. CASE refs[q] = 0
    <3>1. j \in Evictable
      BY <2>1, <2>3 DEF Evictable
    <3>2. j < i
      BY <1>3, <1>4, <1>7, <2>1, <3>1
    <3> QED BY <1>1, <1>6, <1>7, <2>1, <3>2, NewerMeans
  <2>4. CASE refs[q] # 0
    BY <1>10, <2>2, <2>4 DEF Lru!InUse
  <2> QED BY <2>3, <2>4
<1>14. Lru!Evict(p)
  BY <1>5, <1>8, <1>9, <1>11, <1>12, <1>13 DEF Lru!Evict, Lru!Without
<1> QED BY <1>14

\* Pin makes the resident blocks behind the handles those the request reads.
LEMMA PinLru ==
    ASSUME TypeOK, ListMatchesMap, GotInv, ReadersSafe, NEW r \in Requests, Pin(r), Saved' = Saved
    PROVE  Lru!Read(r)
<1>1. /\ pins[r] = {}
      /\ reading' = [reading EXCEPT ![r] = Behind(Range(got[r]))]
      /\ UNCHANGED <<capacity, lru, want, got>>
  BY PinEffect
<1>2. reading[r] = {}
  BY <1>1 DEF ReadersSafe
<1>3. reading'[r] = Behind(Range(got[r]))
  BY <1>1 DEF TypeOK
<1>4. Behind(Range(got[r])) \subseteq Range(lru)
  BY LruFacts DEF Behind, Resident
<1>5. Behind(Range(got[r])) \subseteq Given[r]
  <2> SUFFICES ASSUME NEW p \in Prefixes, Resident(p), handle[p] \in Range(got[r])
               PROVE  p \in Given[r]
    BY DEF Behind
  <2>1. PICK i \in DOMAIN got[r] : handle[p] = got[r][i]
    BY DEF Range
  <2> QED BY <2>1 DEF GotInv, Given
<1>6. Given' = Given
  BY <1>1 DEF Given
<1> QED BY <1>1, <1>2, <1>3, <1>4, <1>5, <1>6 DEF Lru!Read

\* Unpin ends the request's reading.
LEMMA UnpinLru ==
    ASSUME TypeOK, NEW r \in Requests, Unpin(r), Saved' = Saved
    PROVE  Lru!StopReading(r)
BY UnpinEffect DEF Lru!StopReading, Given

\* The manifest of a save lists the cache in its order.
LEMMA SavedSnapshot ==
    ASSUME TypeOK, ListMatchesMap
    PROVE  Names(Snapshot) = lru
<1>1. lru = [i \in 1 .. Len(lru) |-> lru[i]]
  BY DEF TypeOK
<1>2. DOMAIN Snapshot = 1 .. Len(lru) /\ \A i \in 1 .. Len(lru) : Snapshot[i][1] = lru[i]
  BY SnapshotFacts
<1>3. Names(Snapshot) = [i \in 1 .. Len(lru) |-> lru[i]]
  BY <1>2 DEF Names
<1> QED BY <1>1, <1>3

\* A file is written: the manifest saves the cache at once, a blob changes nothing.
LEMMA WriteLru ==
    ASSUME TypeOK, ListMatchesMap, SaveInv, WriteFile
    PROVE  Lru!Save \/ UNCHANGED Lru!vars
<1>1. PICK f \in Pending : Holding(f, Written(snap), IF f \in Handles THEN kv[f] ELSE NoBlock)
  BY DEF WriteFile
<1>2. UNCHANGED <<capacity, lru, reading, Given>>
  BY DEF WriteFile, cacheVars, Given
<1>3. CASE f = ManifestFile
  <2>1. snap = Snapshot
    BY <1>1 DEF Pending, SaveInv
  <2>2. manifest' = Written(Snapshot)
    BY <1>1, <1>3, <2>1 DEF Holding
  <2>3. manifest'.state = "written" /\ Names(manifest'.list) = lru
    BY <2>2, SavedSnapshot DEF Written
  <2>4. Saved' = {[cached |-> Range(lru), newer |-> NewerIn(lru)]}
    BY <2>3 DEF Saved
  <2> QED BY <1>2, <2>4 DEF Lru!Save
<1>4. CASE f # ManifestFile
  <2>1. Saved' = Saved
    BY <1>1, <1>4 DEF Holding, Saved
  <2> QED BY <1>2, <2>1 DEF Lru!vars
<1> QED BY <1>3, <1>4

\* A write that does not end loses what was saved, or leaves it.
LEMMA InterruptLru ==
    ASSUME Interrupt
    PROVE  Saved' = Saved \/ Saved' = {}
<1>1. TornManifest.state = "torn"
  BY DEF TornManifest
<1>2. manifest' = manifest \/ manifest' = TornManifest
  BY DEF Interrupt, Holding
<1> QED BY <1>1, <1>2 DEF Saved

\* A crash leaves an empty cache, and what was saved unless a save was under way.
LEMMA CrashLru ==
    ASSUME Crash
    PROVE  Lru!Crash
<1>1. /\ capacity' \in Nat /\ lru' = <<>> /\ reading' = NoPins
  BY CacheAssumption DEF Crash, Renew
<1>2. Range(<<>>) = {} /\ NewerIn(<<>>) = {}
  BY DEF Range, NewerIn
<1>3. Range(lru') = {} /\ NewerIn(lru') = {}
  BY <1>1, <1>2
<1>4. Saved' \in {Saved, {}}
  BY InterruptLru DEF Crash
<1>5. Given' = NoPins
  <2>1. got' = NoCalls
    BY DEF Crash, Renew
  <2> QED BY <2>1 DEF Given, NoCalls, NoPins
<1> QED BY <1>1, <1>3, <1>4, <1>5 DEF Lru!Crash, Lru!Nobody, NoPins

\* A restart brings back the cache that was saved, with its order.
LEMMA RestoreLru ==
    ASSUME TypeOK, DownInv, Restore
    PROVE  Lru!Restore
<1>1. /\ ~up /\ manifest.state = "written" /\ lru' = Names(manifest.list)
      /\ UNCHANGED <<capacity, reading, manifest, Given>>
  BY DEF Restore, RestoreFrom, Restorable, Readable, Names, Given, diskVars
<1>2. lru = <<>>
  BY <1>1 DEF DownInv
<1>3. Range(lru) = {}
  BY <1>2 DEF Range
<1>4. Saved = {[cached |-> Range(lru'), newer |-> NewerIn(lru')]} /\ Saved' = Saved
  BY <1>1 DEF Saved
<1> QED BY <1>1, <1>3, <1>4 DEF Lru!Restore

\* The first states are those of an empty cache with nothing saved.
LEMMA InitLru == Init => Lru!Init
<1> SUFFICES ASSUME Init
             PROVE  Lru!Init
  OBVIOUS
<1>1. capacity \in Nat /\ lru = <<>> /\ reading = NoPins /\ manifest = Absent
  BY CacheAssumption DEF Init, CacheInit
<1>2. Range(lru) = {} /\ NewerIn(lru) = {}
  BY <1>1 DEF Range, NewerIn
<1>3. Saved = {}
  BY <1>1 DEF Saved, Absent
<1>4. Given = NoPins
  BY DEF Init, CacheInit, Given, NoCalls, NoPins
<1> QED BY <1>1, <1>2, <1>3, <1>4 DEF Lru!Init, Lru!Nobody, NoPins

\* Every step of the store is a step of the abstract cache, or none.
LEMMA NextLru == IInv /\ [Next]_vars => [Lru!Next]_(Lru!vars)
<1> SUFFICES ASSUME IInv, [Next]_vars
             PROVE  Lru!Next \/ UNCHANGED Lru!vars
  OBVIOUS
<1>0. /\ TypeOK /\ JobInv /\ ListMatchesMap /\ IssuedInv /\ GotInv
      /\ RefsExact /\ ReadersSafe /\ PinsRead
      /\ DownInv /\ ListsInv /\ SaveInv
  BY DEF IInv
<1>1. CASE CacheNext /\ UNCHANGED storeVars
  <2>0. Saved' = Saved
    BY <1>1 DEF storeVars, diskVars, Saved
  <2>1. CASE MatchEnd \/ InsertEnd \/ EvictEnd
    <3>1. UNCHANGED <<capacity, lru, reading, Given>>
      BY <2>1 DEF MatchEnd, InsertEnd, Finish, EvictEnd, Given
    <3> QED BY <2>0, <3>1 DEF Lru!vars
  <2>6. CASE \E r \in Requests, t \in Prompts : Start("match", r, t) \/ StartInsert(r, t)
    <3>1. \A r \in Requests, t \in Prompts : StartInsert(r, t) => Start("insert", r, t)
      BY DEF StartInsert
    <3> QED BY <1>0, <2>0, <2>6, <3>1, StartLru DEF Lru!Next
  <2>2. CASE \E kind \in {"match", "insert"} : Reuse(kind)
    BY <1>0, <2>0, <2>2, ReuseLru DEF Lru!Next
  <2>3. CASE InsertNew
    BY <1>0, <2>0, <2>3, InsertLru DEF Lru!Next
  <2>4. CASE EvictOne
    BY <1>0, <2>0, <2>4, EvictLru DEF Lru!Next
  <2>5. CASE \E r \in Requests : Pin(r) \/ Unpin(r)
    BY <1>0, <2>0, <2>5, PinLru, UnpinLru DEF Lru!Next
  <2> QED BY <1>1, <2>1, <2>2, <2>3, <2>4, <2>5, <2>6, CacheKinds
<1>2. CASE SaveStart \/ BootCold \/ UNCHANGED vars
  <2>1. UNCHANGED <<capacity, lru, reading, manifest, Given>>
    BY <1>2 DEF SaveStart, BootCold, vars, storeVars, diskVars, cacheVars, Given
  <2> QED BY <2>1 DEF Lru!vars, Saved
<1>3. CASE WriteFile
  BY <1>0, <1>3, WriteLru DEF Lru!Next
<1>4. CASE SaveFail
  <2>1. UNCHANGED <<capacity, lru, reading, Given>> /\ Interrupt
    BY <1>4 DEF SaveFail, cacheVars, Given
  <2> QED BY <2>1, InterruptLru DEF Lru!Next, Lru!LoseSaved, Lru!vars
<1>5. CASE Crash
  BY <1>5, CrashLru DEF Lru!Next
<1>6. CASE Restore
  BY <1>0, <1>6, RestoreLru DEF Lru!Next
<1> QED BY <1>1, <1>2, <1>3, <1>4, <1>5, <1>6, StepKinds

\* For any prompts, requests, capacities and number of handles the cache, with its
\* list, its counts and the files of its saves, is a cache of which one can say: a
\* block is dropped only over the limit, when nobody reads it and each block used
\* longer ago is read; a save is of one moment; a restart brings back that moment,
\* order included, or nothing.
THEOREM Refinement == Spec => ImplementsLru
BY InitLru, NextLru, Invariant, PTL DEF Spec, ImplementsLru, Lru!Spec

\* The order of a list of distinct blocks is total and strict.
TotalOrder(S, R) ==
    /\ \A p, q \in S : p # q => <<p, q>> \in R \/ <<q, p>> \in R
    /\ \A p, q \in S : ~(<<p, q>> \in R /\ <<q, p>> \in R)
    /\ \A p, q, x \in S : <<p, q>> \in R /\ <<q, x>> \in R => <<p, x>> \in R
LEMMA ListOrder ==
    ASSUME NEW s, IsList(s)
    PROVE  TotalOrder(Range(s), NewerIn(s))
<1>1. PICK n \in Nat : n = Len(s) /\ DOMAIN s = 1 .. n
  BY DEF IsList
<1>2. \A i, j \in 1 .. n : s[i] = s[j] => i = j
  BY <1>1 DEF IsList, IsInjective
<1>3. \A p \in Range(s) : \E i \in 1 .. n : p = s[i]
  BY <1>1 DEF Range
<1>4. ASSUME NEW i \in 1 .. n, NEW j \in 1 .. n
      PROVE  <<s[i], s[j]>> \in NewerIn(s) <=> i < j
  <2>1. ASSUME <<s[i], s[j]>> \in NewerIn(s)
        PROVE  i < j
    <3>1. PICK a \in 1 .. n, b \in 1 .. n : a < b /\ <<s[i], s[j]>> = <<s[a], s[b]>>
      BY <1>1, <2>1, NewerMeans
    <3>2. s[i] = s[a] /\ s[j] = s[b]
      BY <3>1
    <3>3. i = a /\ j = b
      BY <1>2, <3>2
    <3> QED BY <3>1, <3>3
  <2>2. i < j => <<s[i], s[j]>> \in NewerIn(s)
    BY <1>1, NewerMeans
  <2> QED BY <2>1, <2>2
<1>5. ASSUME NEW p \in Range(s), NEW q \in Range(s)
      PROVE  /\ p # q => <<p, q>> \in NewerIn(s) \/ <<q, p>> \in NewerIn(s)
             /\ ~(<<p, q>> \in NewerIn(s) /\ <<q, p>> \in NewerIn(s))
  <2>1. PICK i \in 1 .. n, j \in 1 .. n : p = s[i] /\ q = s[j]
    BY <1>3
  <2>2. p # q => i < j \/ j < i
    BY <2>1
  <2> QED BY <1>4, <2>1, <2>2
<1>6. ASSUME NEW p \in Range(s), NEW q \in Range(s), NEW x \in Range(s),
             <<p, q>> \in NewerIn(s), <<q, x>> \in NewerIn(s)
      PROVE  <<p, x>> \in NewerIn(s)
  <2>1. PICK i \in 1 .. n, j \in 1 .. n, k \in 1 .. n : p = s[i] /\ q = s[j] /\ x = s[k]
    BY <1>3
  <2>2. i < j /\ j < k
    BY <1>4, <1>6, <2>1
  <2>3. i < k
    BY <2>2
  <2> QED BY <1>4, <2>1, <2>3
<1> QED BY <1>5, <1>6 DEF TotalOrder

\* The oldest of the blocks that nobody reads: the condition under which Lru!Evict drops
\* a block.
Oldest(p) ==
    /\ p \in Range(lru) /\ ~Lru!InUse(p)
    /\ \A q \in Range(lru) \ {p} : Lru!InUse(q) \/ <<q, p>> \in NewerIn(lru)
OrderInv ==
    /\ TotalOrder(Range(lru), NewerIn(lru))
    /\ \A p, q \in Range(lru) : Oldest(p) /\ Oldest(q) => p = q

\* In every reachable state any two cached blocks can be told apart by their last use,
\* also after a restart that loads them from a file, and at most one is the oldest that
\* nobody reads: the abstract cache has no choice of what to drop (touch, Insert and
\* evict; Restore).
THEOREM OneVictim == Spec => []OrderInv
<1>1. ASSUME IInv
      PROVE  OrderInv
  <2>1. IsList(lru)
    BY <1>1, LruFacts DEF IInv
  <2>2. TotalOrder(Range(lru), NewerIn(lru))
    BY <2>1, ListOrder
  <2>3. ASSUME NEW p \in Range(lru), NEW q \in Range(lru), Oldest(p), Oldest(q), p # q
        PROVE  FALSE
    <3>1. <<q, p>> \in NewerIn(lru) /\ <<p, q>> \in NewerIn(lru)
      BY <2>3 DEF Oldest
    <3> QED BY <2>2, <3>1 DEF TotalOrder
  <2> QED BY <2>2, <2>3 DEF OrderInv
<1> QED BY <1>1, Invariant, PTL
=============================================================================
