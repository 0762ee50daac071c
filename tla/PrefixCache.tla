------------------------------ MODULE PrefixCache ------------------------------
(***************************************************************************)
(* The prefix cache of src/cache/prefix.go, driven by one goroutine on      *)
(* behalf of many requests.  A call runs to its end before the next starts; *)
(* what interleaves is the requests' calls, with evictions in between.      *)
(*                                                                          *)
(* A prompt is the sequence of its whole blocks (a trailing partial block   *)
(* is never looked at), and a block is named by the prefix that ends with   *)
(* it: blockHash chains the whole prefix, and its collisions are not        *)
(* modelled.  The hit and miss counters are left out.  The capacity is the  *)
(* smaller of the block limit and the blocks that fit the byte budget; a    *)
(* budget that is too small for one block is not modelled.                  *)
(***************************************************************************)
EXTENDS Integers, Sequences, FiniteSets, FiniteSetsExt, Functions

CONSTANTS
    Prompts,    \* prompts, as sequences of blocks
    Requests,   \* requests that use the cache
    Capacities, \* limits on resident blocks; 0 disables eviction
    MaxHandle   \* bound: handles issued in one life of the process

ASSUME CacheAssumption ==
    /\ IsFiniteSet(Requests)
    /\ Capacities \subseteq Nat
    /\ MaxHandle \in Nat

\* Prompts are sequences.
ASSUME PromptsAssumption == \A t \in Prompts : t \in Seq(Range(t))

Prefixes == UNION {{SubSeq(t, 1, k) : k \in 1..Len(t)} : t \in Prompts}
Handles == 1..MaxHandle
NoBlock == <<>>
Torn == <<"torn">>  \* the contents of a file whose write did not end

VARIABLES
    capacity,
    lru,      \* resident blocks, most recently used first
    handle,   \* handle of each block, 0 when it is not resident
    refs,     \* readers that pinned it
    nextID,
    job,      \* the call that runs: its kind, its request, its next block
    want,     \* prompt of each request's last Match or Insert
    got,      \* handles that call has returned
    pins,     \* handles each request has given to Pin and not to Unpin
    reading,  \* history: blocks that were resident when the request pinned them
    kv        \* external: the prefix whose keys and values a handle stands for

cacheVars == <<capacity, lru, handle, refs, nextID, job, want, got, pins, reading, kv>>

Idle == [kind |-> "idle", req |-> {}, i |-> 0]

Unpinned == [p \in Prefixes |-> 0]
Uncached == [p \in Prefixes |-> 0]
NoCalls == [r \in Requests |-> <<>>]
NoPins == [r \in Requests |-> {}]
NoState == [h \in Handles |-> NoBlock]

CacheInit ==
    /\ capacity \in Capacities
    /\ lru = <<>> /\ handle = Uncached /\ refs = Unpinned
    /\ nextID = 0
    /\ job = Idle
    /\ want = NoCalls /\ got = NoCalls
    /\ pins = NoPins /\ reading = NoPins
    /\ kv = NoState

\* NewPrefixCache in a new process.
Renew ==
    /\ capacity' \in Capacities
    /\ lru' = <<>> /\ handle' = Uncached /\ refs' = Unpinned
    /\ nextID' = 0
    /\ job' = Idle
    /\ want' = NoCalls /\ got' = NoCalls
    /\ pins' = NoPins /\ reading' = NoPins
    /\ kv' = NoState

Resident(p) == handle[p] # 0
Dropped(s, i) == SubSeq(s, 1, i - 1) \o SubSeq(s, i + 1, Len(s))
IndexIn(s, p) == CHOOSE i \in 1..Len(s) : s[i] = p

\* Mutant of Touched: a block keeps its place.
Untouched(p) == lru

\* touch: move a block to the front.
Touched(p) == <<p>> \o Dropped(lru, IndexIn(lru, p))

\* The call that runs is of the given kind, and p is its next block.
AtBlock(kind, p) ==
    /\ job.kind = kind
    /\ job.i <= Len(want[job.req])
    /\ p = SubSeq(want[job.req], 1, job.i)

Start(kind, r, t) ==
    /\ job = Idle
    /\ job' = [kind |-> kind, req |-> r, i |-> 1]
    /\ want' = [want EXCEPT ![r] = t]
    /\ got' = [got EXCEPT ![r] = <<>>]
    /\ UNCHANGED <<capacity, lru, handle, refs, nextID, pins, reading, kv>>

\* The next block is resident: warm it and return its handle.
Reuse(kind) ==
    /\ \E p \in Prefixes :
         /\ AtBlock(kind, p)
         /\ Resident(p)
         /\ lru' = Touched(p)
         /\ got' = [got EXCEPT ![job.req] = Append(@, handle[p])]
    /\ job' = [kind |-> kind, req |-> job.req, i |-> job.i + 1]
    /\ UNCHANGED <<capacity, handle, refs, nextID, want, pins, reading, kv>>

Finish ==
    /\ job' = Idle
    /\ UNCHANGED <<capacity, lru, handle, refs, nextID, want, got, pins, reading, kv>>

(***************************************************************************)
(* Match                                                                    *)
(***************************************************************************)

StartMatch(r, t) == Start("match", r, t)
MatchNext == Reuse("match")

\* The prompt is exhausted or its next block is not cached.
MatchEnd ==
    /\ job.kind = "match"
    /\ ~\E p \in Prefixes : AtBlock("match", p) /\ Resident(p)
    /\ Finish

(***************************************************************************)
(* Insert and evict                                                         *)
(***************************************************************************)

StartInsert(r, t) == nextID + Len(t) <= MaxHandle /\ Start("insert", r, t)
InsertReuse == Reuse("insert")

\* Create the next block under handle h; the call goes on to evict.
Create(h) ==
    /\ \E p \in Prefixes :
         /\ AtBlock("insert", p)
         /\ ~Resident(p)
         /\ handle' = [handle EXCEPT ![p] = h]
         /\ lru' = <<p>> \o lru
         /\ kv' = [kv EXCEPT ![h] = p]
    /\ nextID' = h
    /\ got' = [got EXCEPT ![job.req] = Append(@, h)]
    /\ job' = [kind |-> "evict", req |-> job.req, i |-> job.i]
    /\ UNCHANGED <<capacity, refs, want, pins, reading>>

\* Mutant of InsertNew: handles follow the number of resident blocks.
CreateBySize == Create(Len(lru) + 1)

InsertNew == Create(nextID + 1)

\* Mutant of OverLimit: one block too many is let in.
OverLimitLoose == capacity > 0 /\ Len(lru) > capacity + 1

OverLimit == capacity > 0 /\ Len(lru) > capacity

\* Mutant of Evictable: pins are not looked at.
EvictableAny == 1..Len(lru)

Evictable == {i \in 1..Len(lru) : refs[lru[i]] = 0}

EvictOne ==
    /\ job.kind = "evict"
    /\ OverLimit
    /\ Evictable # {}
    /\ LET i == Max(Evictable)
       IN  /\ handle' = [handle EXCEPT ![lru[i]] = 0]
           /\ refs' = [refs EXCEPT ![lru[i]] = 0]
           /\ lru' = Dropped(lru, i)
    /\ UNCHANGED <<capacity, nextID, job, want, got, pins, reading, kv>>

EvictEnd ==
    /\ job.kind = "evict"
    /\ ~OverLimit \/ Evictable = {}
    /\ job' = [kind |-> "insert", req |-> job.req, i |-> job.i + 1]
    /\ UNCHANGED <<capacity, lru, handle, refs, nextID, want, got, pins, reading, kv>>

InsertEnd ==
    /\ job.kind = "insert"
    /\ job.i > Len(want[job.req])
    /\ Finish

(***************************************************************************)
(* Pin and Unpin                                                            *)
(***************************************************************************)

\* byHandle: the resident blocks behind a set of handles.
Behind(hs) == {p \in Prefixes : Resident(p) /\ handle[p] \in hs}

\* Pin the handles the request's last call returned; one that was evicted since
\* is passed over.
Pin(r) ==
    /\ job = Idle
    /\ pins[r] = {}
    /\ got[r] # <<>>
    /\ pins' = [pins EXCEPT ![r] = Range(got[r])]
    /\ reading' = [reading EXCEPT ![r] = Behind(Range(got[r]))]
    /\ refs' = [p \in Prefixes |-> IF p \in Behind(Range(got[r])) THEN refs[p] + 1 ELSE refs[p]]
    /\ UNCHANGED <<capacity, lru, handle, nextID, job, want, got, kv>>

\* The request gives its pins back; each block of bs loses a reader.
Release(r, bs) ==
    /\ job = Idle
    /\ pins[r] # {}
    /\ pins' = [pins EXCEPT ![r] = {}]
    /\ reading' = [reading EXCEPT ![r] = {}]
    /\ refs' = [p \in Prefixes |-> IF p \in bs THEN refs[p] - 1 ELSE refs[p]]
    /\ UNCHANGED <<capacity, lru, handle, nextID, job, want, got, kv>>

Pinned == {p \in Prefixes : refs[p] > 0}
PromptBlocks(r) == {SubSeq(want[r], 1, k) : k \in 1..Len(want[r])}

\* Mutants of Unpin: blocks are found by the request's prompt, not by handle, and
\* then also released when nobody has them pinned.
UnpinByPrompt(r) == Release(r, PromptBlocks(r) \cap Pinned)
UnpinUnguarded(r) == Release(r, PromptBlocks(r))

Unpin(r) == Release(r, Behind(pins[r]) \cap Pinned)

CacheNext ==
    \/ \E r \in Requests :
         \/ \E t \in Prompts : StartMatch(r, t) \/ StartInsert(r, t)
         \/ Pin(r) \/ Unpin(r)
    \/ MatchNext \/ MatchEnd
    \/ InsertReuse \/ InsertNew \/ EvictOne \/ EvictEnd \/ InsertEnd

CacheSpec == CacheInit /\ [][CacheNext]_cacheVars

-----------------------------------------------------------------------------
(* Properties *)

\* The list and the map hold the same blocks, each once, under handles of their
\* own that are not yet to be issued (prefix.go keeps both by hand).
ListMatchesMap ==
    /\ IsInjective(lru)
    /\ \A p \in Prefixes : Resident(p) <=> p \in Range(lru)
    /\ \A p, q \in Prefixes : Resident(p) /\ handle[p] = handle[q] => p = q
    /\ \A p \in Prefixes : handle[p] <= nextID

\* A block's reference count is the number of requests that hold a pin on its
\* handle: a Pin that was passed over, because its block was evicted after Match
\* or Insert returned the handle, never lowers another reader's count when its
\* Unpin comes (prefix.go Pin, Unpin).
RefsExact ==
    \A p \in Prefixes : Resident(p) =>
        refs[p] = Cardinality({r \in Requests : handle[p] \in pins[r]})

\* A block a request reads stays resident under its handle until that request
\* unpins it, whatever is inserted, evicted and unpinned by others meanwhile.
ReadersSafe ==
    \A r \in Requests : \A p \in reading[r] : Resident(p) /\ handle[p] \in pins[r]

\* Every handle a call returned stands for the keys and values of just that part
\* of its prompt, although the prompts share blocks and the cache evicted, and
\* reissued, any of them in between (prefix.go Match: "always a genuine prefix").
HandlesGenuine ==
    \A r \in Requests : \A i \in DOMAIN got[r] : kv[got[r][i]] = SubSeq(want[r], 1, i)

\* The state behind a resident block's handle is that block's own.
KVIdentity == \A p \in Prefixes : Resident(p) => kv[handle[p]] = p

=============================================================================
