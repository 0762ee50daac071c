------------------------------- MODULE LruCache -------------------------------
(***************************************************************************)
(* What the prefix cache of src/cache promises, without its list, map,      *)
(* handles, reference counts and files: "eviction is least-recently-used    *)
(* over the blocks that no in-flight request is holding", and a saved       *)
(* snapshot is "enough to rebuild an equivalent cache".                     *)
(***************************************************************************)
EXTENDS Naturals, FiniteSets

CONSTANTS
    Blocks,   \* what may be cached
    Requests  \* who may read it

VARIABLES
    limit,    \* blocks to keep; 0 keeps all
    cached,   \* the cached blocks
    newer,    \* <<p, q>>: the last use of p came after that of q
    given,    \* blocks the last call of each request was given
    reading,  \* blocks each request reads
    saved     \* the snapshot a next life can restore, or none: cached and newer

vars == <<limit, cached, newer, given, reading, saved>>

Nobody == [r \in Requests |-> {}]

Init ==
    /\ limit \in Nat
    /\ cached = {} /\ newer = {}
    /\ given = Nobody
    /\ reading = Nobody
    /\ saved = {}

InUse(p) == \E r \in Requests : p \in reading[r]

\* The order without p, and with p as the last block used.
Without(p) == {e \in newer : e[1] # p /\ e[2] # p}
OnTop(p) == Without(p) \cup {<<p, q>> : q \in cached \ {p}}

\* A request makes a call, and is given one block after another: a cached one is
\* used, another is added.
Call(r) ==
    /\ given' = [given EXCEPT ![r] = {}]
    /\ UNCHANGED <<limit, cached, newer, reading, saved>>

Give(r, p) == given' = [given EXCEPT ![r] = @ \cup {p}]

Use(r, p) ==
    /\ p \in cached
    /\ Give(r, p)
    /\ UNCHANGED <<limit, cached, reading, saved>>
    /\ newer' = OnTop(p)

Add(r, p) ==
    /\ p \notin cached
    /\ Give(r, p)
    /\ cached' = cached \cup {p}
    /\ newer' = OnTop(p)
    /\ UNCHANGED <<limit, reading, saved>>

\* Only over the limit, only what nobody reads, and the oldest of that.
Evict(p) ==
    /\ limit > 0 /\ Cardinality(cached) > limit
    /\ p \in cached
    /\ ~InUse(p)
    /\ \A q \in cached \ {p} : InUse(q) \/ <<q, p>> \in newer
    /\ cached' = cached \ {p}
    /\ newer' = Without(p)
    /\ UNCHANGED <<limit, given, reading, saved>>

\* It reads what it was given, but for blocks that were evicted since.
Read(r) ==
    /\ reading[r] = {}
    /\ reading'[r] \subseteq given[r] \cap cached
    /\ reading' = [reading EXCEPT ![r] = reading'[r]]
    /\ UNCHANGED <<limit, cached, newer, given, saved>>

StopReading(r) ==
    /\ reading' = [reading EXCEPT ![r] = {}]
    /\ UNCHANGED <<limit, cached, newer, given, saved>>

Save ==
    /\ UNCHANGED <<limit, given, reading, cached, newer>>
    /\ saved' = {[cached |-> cached, newer |-> newer]}

LoseSaved ==
    /\ UNCHANGED <<limit, given, reading, cached, newer>>
    /\ saved' = {}

\* The process ends; a save it was at may be lost.
Crash ==
    /\ cached' = {} /\ newer' = {}
    /\ given' = Nobody
    /\ reading' = Nobody
    /\ limit' \in Nat
    /\ saved' \in {saved, {}}

Restore ==
    /\ cached = {}
    /\ \E s \in saved : cached' = s.cached /\ newer' = s.newer
    /\ UNCHANGED <<limit, given, reading, saved>>

Next ==
    \/ Crash \/ Save \/ LoseSaved \/ Restore
    \/ \E r \in Requests :
         \/ Call(r) \/ Read(r) \/ StopReading(r)
         \/ \E p \in Blocks : Use(r, p) \/ Add(r, p)
    \/ \E p \in Blocks : Evict(p)

Spec == Init /\ [][Next]_vars

=============================================================================
