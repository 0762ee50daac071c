----------------------------- MODULE BlockTables ------------------------------
(***************************************************************************)
(* The paged key/value blocks of src/cache/paged.go and the block tables of *)
(* src/cache/blocktable.go that share them.  One goroutine drives both, so  *)
(* a call is one step; what interleaves is the life of the sequences.       *)
(***************************************************************************)
EXTENDS Integers, Sequences, FiniteSets, Functions

CONSTANTS
    Blocks,     \* physical blocks of the pool
    BlockSize,  \* token slots of a block
    Tables,     \* one table per sequence
    MaxAppend   \* bound: tokens of one Append

ASSUME BlocksAssumption ==
    /\ IsFiniteSet(Blocks)
    /\ IsFiniteSet(Tables)
    /\ BlockSize \in Nat \ {0}
    /\ MaxAppend \in Nat

VARIABLES
    free,    \* BlockPool.free: the stack of free blocks
    refs,    \* BlockPool.refs
    blocks,  \* BlockTable.blocks of each table
    shared,  \* BlockTable.shared
    tokens   \* BlockTable.tokens

vars == <<free, refs, blocks, shared, tokens>>

Held(t) == Range(blocks[t])
Holders(b) == {t \in Tables : b \in Held(t)}
Full(t) == tokens[t] \div BlockSize

BlocksFor(n) == (n + BlockSize - 1) \div BlockSize

\* An order in which the elements of S may be listed.
Listings(S) == Bijection(1..Cardinality(S), S)

Init ==
    /\ free \in Listings(Blocks)
    /\ refs = [b \in Blocks |-> 0]
    /\ blocks = [t \in Tables |-> <<>>]
    /\ shared = [t \in Tables |-> 0]
    /\ tokens = [t \in Tables |-> 0]

\* AllocateN: pop k blocks off the stack, each with one reference.
Popped(k) == [i \in 1..k |-> free[Len(free) + 1 - i]]

\* Append n tokens, allocating the blocks that are missing.
AppendNeeding(t, n, need) ==
    LET ids == IF need > 0 THEN Popped(need) ELSE <<>>
    IN  /\ need <= Len(free)
        /\ free' = SubSeq(free, 1, Len(free) - Len(ids))
        /\ refs' = [b \in Blocks |-> IF b \in Range(ids) THEN 1 ELSE refs[b]]
        /\ blocks' = [blocks EXCEPT ![t] = @ \o ids]
        /\ tokens' = [tokens EXCEPT ![t] = @ + n]
        /\ UNCHANGED shared

\* Mutant of AppendOk: blocks counted by rounding down.
AppendRoundsDown(t, n) ==
    AppendNeeding(t, n, (tokens[t] + n) \div BlockSize - Len(blocks[t]))

\* ErrOutOfBlocks, when fewer blocks are free than are needed, changes nothing.
AppendOk(t, n) == AppendNeeding(t, n, BlocksFor(tokens[t] + n) - Len(blocks[t]))

\* Fork the empty table t on the given blocks, leaving refs as next.
ForkWith(t, ids, next) ==
    /\ blocks[t] = <<>>
    /\ refs' = next
    /\ blocks' = [blocks EXCEPT ![t] = ids]
    /\ shared' = [shared EXCEPT ![t] = Len(ids)]
    /\ tokens' = [tokens EXCEPT ![t] = Len(ids) * BlockSize]
    /\ UNCHANGED free

\* The blocks a cached prefix offers: whole blocks of a live sequence.
Prefix(s, k) == SubSeq(blocks[s], 1, k)

\* Share each of the blocks: a block nobody references is passed over.
Shared(ids) ==
    [b \in Blocks |-> IF b \in Range(ids) /\ refs[b] > 0 THEN refs[b] + 1 ELSE refs[b]]

\* Mutant of Fork: the references are not raised.
ForkUncounted(t, s, k) == ForkWith(t, Prefix(s, k), refs)

\* Mutant of Fork: the prefix takes in the source's last, partial block.
ForkPartial(t, s, k) ==
    LET ids == Prefix(s, IF k = Full(s) THEN Len(blocks[s]) ELSE k)
    IN  ForkWith(t, ids, Shared(ids))

\* Share each block of the prefix and list it in the table.
Fork(t, s, k) == ForkWith(t, Prefix(s, k), Shared(Prefix(s, k)))

\* Drop the references of table t, returning the blocks in dead to the free
\* list; the order in which they are pushed is left open, and freeing a block
\* that is already free does nothing.
FreeReturning(t, dead, left) ==
    /\ refs' = [b \in Blocks |-> IF b \in Held(t) /\ refs[b] > 0 THEN refs[b] - 1 ELSE refs[b]]
    /\ \E ids \in Listings(dead) : free' = free \o ids
    /\ blocks' = [blocks EXCEPT ![t] = <<>>]
    /\ shared' = [shared EXCEPT ![t] = left]
    /\ tokens' = [tokens EXCEPT ![t] = 0]

\* Mutants of Free: a block goes back although another table still holds it; the
\* count of shared blocks is not reset.
FreeShared(t) == FreeReturning(t, Held(t), 0)
FreeKeepsShared(t) == FreeReturning(t, {b \in Held(t) : refs[b] = 1}, shared[t])

Free(t) == FreeReturning(t, {b \in Held(t) : refs[b] = 1}, 0)

Next ==
    \E t \in Tables :
        \/ \E n \in 1..MaxAppend : AppendOk(t, n)
        \/ \E s \in Tables : \E k \in 1..Full(s) : Fork(t, s, k)
        \/ Free(t)

Spec == Init /\ [][Next]_vars

-----------------------------------------------------------------------------
(* Properties *)

TypeOK ==
    /\ free \in Seq(Blocks)
    /\ refs \in [Blocks -> Nat]
    /\ blocks \in [Tables -> Seq(Blocks)]
    /\ shared \in [Tables -> Nat]
    /\ tokens \in [Tables -> Nat]
    /\ \A t \in Tables : shared[t] <= Len(blocks[t])

\* A block's reference count is the number of sequences that read it, after any
\* series of forks, growth and frees (paged.go Share and Free, one goroutine).
RefCountExact == \A b \in Blocks : refs[b] = Cardinality(Holders(b))

\* The free list holds each unreferenced block once and no other: no block is
\* leaked, freed twice, or handed out while a sequence still reads it.
FreeListExact ==
    /\ IsInjective(free)
    /\ Range(free) = {b \in Blocks : refs[b] = 0}

\* A table has exactly the blocks its tokens need: Append neither runs past the
\* last block nor holds one it does not use.
CoversTokens == \A t \in Tables : Len(blocks[t]) = BlocksFor(tokens[t])

\* The block a sequence is still writing, its partly filled last one, is read by
\* nobody else: sharing a prefix never aliases a block under construction.
OpenTailPrivate ==
    \A t \in Tables : tokens[t] % BlockSize # 0 =>
        Holders(blocks[t][Len(blocks[t])]) = {t}

=============================================================================
