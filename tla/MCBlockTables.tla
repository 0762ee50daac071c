---------------------------- MODULE MCBlockTables -----------------------------
(* The instance of BlockTables that TLC checks. *)
EXTENDS BlockTables, TLC

\* Tables play the same part, and so do blocks.
MCSymmetry == Permutations(Tables) \cup Permutations(Blocks)

\* Bound: a sequence of at most three blocks.
MCBound == \A t \in Tables : tokens[t] <= 3 * BlockSize
=============================================================================
