---------------------------- MODULE MCCacheStore -----------------------------
(***************************************************************************)
(* Instances of CacheStore: a prompt of two blocks and one of its own.      *)
(***************************************************************************)
EXTENDS CacheStore, TLC

MCPrompts == {<<"a", "b">>, <<"c">>}

\* Requests are alike.
RequestSymmetry == Permutations(Requests)
=============================================================================
