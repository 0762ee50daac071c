------------------------------ MODULE StopStrings -----------------------------
(***************************************************************************)
(* hitStopString of src/compute/generate.go, which the single-stream        *)
(* generator and the batch runner share.                                    *)
(***************************************************************************)
EXTENDS Integers, Sequences, FiniteSetsExt

\* Where any of the stop strings occurs in t, and the text before the earliest
\* occurrence.
StopsAt(t, stops) ==
    {i \in 1..Len(t) : \E s \in stops :
        /\ s # <<>>
        /\ i + Len(s) - 1 <= Len(t)
        /\ SubSeq(t, i, i + Len(s) - 1) = s}
CutAt(t, stops) == SubSeq(t, 1, Min(StopsAt(t, stops)) - 1)

=============================================================================
