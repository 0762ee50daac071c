------------------------------ MODULE KvCaches ------------------------------
(***************************************************************************)
(* The index arithmetic of the attention caches (compute/kvcache.go): which *)
(* positions the growing cache holds and which slot of a sliding window the *)
(* next position is written to.  The tensors themselves are the device's;   *)
(* held maps a slot of the window to the position last written there.       *)
(***************************************************************************)
EXTENDS Integers, SequencesExt

CONSTANT Step        \* growth granularity of the backing tensor

ASSUME StepAssumption == Step \in Int

DefaultStep == 256
step == IF Step <= 0 THEN DefaultStep ELSE Step
roundUp(n, s) == IF s <= 0 \/ n % s = 0 THEN n ELSE (n \div s + 1) * s

(* -- KVCache ---------------------------------------------------------------- *)
EmptyCache == [offset |-> 0, capacity |-> 0]
Reserve(c, n) == [offset |-> c.offset + n, capacity |-> roundUp(c.offset + n, step)]
Trim(c, n) == [c EXCEPT !.offset = @ - (IF n > @ THEN @ ELSE IF n < 0 THEN 0 ELSE n)]

(* -- RotatingKVCache -------------------------------------------------------- *)
EmptyRing == [offset |-> 0, size |-> 0, held |-> <<>>]

\* The slot of the next position, the ring reduced over all slots.
SlotOverAll(r, maxSize, keep) == IF r.size < maxSize \/ maxSize <= 0 THEN r.offset ELSE r.offset % maxSize

\* The slot Update returns in a window of maxSize slots, the first keep pinned.
Slot(r, maxSize, keep) ==
    LET span == maxSize - keep
    IN  IF maxSize <= 0 THEN r.offset
        ELSE IF r.size < maxSize THEN r.size
        ELSE IF span <= 0 THEN maxSize - 1
        ELSE keep + ((r.offset - keep) % span)

\* The caller writes the position into that slot.
Update(r, maxSize, keep) ==
    LET slot == Slot(r, maxSize, keep)
    IN  [offset |-> r.offset + 1,
         size |-> IF maxSize <= 0 \/ r.size < maxSize THEN r.size + 1 ELSE r.size,
         held |-> [s \in (DOMAIN r.held) \cup {slot} |-> IF s = slot THEN r.offset ELSE r.held[s]]]
Updates(r, n, maxSize, keep) == FoldLeft(LAMBDA acc, i : Update(acc, maxSize, keep), r, [i \in 1..n |-> i])
=============================================================================
