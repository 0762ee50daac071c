----------------------------- MODULE Speculation -----------------------------
(***************************************************************************)
(* Speculative decoding of one sequence.  A proposer (speculative/suffix.go *)
(* or promptlookup.go) drafts the next tokens from the history, the model   *)
(* verifies them in one step, and the accepted ones, with the token the     *)
(* model adds, become history.  The decoding loop is external: no caller of *)
(* the proposers is in the repository yet, and the loop here does what the  *)
(* comments on the two packages and on KVCache.Trim ask of it.              *)
(*                                                                         *)
(* config  the proposer, its history cap, the window of the rotating cache  *)
(* phase   "empty", "ready" between two steps, "drafted" inside one         *)
(* prompt  the length of the prompt                                        *)
(* seq     every token of the sequence, the prompt included                 *)
(* dec     the proposer: its tokens, how many it dropped, and its index,    *)
(*         which maps an n-gram to the positions of its occurrences (the    *)
(*         slices ascend and repeat nothing, so they are sets here)         *)
(* draft   the tokens proposed for the current step                        *)
(* stats   the proposer's counters (the two keep different subsets of them) *)
(* kv, ring  the growing and the rotating cache of a layer                  *)
(***************************************************************************)
EXTENDS KvCaches, FiniteSetsExt

CONSTANTS
    Vocab,           \* the tokens, numbers
    MaxDraftTokens,  \* the longest draft
    MaxSuffixLen,    \* SuffixDecoder: the longest n-gram indexed
    MinConfidence,   \* SuffixDecoder: percent of the votes a token needs
    NgramSize,       \* PromptLookup: the n-gram looked up
    MinMatches,      \* PromptLookup: the shortest draft worth returning
    Configs,         \* records of proposer, maxHistory, maxSize, keep
    MaxPrompt,       \* bound on the length of a prompt
    MaxSeq           \* bound on the length of a sequence

\* What the constructors of the two proposers make of their arguments.  Leading
\* positions are pinned: their number is natural.
ASSUME SpeculationAssumption ==
    /\ IsFiniteSet(Vocab) /\ Vocab \subseteq Nat
    /\ {MaxDraftTokens, MaxSuffixLen, NgramSize, MinMatches} \subseteq Nat \ {0}
    /\ {MinConfidence, MaxPrompt, MaxSeq} \subseteq Nat
    /\ \A c \in Configs : c \in [proposer : {"suffix", "lookup"}, maxHistory : Int, maxSize : Int, keep : Nat]

VARIABLES config, phase, prompt, seq, dec, draft, stats, kv, ring
vars == <<config, phase, prompt, seq, dec, draft, stats, kv, ring>>

LastOf(s, k) == SubSeq(s, Len(s) - k + 1, Len(s))
File(bucket, key, pos) ==
    [g \in (DOMAIN bucket) \cup {key} |->
        (IF g \in DOMAIN bucket THEN bucket[g] ELSE {}) \cup (IF g = key THEN {pos} ELSE {})]

(* -- SuffixDecoder ---------------------------------------------------------- *)
\* trim whose threshold forgets the length of the n-gram.
trimByEnd(d, maxHistory) ==
    LET drop == Len(d.tokens) - maxHistory
        Kept(k, g) == {e \in d.index[k][g] : e >= d.shift + drop}
    IN  IF maxHistory <= 0 \/ drop <= 0 THEN d
        ELSE [tokens |-> LastOf(d.tokens, maxHistory), shift |-> d.shift + drop,
              index |-> [k \in DOMAIN d.index |->
                  [g \in {x \in DOMAIN d.index[k] : Kept(k, x) # {}} |-> Kept(k, g)]]]

\* The oldest tokens beyond the cap go, and with them the n-grams they began.
trim(d, maxHistory) ==
    LET drop == Len(d.tokens) - maxHistory
        Kept(k, g) == {e \in d.index[k][g] : e >= d.shift + drop + k - 1}
    IN  IF maxHistory <= 0 \/ drop <= 0 THEN d
        ELSE [tokens |-> LastOf(d.tokens, maxHistory), shift |-> d.shift + drop,
              index |-> [k \in DOMAIN d.index |->
                  [g \in {x \in DOMAIN d.index[k] : Kept(k, x) # {}} |-> Kept(k, g)]]]

SuffixAdd(d, t) ==
    LET tokens == Append(d.tokens, t)
    IN  trim([tokens |-> tokens, shift |-> d.shift,
              index |-> [k \in DOMAIN d.index |->
                  IF k > Len(tokens) THEN d.index[k]
                  ELSE File(d.index[k], LastOf(tokens, k), d.shift + Len(tokens) - 1)]],
             config.maxHistory)

\* The token with the most votes, the smaller of two.
topToken(counts) == Min({t \in Vocab : \A u \in Vocab : counts[t] >= counts[u]})

\* The matches that name a token at the offset (the newest is the suffix itself),
\* those of them that name t, and the token they elect.
voters(d, matches, offset) ==
    {e \in matches : /\ e # d.shift + Len(d.tokens) - 1
                     /\ e + 1 + offset - d.shift \in 0..(Len(d.tokens) - 1)}
Said(d, matches, offset, t) ==
    {e \in voters(d, matches, offset) : d.tokens[e + 1 + offset - d.shift + 1] = t}
Elected(d, matches, offset) == topToken([t \in Vocab |-> Cardinality(Said(d, matches, offset, t))])
Unsure(d, matches, offset) ==
    \/ voters(d, matches, offset) = {}
    \/ 100 * Cardinality(Said(d, matches, offset, Elected(d, matches, offset)))
           < MinConfidence * Cardinality(voters(d, matches, offset))

\* A round that keeps every match.
VoteAll(d, acc, offset) ==
    IF acc.done \/ Unsure(d, acc.matches, offset) THEN [draft |-> acc.draft, matches |-> acc.matches, done |-> TRUE]
    ELSE [draft |-> Append(acc.draft, Elected(d, acc.matches, offset)), matches |-> acc.matches, done |-> FALSE]

\* One round of buildDraft: the matches vote on the token at the offset, and
\* those that named the winner go on to the next round.
Vote(d, acc, offset) ==
    LET top == Elected(d, acc.matches, offset)
    IN  IF acc.done \/ Unsure(d, acc.matches, offset)
        THEN [draft |-> acc.draft, matches |-> acc.matches, done |-> TRUE]
        ELSE [draft |-> Append(acc.draft, top), matches |-> Said(d, acc.matches, offset, top), done |-> FALSE]

buildDraft(d, positions) ==
    FoldLeft(LAMBDA acc, i : Vote(d, acc, i - 1), [draft |-> <<>>, matches |-> positions, done |-> FALSE],
             [i \in 1..MaxDraftTokens |-> i]).draft

Positions(d, k) == IF LastOf(d.tokens, k) \in DOMAIN d.index[k] THEN d.index[k][LastOf(d.tokens, k)] ELSE {}

\* The longest suffix whose earlier occurrences agree on something.
SuffixDraft(d) ==
    LET usable == {k \in DOMAIN d.index : k <= Len(d.tokens) /\ buildDraft(d, Positions(d, k)) # <<>>}
    IN  IF usable = {} THEN <<>> ELSE buildDraft(d, Positions(d, Max(usable)))

(* -- PromptLookup ----------------------------------------------------------- *)
LookupAdd(d, t) ==
    LET tokens == Append(d.tokens, t)
        start == Len(tokens) - NgramSize
    IN  [tokens |-> tokens, shift |-> d.shift,
         index |-> [d.index EXCEPT ![NgramSize] = IF start < 0 THEN @ ELSE File(@, LastOf(tokens, NgramSize), start)]]

\* The earlier occurrences of the last n-gram, and what followed each.
Starts(d) == d.index[NgramSize][LastOf(d.tokens, NgramSize)] \ {Len(d.tokens) - NgramSize}
Cont(d, start) ==
    SubSeq(d.tokens, start + NgramSize + 1, Min({start + NgramSize + MaxDraftTokens, Len(d.tokens)}))

\* The first of the earlier occurrences with the longest continuation.
LookupDraft(d) ==
    LET longest == Max({Len(Cont(d, x)) : x \in Starts(d)})
    IN  IF Len(d.tokens) < NgramSize THEN <<>>
        ELSE IF Starts(d) = {} THEN <<>>
        ELSE IF longest < MinMatches THEN <<>>
        ELSE Cont(d, Min({x \in Starts(d) : Len(Cont(d, x)) = longest}))

(* -- either proposer -------------------------------------------------------- *)
Empty(proposer) ==
    [tokens |-> <<>>, shift |-> 0,
     index |-> [k \in (IF proposer = "suffix" THEN 1..MaxSuffixLen ELSE {NgramSize}) |-> <<>>]]
Add(d, t) == IF config.proposer = "suffix" THEN SuffixAdd(d, t) ELSE LookupAdd(d, t)
AddAll(d, tokens) == FoldLeft(Add, d, tokens)
NoStats == [steps |-> 0, drafts |-> 0, proposed |-> 0, successes |-> 0, accepted |-> 0]

Init ==
    /\ config \in Configs
    /\ phase = "empty" /\ prompt = 0 /\ seq = <<>> /\ draft = <<>>
    /\ dec = Empty(config.proposer) /\ stats = NoStats
    /\ kv = EmptyCache /\ ring = EmptyRing

\* The prompt is run through the model, which adds the first token t.
Prefill(p, t) ==
    /\ phase = "empty" /\ phase' = "ready"
    /\ prompt' = Len(p)
    /\ seq' = Append(p, t)
    /\ dec' = AddAll(dec, seq')
    /\ kv' = Reserve(kv, Len(p))
    /\ ring' = Updates(ring, Len(p), config.maxSize, config.keep)
    /\ UNCHANGED <<config, draft, stats>>

\* The proposer drafts; the last token and the draft are run through the model,
\* which needs a slot of the growing cache for each.
Draft ==
    /\ phase = "ready" /\ phase' = "drafted" /\ Len(seq) < MaxSeq
    /\ draft' = IF config.proposer = "suffix" THEN SuffixDraft(dec) ELSE LookupDraft(dec)
    /\ stats' = [steps |-> stats.steps + 1,
                 drafts |-> IF draft' = <<>> THEN stats.drafts ELSE stats.drafts + 1,
                 proposed |-> stats.proposed + Len(draft'),
                 successes |-> stats.successes, accepted |-> stats.accepted]
    /\ kv' = Reserve(kv, 1 + Len(draft'))
    /\ UNCHANGED <<config, prompt, seq, dec, ring>>

RecordAccepted(s, n) ==
    IF n = 0 THEN s
    ELSE [steps |-> s.steps, drafts |-> s.drafts, proposed |-> s.proposed,
          successes |-> s.successes + 1, accepted |-> s.accepted + n]

\* The model confirms n drafted tokens and adds t, which differs from the next
\* drafted one; the rejected positions are trimmed.
Verify(n, t) ==
    /\ phase = "drafted" /\ phase' = "ready"
    /\ n <= Len(draft) /\ (n < Len(draft) => t # draft[n + 1])
    /\ seq' = seq \o SubSeq(draft, 1, n) \o <<t>>
    /\ dec' = AddAll(dec, Append(SubSeq(draft, 1, n), t))
    /\ stats' = RecordAccepted(stats, n)
    /\ kv' = Trim(kv, Len(draft) - n)
    /\ ring' = Updates(ring, 1 + n, config.maxSize, config.keep)
    /\ draft' = <<>>
    /\ UNCHANGED <<config, prompt>>

\* The sequence ends and everything is reset for another.
Reset ==
    /\ phase # "empty" /\ phase' = "empty"
    /\ prompt' = 0 /\ seq' = <<>> /\ draft' = <<>>
    /\ dec' = Empty(config.proposer) /\ stats' = NoStats
    /\ kv' = [kv EXCEPT !.offset = 0]
    /\ ring' = [ring EXCEPT !.offset = 0, !.size = 0]
    /\ UNCHANGED config

Next ==
    \/ \E len \in 1..MaxPrompt : \E p \in [1..len -> Vocab], t \in Vocab : Prefill(p, t)
    \/ Draft \/ Reset
    \/ \E n \in 0..MaxDraftTokens, t \in Vocab : Verify(n, t)
Spec == Init /\ [][Next]_vars

(* -- properties ------------------------------------------------------------- *)
\* The index lists every n-gram the proposer still remembers at all its
\* occurrences and nothing else, however often the history was trimmed or the
\* proposer reset: no position is stale, none is lost.
IndexExact ==
    LET n == Len(seq)
        capped == config.proposer = "suffix" /\ config.maxHistory > 0
        lo == IF capped THEN Max({0, n - config.maxHistory}) ELSE 0
        Gram(k, start) == SubSeq(seq, start + 1, start + k)
        Named(k, start) == IF config.proposer = "suffix" THEN start + k - 1 ELSE start
    IN  /\ dec.tokens = SubSeq(seq, lo + 1, n) /\ dec.shift = lo
        /\ \A k \in DOMAIN dec.index :
              /\ DOMAIN dec.index[k] = {Gram(k, s) : s \in lo..(n - k)}
              /\ \A g \in DOMAIN dec.index[k] : dec.index[k][g] = {Named(k, s) : s \in {x \in lo..(n - k) : Gram(k, x) = g}}

\* Where the last k tokens of s ended before, in the history from lo on; those
\* that go on with d; and those of them that name a next token.
Earlier(s, lo, k) ==
    {e \in (lo + k)..(Len(s) - 1) : SubSeq(s, e - k + 1, e) = SubSeq(s, Len(s) - k + 1, Len(s))}
Votes(s, lo, k, d) == {e \in Earlier(s, lo, k) : e + Len(d) <= Len(s) /\ SubSeq(s, e + 1, e + Len(d)) = d}
Voters(s, lo, k, d) == {e \in Votes(s, lo, k, d) : e + Len(d) < Len(s)}

\* Token t has the most votes to follow d, of two the smaller one, and enough.
Wins(s, lo, k, d, t) ==
    /\ \A u \in Vocab \ {t} :
          LET more == Cardinality(Votes(s, lo, k, Append(d, t))) - Cardinality(Votes(s, lo, k, Append(d, u)))
          IN  more > 0 \/ (more = 0 /\ t < u)
    /\ Voters(s, lo, k, d) # {}
    /\ 100 * Cardinality(Votes(s, lo, k, Append(d, t))) >= MinConfidence * Cardinality(Voters(s, lo, k, d))

\* Every token of d is elected, and nothing could have followed.
Voted(s, lo, k, d) ==
    /\ \A i \in 1..Len(d) : Wins(s, lo, k, SubSeq(d, 1, i - 1), d[i])
    /\ Len(d) < MaxDraftTokens => \A t \in Vocab : ~Wins(s, lo, k, d, t)

\* A draft is what a direct search of the remembered history would propose.
\* SuffixDecoder: the continuation that, token by token, has the most votes among
\* the earlier occurrences of the longest suffix that has a winner, as long as
\* there is one.  PromptLookup: the continuation of an earlier occurrence of the
\* last n-gram, none being longer; or nothing, if all are too short.
DraftDirect ==
    LET n == Len(seq)
        lo == n - Len(dec.tokens)
        Ks == {k \in 1..MaxSuffixLen : k <= Len(dec.tokens)}
        longest == {k \in Ks : \E t \in Vocab : Wins(seq, lo, k, <<>>, t)}
        Again == Earlier(seq, lo, NgramSize)
        Length(e) == Min({MaxDraftTokens, n - e})
    IN  phase = "drafted" =>
        IF config.proposer = "suffix"
        THEN IF longest = {} THEN draft = <<>> ELSE draft # <<>> /\ Voted(seq, lo, Max(longest), draft)
        ELSE IF \E e \in Again : Length(e) >= MinMatches
             THEN /\ \E e \in Again : draft = SubSeq(seq, e + 1, e + Length(e))
                  /\ \A e \in Again : Len(draft) >= Length(e)
             ELSE draft = <<>>

\* Every step is accounted for.  Between two steps the growing cache holds every
\* position but the newest, whatever was drafted and rejected, within its
\* capacity; the rotating cache holds all of them while they fit, and then the
\* pinned ones and the newest ones, if some slot is not pinned; and the tokens
\* after the first are one per step and the accepted ones.
StepsAccounted ==
    LET fed == Len(seq) - 1
        size == config.maxSize
        pinned == 0..(config.keep - 1)
        newest == (fed - (size - config.keep))..(fed - 1)
        held == {ring.held[s] : s \in 0..(ring.size - 1)}
    IN  phase # "empty" =>
        /\ kv.offset = IF phase = "drafted" THEN fed + 1 + Len(draft) ELSE fed
        /\ kv.capacity >= kv.offset /\ kv.capacity % step = 0
        /\ ring.offset = fed
        /\ size <= 0 \/ fed <= size => held = 0..(fed - 1)
        /\ config.keep < size /\ size < fed => held = pinned \cup newest
        /\ Len(seq) = prompt + 1 + stats.accepted + stats.steps - (IF phase = "drafted" THEN 1 ELSE 0)
        /\ stats.accepted <= stats.proposed /\ stats.successes <= stats.drafts
=============================================================================
