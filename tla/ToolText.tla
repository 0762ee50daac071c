----------------------------- MODULE ToolText -----------------------------
(***************************************************************************)
(* What the tool parsers share (toolparsers/base.go, toolparsers/pyjson.go) *)
(* and the little of Go's strings and regexp packages they use.             *)
(*                                                                         *)
(* A text is a sequence of symbols.  A marker the tokenizer emits whole is  *)
(* one symbol; a closing tag is two, "</" and the rest, so that a delta can *)
(* end inside it.  A word (a name, a key, a value) and a structural         *)
(* character of JSON are one symbol each; commas, colons and quotes go with *)
(* the words.  A pattern is a sequence of pieces, a piece a set of symbols  *)
(* and how many of them it takes: the regular expressions of the parsers,   *)
(* matched as Go matches them, leftmost and with the lazy or greedy choice  *)
(* of each piece.                                                           *)
(***************************************************************************)
EXTENDS Integers, Sequences, SequencesExt

Space == {" ", "nl"}
Words == {"f", "g", "all", "k", "m", "1", "2", "a", "json", "functions.", ":0"}
Numbers == {"1", "2"}          \* the words that are JSON as they stand
Quote == ("1" :> "'1'") @@ ("2" :> "'2'") @@ ("a" :> "'a'") @@ ("m" :> "'m'")
Strings == {Quote[w] : w \in DOMAIN Quote}
AllWords == Words \cup Strings

(* -- strings ------------------------------------------------------------- *)
At(t, m, i) == i + Len(m) - 1 <= Len(t) /\ \A j \in 1..Len(m) : t[i + j - 1] = m[j]
Positions(t, m) == {i \in 1..Len(t) : At(t, m, i)}
Has(t, m) == \E i \in 1..Len(t) : At(t, m, i)
Occurrences(t, m) == Cardinality(Positions(t, m))
First(t, m) == Min(Positions(t, m))
Final(t, m) == Max(Positions(t, m))
Before(t, m) == IF Has(t, m) THEN SubSeq(t, 1, First(t, m) - 1) ELSE t
After(t, m) == IF Has(t, m) THEN SubSeq(t, First(t, m) + Len(m), Len(t)) ELSE <<>>
AfterLast(t, m) == IF Has(t, m) THEN SubSeq(t, Final(t, m) + Len(m), Len(t)) ELSE t
From(t, i) == SubSeq(t, i, Len(t))
Starts(t, m) == At(t, m, 1)
Ends(t, m) == Len(m) <= Len(t) /\ At(t, m, Len(t) - Len(m) + 1)
Solid(t) == {i \in 1..Len(t) : t[i] \notin Space}
strip(t) == IF Solid(t) = {} THEN <<>> ELSE SubSeq(t, Min(Solid(t)), Max(Solid(t)))
TrimRight(t) == IF Solid(t) = {} THEN <<>> ELSE SubSeq(t, 1, Max(Solid(t)))
\* The members of a set of positions of t, in order.
InOrder(S, t) == SelectSeq([i \in 1..Len(t) |-> i], LAMBDA i : i \in S)
Split(t, x) ==
    LET cut == <<0>> \o InOrder(Positions(t, <<x>>), t) \o <<Len(t) + 1>>
    IN  [j \in 1..(Len(cut) - 1) |-> SubSeq(t, cut[j] + 1, cut[j + 1] - 1)]
Without(t, S) == SelectSeq(t, LAMBDA x : x \notin S)

(* -- patterns ------------------------------------------------------------ *)
Piece(set, neg, min, max, greedy) ==
    [set |-> set, neg |-> neg, min |-> min, max |-> max, greedy |-> greedy, g |-> 0, ahead |-> FALSE]
Long == 99
Of(S) == <<Piece(S, FALSE, 1, 1, FALSE)>>
Lit(m) == [i \in 1..Len(m) |-> Piece({m[i]}, FALSE, 1, 1, FALSE)]
Ws == <<Piece(Space, FALSE, 0, Long, TRUE)>>
Lazy == <<Piece({}, TRUE, 0, Long, FALSE)>>             \* .*?
Rest == <<Piece({}, TRUE, 0, Long, TRUE)>>             \* .*
Not(S, min) == <<Piece(S, TRUE, min, Long, FALSE)>>    \* [^S]
Word == <<Piece(Words, FALSE, 1, Long, TRUE)>>         \* \w+
Opt(S) == <<Piece(S, FALSE, 0, 1, TRUE)>>
Ahead(S) == <<[Piece(S, FALSE, 0, 0, FALSE) EXCEPT !.ahead = TRUE]>>  \* before S or the end
Grp(n, p) == [i \in 1..Len(p) |-> [p[i] EXCEPT !.g = n]]

\* Where piece p of a pattern may end when it starts at c: as far as it likes
\* up to the first symbol it cannot take.
PieceEnds(p, t, c) ==
    LET in(j) == (t[j] \in p.set) # p.neg
        stops == {j \in c..Min({c + p.max, Len(t)}) : ~in(j)}
    IN  IF p.ahead /\ c <= Len(t) /\ ~in(c) THEN {}
        ELSE (c + p.min)..Min({c + p.max, Len(t) + 1} \cup stops)

\* Reach(P, t)[k] are the positions the pieces from k on can match from.
Reach(P, t) ==
    LET reaches(k, c, after) == LET ends == PieceEnds(P[k], t, c) IN \E d \in after : d \in ends
        r[k \in 1..(Len(P) + 1)] ==
          IF k > Len(P) THEN <<1..(Len(t) + 1)>>
          ELSE LET rest == r[k + 1] IN <<{c \in 1..(Len(t) + 1) : reaches(k, c, Head(rest))}>> \o rest
    IN  r[1]
\* The cuts of the match of P at position i, given its Reach: a piece takes as
\* much, or as little, as leaves the others a match.
CutsFrom(P, t, reach, i) ==
    LET c[k \in 0..Len(P)] ==
          IF k = 0 THEN <<i>>
          ELSE LET cs == c[k - 1]
                   ends == PieceEnds(P[k], t, Last(cs)) \cap reach[k + 1]
               IN  Append(cs, IF P[k].greedy THEN Max(ends) ELSE Min(ends))
    IN  c[Len(P)]

\* FindAllStringSubmatch: the matches in t of a pattern, or of the first of its
\* alternatives Ps that fits, leftmost and disjoint.
FindAny(Ps, t) ==
    LET tries == {[rank |-> k, p |-> Ps[k], reach |-> Reach(Ps[k], t)] : k \in 1..Len(Ps)}
        fits(i) == {y \in tries : i \in Head(y.reach)}
        first(ys) == CHOOSE y \in ys : \A z \in ys : y.rank <= z.rank
        match(y, i) == [p |-> y.p, c |-> CutsFrom(y.p, t, y.reach, i)]
        starts == InOrder(UNION {Head(y.reach) : y \in tries}, t)
        g[n \in 0..Len(starts)] ==
          IF n = 0 THEN <<>>
          ELSE LET ms == g[n - 1]
               IN  IF ms # <<>> /\ starts[n] < Last(Last(ms).c) THEN ms
                   ELSE Append(ms, match(first(fits(starts[n])), starts[n]))
    IN  g[Len(starts)]
FindAll(P, t) == FindAny(<<P>>, t)
Matches(P, t) == FindAll(P, t) # <<>>

\* Submatch n of a match m of t.
Group(t, m, n) ==
    LET ks == {k \in 1..Len(m.p) : m.p[k].g = n}
    IN  IF ks = {} THEN <<>> ELSE SubSeq(t, m.c[Min(ks)], m.c[Max(ks) + 1] - 1)

\* ReplaceAllString(t, "") and the first match only.
Erase(t, ms) ==
    LET from(j) == IF j = 1 THEN 1 ELSE Last(ms[j - 1].c)
        to(j) == IF j > Len(ms) THEN Len(t) ELSE ms[j].c[1] - 1
    IN  FlattenSeq([j \in 1..(Len(ms) + 1) |-> SubSeq(t, from(j), to(j))])
replaceFirst(t, ms) == Erase(t, SubSeq(ms, 1, 1))

(* -- JSON ---------------------------------------------------------------- *)
\* omap.set: a key keeps the place of its first occurrence.
OmapSet(o, kv) ==
    IF \E j \in 1..Len(o) : o[j][1] = kv[1]
    THEN [j \in 1..Len(o) |-> IF o[j][1] = kv[1] THEN kv ELSE o[j]]
    ELSE Append(o, kv)
Omap(kvs) == FoldLeft(OmapSet, <<>>, kvs)

\* dumps of an object.
Dumps(o) == <<"{">> \o FlattenSeq(o) \o <<"}">>

\* A parameter's text as a JSON string, and as itself when it decodes.
AsText(v) == IF v \in DOMAIN Quote THEN Quote[v] ELSE v
JsonValue(v) == IF v \in Numbers THEN v ELSE AsText(v)

IsObject(t) ==
    /\ Len(t) >= 2 /\ Len(t) % 2 = 0 /\ t[1] = "{" /\ Last(t) = "}"
    /\ \A j \in 2..(Len(t) - 1) : t[j] \in AllWords

\* argString of a decoded object: its pairs, a repeated key overwritten.
Reencode(t) == Dumps(Omap([j \in 1..((Len(t) - 2) \div 2) |-> <<t[2 * j], t[2 * j + 1]>>]))

CallRE == Lit(<<"{", "name:">>) \o Grp(1, Of(Words)) \o Lit(<<"args:">>)
            \o Grp(2, Lit(<<"{">>) \o Not({"{", "}"}, 0) \o Lit(<<"}">>)) \o Lit(<<"}">>)

\* A call without arguments has the empty object (argsOrEmpty).
NamedRE == Lit(<<"{", "name:">>) \o Grp(1, Of(Words)) \o Lit(<<"}">>)
NoCall == [name |-> <<>>, args |-> <<>>]

\* decodeOrdered of an object and its "name" and "arguments", or NoCall.
DecodeCall(t) ==
    LET full == FindAll(CallRE, t)
        bare == FindAll(NamedRE, t)
        whole(ms) == Len(ms) = 1 /\ ms[1].c[1] = 1 /\ Last(ms[1].c) = Len(t) + 1
    IN  IF whole(full) /\ IsObject(Group(t, full[1], 2))
        THEN [name |-> Group(t, full[1], 1), args |-> Reencode(Group(t, full[1], 2))]
        ELSE IF whole(bare) THEN [name |-> Group(t, bare[1], 1), args |-> <<"{", "}">>] ELSE NoCall

\* The calls of a JSON array, or <<NoCall>> when the text is none.
DecodeArray(t) ==
    LET ms == FindAll(CallRE, t)
    IN  IF Len(t) >= 2 /\ t[1] = "[" /\ Last(t) = "]" /\ Len(Erase(t, ms)) = 2
        THEN [j \in 1..Len(ms) |-> [name |-> Group(t, ms[j], 1), args |-> Reencode(Group(t, ms[j], 2))]]
        ELSE <<NoCall>>
IsArray(t) == DecodeArray(t) # <<NoCall>>

(* -- results --------------------------------------------------------------- *)
\* ExtractedToolCalls; an absent content and an empty one are not told apart.
Extracted(calls, content) == [called |-> calls # <<>>, calls |-> calls, content |-> content]
NotCalled(content) == Extracted(<<>>, content)
Call(name, args) == [name |-> name, args |-> args]
Called(cs) == SelectSeq(cs, LAMBDA c : c.name # <<>>)

\* StreamDelta: an entry has the id and type of a call only in its first part.
Entry(index, first, name, args) == [index |-> index, first |-> first, name |-> name, args |-> args]
Nothing == [content |-> <<>>, calls |-> <<>>]
ContentDelta(t) == [content |-> t, calls |-> <<>>]
OneEntry(index, first, name, args) == [content |-> <<>>, calls |-> <<Entry(index, first, name, args)>>]
streamFromCalls(calls, start) ==
    [content |-> <<>>, calls |-> [i \in 1..Len(calls) |-> Entry(start + i - 1, TRUE, calls[i].name, calls[i].args)]]
emitAllStreaming(res) == streamFromCalls(res.calls, 0)

(* -- shared markup ------------------------------------------------------- *)
Close(tag) == <<"</", tag>>
ThinkRE == Lit(<<"<think>">>) \o Lazy \o Lit(<<"</think>">>)
stripThinkTags(t) ==
    LET cut == Erase(t, FindAll(ThinkRE, t))
    IN  strip(IF cut = t THEN IF Has(t, <<"</think>">>) THEN After(t, <<"</think>">>) ELSE t ELSE cut)

BodyRE == Lit(<<"{">>) \o Lazy \o Lit(<<"}">>)
TextKVRE == Lit(<<"[Calling tool=">>) \o Grp(1, Of(Words)) \o Grp(2, Not({"]"}, 0)) \o Lit(<<"]">>)
TextFnRE == Lit(<<"[Calling tool:">>) \o Ws \o Grp(1, Word) \o Lit(<<"(">>) \o Grp(2, BodyRE)
              \o Lit(<<")">>) \o Ws \o Lit(<<"]">>)
hasTextFormatToolCall(t) == Has(t, <<"[Calling tool=">>) \/ Has(t, <<"[Calling tool:">>)

Pairs(t) == [j \in 1..(Len(t) \div 2) |-> <<t[2 * j - 1], JsonValue(t[2 * j])>>]
extractTextFormatToolCalls(t) ==
    LET kv == FindAll(TextKVRE, t)
        fn == FindAll(TextFnRE, t)
        kvCall(m) == Call(Group(t, m, 1), Dumps(Omap(Pairs(Without(Group(t, m, 2), Space)))))
        fnCall(m) == Call(Group(t, m, 1), Reencode(Group(t, m, 2)))
        filled(c) == Len(c.args) > 2
    IN  SelectSeq([j \in 1..Len(kv) |-> kvCall(kv[j])], filled)
          \o SelectSeq([j \in 1..Len(SelectSeq(fn, LAMBDA m : IsObject(Group(t, m, 2)))) |->
                           fnCall(SelectSeq(fn, LAMBDA m : IsObject(Group(t, m, 2)))[j])], filled)
=============================================================================
