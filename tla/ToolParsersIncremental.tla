---------------------- MODULE ToolParsersIncremental ----------------------
(***************************************************************************)
(* The tool parsers that keep state across the deltas of a response:        *)
(* Gemma 4, Mistral, DeepSeek V3.1, Seed-OSS and Qwen3-Coder.  A streaming  *)
(* step maps the parser's state s and the texts to its next state and the   *)
(* delta it returns.                                                        *)
(***************************************************************************)
EXTENDS ToolParsersTagged

CONSTANT ParamType(_)      \* a parameter's type in the request's tool schema

Fresh == [emitted |-> 0,                                     \* Gemma4Parser
          id |-> -1, sent |-> FALSE, arr |-> <<>>,           \* Mistral, DeepSeekV31Parser
          idx |-> 0, started |-> FALSE, header |-> FALSE, thought |-> FALSE, name |-> <<>>,
          params |-> 0, inFn |-> FALSE, json |-> "none",     \* SeedOss, Qwen3CoderParser
          panic |-> FALSE]                                   \* an index past the end of a slice
Step(s, delta) == [s |-> s, delta |-> delta]

(* -- Gemma 4 ------------------------------------------------------------- *)
GemmaRE == Lit(<<"<|tool_call>", "call:">>) \o Grp(1, Word) \o Lit(<<"{">>) \o Grp(2, Lazy) \o Lit(<<"}", "<tool_call|>">>)
GemmaKVREs == <<Grp(1, Of(Words)) \o Lit(<<"<q>">>) \o Grp(2, Lazy) \o Lit(<<"<q>">>), Grp(1, Of(Words)) \o Grp(3, Of(Words))>>
\* parseGemma4Args: a quoted value is a string, a bare one is decoded.
parseGemma4Args(t) ==
    LET ms == FindAny(GemmaKVREs, t)
        value(m) == IF Group(t, m, 3) = <<>> THEN AsText(Group(t, m, 2)[1]) ELSE JsonValue(Group(t, m, 3)[1])
    IN  Omap([j \in 1..Len(ms) |-> <<Group(t, ms[j], 1)[1], value(ms[j])>>])
ExtractGemma4(t) ==
    LET ms == FindAll(GemmaRE, t)
    IN  IF ms = <<>> THEN NotCalled(t)
        ELSE Extracted([j \in 1..Len(ms) |-> Call(Group(t, ms[j], 1), Dumps(parseGemma4Args(Group(t, ms[j], 2))))],
                       strip(Erase(t, ms)))
StreamGemma4(s, prev, cur, delta) ==
    LET open == Occurrences(cur, <<"<|tool_call>">>)
        closed == Occurrences(cur, <<"<tool_call|>">>)
        res == ExtractGemma4(cur)
        ms == FindAll(TextFnRE, cur)
        text == [j \in 1..Len(ms) |-> Call(Group(cur, ms[j], 1), Group(cur, ms[j], 2))]
        upTo(calls) == Step([s EXCEPT !.emitted = Len(calls)], streamFromCalls(From(calls, s.emitted + 1), s.emitted))
    IN  IF open > 0 /\ (closed < open \/ closed <= s.emitted) THEN Step(s, Nothing)
        ELSE IF open > 0 /\ res.called /\ Len(res.calls) > s.emitted THEN upTo(res.calls)
        ELSE IF hasTextFormatToolCall(cur)
        THEN IF Len(text) > s.emitted THEN upTo(text) ELSE Step(s, Nothing)
        ELSE Step(s, ContentDelta(delta))

(* -- Mistral ------------------------------------------------------------- *)
Brackets == {"{", "}", "[", "]", "[ARGS]"}
\* parseMistralToolDelta: the name and the arguments a fragment adds.
parseMistralToolDelta(t) ==
    IF Has(t, <<"{">>) THEN [name |-> strip(Without(Before(t, <<"{">>), {"[ARGS]"})), args |-> From(t, First(t, <<"{">>))]
    ELSE IF strip(t) # <<>> /\ t[1] \notin Brackets THEN [name |-> strip(t), args |-> <<>>]
    ELSE [name |-> <<>>, args |-> t]
StreamMistral(s, prev, cur, delta) ==
    LET opens == Has(delta, <<"[TOOL_CALLS]">>)
        part == IF opens THEN After(delta, <<"[TOOL_CALLS]">>) ELSE delta
        id == IF opens THEN s.id + 1 ELSE s.id
        fn == parseMistralToolDelta(part)
        calls == IF part = <<>> \/ id < 0 THEN <<>> ELSE <<Entry(id, opens, fn.name, fn.args)>>
    IN  IF ~Has(cur, <<"[TOOL_CALLS]">>) THEN Step(s, ContentDelta(delta))
        ELSE Step([s EXCEPT !.id = id],
                  [content |-> IF opens THEN Before(delta, <<"[TOOL_CALLS]">>) ELSE <<>>, calls |-> calls])

(* -- DeepSeek V3.1 ------------------------------------------------------- *)
DSBegin == <<"<|calls_begin|>">>
DSOpen == <<"<|call_begin|>">>
DSClose == <<"<|call_end|>">>
DSV31RE == Lit(DSOpen) \o Grp(1, Lazy) \o Lit(<<"<|sep|>">>) \o Grp(2, Lazy) \o Lit(DSClose)
ExtractDeepSeekV31(t) ==
    LET ms == FindAll(DSV31RE, t)
    IN  IF ~Has(t, DSBegin) THEN NotCalled(t)
        ELSE Extracted([j \in 1..Len(ms) |-> Call(strip(Group(t, ms[j], 1)), strip(Group(t, ms[j], 2)))], Before(t, DSBegin))

\* The open call's text has become portion: send its name, then what its
\* arguments have grown by.
Grow(s, portion) ==
    LET name == strip(SubSeq(portion, 1, Final(portion, <<"<|sep|>">>) - 1))
        args == AfterLast(portion, <<"<|sep|>">>)
        arr == IF Len(s.arr) <= s.id THEN Append(s.arr, <<>>) ELSE s.arr
        before == arr[s.id + 1]
        stored == IF s.id = Len(arr) - 1 THEN [arr EXCEPT ![s.id + 1] = args] ELSE Append(arr, args)
        grown == Len(args) > Len(before) /\ Starts(args, before)
    IN  IF ~Has(portion, <<"<|sep|>">>) THEN Step(s, Nothing)
        ELSE IF ~s.sent
        THEN IF name = <<>> THEN Step(s, Nothing)
             ELSE Step([s EXCEPT !.sent = TRUE], OneEntry(s.id, TRUE, name, <<>>))
        ELSE IF Len(arr) <= s.id THEN Step([s EXCEPT !.panic = TRUE], Nothing)
        ELSE Step([s EXCEPT !.arr = stored],
                  IF grown THEN OneEntry(s.id, FALSE, <<>>, From(args, Len(before) + 1)) ELSE Nothing)

\* The call closed in a delta: the tail up to the last string that ends an object.
Flush(s, delta) ==
    LET tails == {j \in 2..Len(delta) : delta[j] = "}" /\ delta[j - 1] \in Strings}
        known == s.id >= 0 /\ s.id < Len(s.arr)
    IN  IF known /\ s.arr[s.id + 1] # <<>> /\ tails # {}
        THEN OneEntry(s.id, FALSE, <<>>, SubSeq(delta, 1, Max(tails))) ELSE Nothing

StreamDeepSeekV31(s0, prev, cur, delta0) ==
    LET s == IF prev = <<>> THEN Fresh ELSE s0
        clean == Without(delta0, {"<|calls_begin|>", "<|calls_end|>"})
        closing == Has(clean, DSClose)
        delta == IF closing THEN TrimRight(Before(clean, DSClose)) ELSE clean
        open == Occurrences(cur, DSOpen)
        closed == Occurrences(cur, DSClose)
        long == Len(delta) > 1 \/ delta = DSOpen          \* more than one character
        fresh == [s EXCEPT !.id = @ + 1, !.sent = FALSE]
    IN  IF ~Has(cur, DSBegin) THEN Step(s, ContentDelta(delta0))
        ELSE IF open = closed /\ Occurrences(prev, DSClose) = closed /\ ~closing THEN Step(s, ContentDelta(delta))
        ELSE IF open > closed /\ open > Occurrences(prev, DSOpen)
        THEN IF long THEN Grow(fresh, AfterLast(cur, DSOpen)) ELSE Step(fresh, Nothing)
        ELSE IF open > closed THEN Grow(s, AfterLast(cur, DSOpen))
        ELSE IF open = closed THEN Step(s, Flush(s, delta))
        ELSE Step(s, ContentDelta(delta))

(* -- Seed-OSS and Qwen3-Coder --------------------------------------------- *)
SeedTags == [open |-> <<"<seed:tool_call>">>, close |-> Close("seed:tool_call>"), seed |-> TRUE]
CoderTags == [open |-> <<"<tool_call>">>, close |-> Close("tool_call>"), seed |-> FALSE]
FnOpen == <<"<function=">>
FnClose == Close("function>")
ParamOpen == <<"<parameter=">>
ParamClose == Close("parameter>")
SeedThinkEnd == <<"</seed:think>">>

\* A value in the type the schema gives its parameter.
convertParamValue(v, key) ==
    CASE ParamType(key) = "integer" -> JsonValue(v)
      [] ParamType(key) = "boolean" -> IF v = "true" THEN "true" ELSE "false"
      [] OTHER -> AsText(v)

\* The texts a parameter's value may end with: Seed-OSS wants its closing tag.
Enders(tags) == IF tags.seed THEN {ParamClose} ELSE {ParamClose, ParamOpen, FnClose, tags.close}
\* NAME>VALUE at the start of u, cut at the first ender.
EndOf(u, enders) == LET ps == {i \in 1..Len(u) : \E m \in enders : At(u, m, i)}
                    IN  IF ps = {} THEN Len(u) + 1 ELSE Min(ps)
ParamAt(u, enders) ==
    LET text == SubSeq(u, 1, EndOf(u, enders) - 1)
        value == Without(After(text, <<">">>), {"nl"})
    IN  IF Has(text, <<">">>) /\ value # <<>> THEN <<text[1], convertParamValue(value[1], text[1])>> ELSE <<>>
ParamStarts(t) == InOrder(Positions(t, ParamOpen), t)
XmlParamsOf(t, tags) ==
    LET starts == ParamStarts(t)
    IN  SelectSeq([j \in 1..Len(starts) |-> ParamAt(From(t, starts[j] + 1), Enders(tags) \ {tags.close})], LAMBDA p : p # <<>>)

\* parseXMLFunctionCall of NAME>params.
parseXMLFunctionCall(fc, tags) ==
    IF ~Has(fc, <<">">>) THEN NoCall
    ELSE Call(Before(fc, <<">">>), Dumps(Omap(XmlParamsOf(After(fc, <<">">>), tags))))

XmlBlocks(t, tags) == FindAny(<<Lit(tags.open) \o Grp(1, Lazy) \o Lit(tags.close), Lit(tags.open) \o Grp(1, Rest)>>, t)
XmlFunctions(t) ==
    LET ms == FindAny(<<Lit(FnOpen) \o Grp(1, Lazy) \o Lit(FnClose), Lit(FnOpen) \o Grp(1, Rest)>>, t)
    IN  [j \in 1..Len(ms) |-> Group(t, ms[j], 1)]
functionCalls(t, tags) ==
    LET ms == XmlBlocks(t, tags)
        raw == IF ms = <<>> THEN <<t>> ELSE [j \in 1..Len(ms) |-> Group(t, ms[j], 1)]
    IN  FlattenSeq([j \in 1..Len(raw) |-> XmlFunctions(raw[j])])
ExtractXml(t, tags) ==
    LET thought == tags.seed /\ Has(t, <<"<seed:think>">>) /\ Has(t, SeedThinkEnd)
        body == IF thought THEN After(t, SeedThinkEnd) ELSE t
        fns == functionCalls(body, tags)
        before == IF Has(body, tags.open) THEN Before(body, tags.open) ELSE Before(body, FnOpen)
    IN  IF fns = <<>> THEN NotCalled(t)
        ELSE Extracted(Called([j \in 1..Len(fns) |-> parseXMLFunctionCall(fns[j], tags)]),
                       SubSeq(t, 1, Len(t) - Len(body)) \o before)

\* The text of tool call number s.idx, up to its closing tag.
ToolStarts(t, tags) ==
    LET from == IF tags.seed /\ Has(t, SeedThinkEnd) THEN First(t, SeedThinkEnd) + 1 ELSE 1
    IN  InOrder({i \in Positions(t, tags.open) : i >= from}, t)
ToolTextOf(s, t, tags) ==
    LET u == From(t, ToolStarts(t, tags)[s.idx + 1])
    IN  IF Has(u, tags.close) THEN SubSeq(u, 1, First(u, tags.close) + 1) ELSE u

\* The header, or the whole call when its body is already complete.
Header(s, u, tags) ==
    LET fc == Before(After(u, FnOpen), FnClose)
        name == Before(fc, <<">">>)
        s1 == [s EXCEPT !.header = TRUE, !.inFn = TRUE, !.name = name]
    IN  IF ~Has(u, FnOpen) \/ ~Has(After(u, FnOpen), <<">">>) THEN Step(s, Nothing)
        ELSE IF Has(u, FnClose)
        THEN Step([s1 EXCEPT !.json = "closed", !.inFn = FALSE],
                  OneEntry(s.idx, TRUE, name, parseXMLFunctionCall(fc, tags).args))
        ELSE Step(s1, OneEntry(s.idx, TRUE, name, <<>>))

\* The parameters that are complete and not sent yet.
Ready(s, u, tags) ==
    LET starts == ParamStarts(u)
        rest(j) == From(u, starts[j] + 1)
        done(j) == Has(rest(j), <<">">>) /\ EndOf(rest(j), Enders(tags)) <= Len(rest(j))
        upTo == {j \in s.params..Len(starts) : \A i \in (s.params + 1)..j : done(i)}
    IN  [j \in 1..(Max(upTo) - s.params) |-> ParamAt(rest(s.params + j), Enders(tags))]

\* One thing a delta: "{", then the parameters (Seed-OSS one at a time and only
\* while the function is open), then "}".
Body(s, u, tags) ==
    LET ready == Ready(s, u, tags)
        send == IF tags.seed THEN SubSeq(ready, 1, Min({1, Len(ready)})) ELSE ready
        close == Step([s EXCEPT !.json = "closed", !.inFn = FALSE], OneEntry(s.idx, FALSE, <<>>, <<"}">>))
        sent == Step([s EXCEPT !.params = @ + Len(send)], OneEntry(s.idx, FALSE, <<>>, FlattenSeq(send)))
    IN  IF s.json = "none" THEN Step([s EXCEPT !.json = "open"], OneEntry(s.idx, FALSE, <<>>, <<"{">>))
        ELSE IF tags.seed /\ Has(u, FnClose) THEN close
        ELSE IF send # <<>> THEN sent
        ELSE IF Has(u, FnClose) THEN close ELSE Step(s, Nothing)

StreamXml(s0, prev, cur, delta, tags) ==
    LET s1 == IF prev = <<>> THEN Fresh ELSE s0
        advance == s1.json = "closed" /\ ~s1.inFn /\ Occurrences(cur, tags.close) > s1.idx
        next == [s1 EXCEPT !.idx = @ + 1, !.header = FALSE, !.params = 0, !.json = "none",
                           !.started = @ /\ s1.idx + 1 < Occurrences(cur, tags.open)]
        thought == ~tags.seed \/ s1.thought \/ ~Has(cur, <<"<seed:think>">>) \/ Has(delta, SeedThinkEnd)
        s == [s1 EXCEPT !.thought = thought]
        opens == ~s.started /\ Has(delta, tags.open)
        s2 == [s EXCEPT !.started = TRUE]
    IN  IF advance THEN Step(next, Nothing)
        ELSE IF ~thought THEN Step(s, ContentDelta(delta))
        ELSE IF opens /\ Before(delta, tags.open) # <<>> THEN Step(s2, ContentDelta(Before(delta, tags.open)))
        ELSE IF ~s.started /\ ~opens
        THEN Step(s, IF Ends(TrimRight(cur), tags.close) /\ strip(delta) = <<>> THEN Nothing ELSE ContentDelta(delta))
        ELSE IF s2.idx >= Len(ToolStarts(cur, tags)) THEN Step(s2, Nothing)
        ELSE IF ~s2.header THEN Header(s2, ToolTextOf(s2, cur, tags), tags)
        ELSE IF s2.inFn THEN Body(s2, ToolTextOf(s2, cur, tags), tags) ELSE Step(s2, Nothing)

ExtractSeedOss(t) == ExtractXml(t, SeedTags)
ExtractQwen3Coder(t) == ExtractXml(t, CoderTags)
StreamSeedOss(s, prev, cur, delta) == StreamXml(s, prev, cur, delta, SeedTags)
StreamQwen3Coder(s, prev, cur, delta) == StreamXml(s, prev, cur, delta, CoderTags)
=============================================================================
