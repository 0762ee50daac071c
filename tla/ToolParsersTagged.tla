------------------------ MODULE ToolParsersTagged ------------------------
(***************************************************************************)
(* The tool parsers that read a call back out of the whole text at each     *)
(* closing marker (toolparsers/*.go).  Extract<Family> is ExtractToolCalls, *)
(* Stream<Family>(prev, cur, delta) is ExtractToolCallsStreaming.  tools is *)
(* the set of function names the request declares.                          *)
(***************************************************************************)
EXTENDS ToolText

CONSTANT Tools
Known(name) == Tools = {} \/ \E f \in Tools : name = <<f>>

(* -- Qwen ---------------------------------------------------------------- *)
QwenXMLRE == Lit(<<"<tool_call>">>) \o Ws \o Grp(1, BodyRE) \o Ws \o Lit(Close("tool_call>"))
QwenBracketRE == Lit(<<"[Calling tool:">>) \o Ws \o Grp(1, Word) \o Lit(<<"(">>) \o Grp(2, BodyRE) \o Lit(<<")", "]">>)

XMLCalls(t) == LET ms == FindAll(QwenXMLRE, t) IN Called([j \in 1..Len(ms) |-> DecodeCall(Group(t, ms[j], 1))])
\* Erase the matches of P, trimming the text if there were any.
Stripped(t, P) == LET ms == FindAll(P, t) IN IF ms = <<>> THEN t ELSE strip(Erase(t, ms))

\* A body that does not decode is skipped, or kept as it stands.
BracketCalls(t, raw) ==
    LET ms == FindAll(QwenBracketRE, t)
        call(m) == IF IsObject(Group(t, m, 2)) THEN Call(Group(t, m, 1), Reencode(Group(t, m, 2)))
                   ELSE IF raw THEN Call(Group(t, m, 1), Group(t, m, 2)) ELSE NoCall
    IN  Called([j \in 1..Len(ms) |-> call(ms[j])])

ExtractQwen(t) ==
    LET cleaned == stripThinkTags(t)
        calls == BracketCalls(cleaned, FALSE) \o XMLCalls(Stripped(cleaned, QwenBracketRE))
    IN  IF calls = <<>> THEN NotCalled(t)
        ELSE Extracted(calls, Stripped(Stripped(cleaned, QwenBracketRE), QwenXMLRE))

QwenClosed(t) == Occurrences(t, Close("tool_call>")) + Occurrences(t, <<")", "]">>)
\* The calls of res the earlier text did not have.
NewCalls(res, seen) ==
    IF seen >= Len(res.calls) THEN Nothing ELSE streamFromCalls(From(res.calls, seen + 1), seen)

StreamQwen(prev, cur, delta) ==
    IF ~Has(cur, <<"<tool_call>">>) /\ ~Has(cur, <<"[Calling tool:">>) THEN ContentDelta(delta)
    ELSE IF QwenClosed(cur) <= QwenClosed(prev) THEN Nothing
    ELSE NewCalls(ExtractQwen(cur), Len(ExtractQwen(prev).calls))

(* -- Nemotron ------------------------------------------------------------ *)
NemotronCallRE == Lit(<<"<tool_call>">>) \o Ws \o Lit(<<"<function=">>) \o Grp(1, Not({">"}, 1)) \o Lit(<<">">>)
                    \o Grp(2, Lazy) \o Lit(Close("function>")) \o Ws \o Lit(Close("tool_call>"))
NemotronParamRE == Lit(<<"<parameter=">>) \o Grp(1, Not({">"}, 1)) \o Lit(<<">">>) \o Ws \o Grp(2, Lazy) \o Ws
                    \o Lit(Close("parameter>"))

\* The <parameter=> tags of a block; xmlParams reads their values.
XmlPairs(t) ==
    LET ms == FindAll(NemotronParamRE, t)
    IN  [j \in 1..Len(ms) |-> <<Group(t, ms[j], 1)[1], strip(Group(t, ms[j], 2))[1]>>]
XmlParams(t) == Omap([j \in DOMAIN XmlPairs(t) |-> <<XmlPairs(t)[j][1], JsonValue(XmlPairs(t)[j][2])>>])

NemotronCall(t, m) ==
    LET body == strip(Group(t, m, 2))
        params == XmlParams(body)
    IN  IF IsObject(body) THEN Call(strip(Group(t, m, 1)), body)
        ELSE IF params # <<>> THEN Call(strip(Group(t, m, 1)), Dumps(params))
        ELSE IF body # <<>> THEN Call(strip(Group(t, m, 1)), body) ELSE NoCall
ExtractNemotron(t) ==
    LET ms == FindAll(NemotronCallRE, t)
        calls == Called([j \in 1..Len(ms) |-> NemotronCall(t, ms[j])])
    IN  IF calls = <<>> THEN NotCalled(t) ELSE Extracted(calls, strip(Erase(t, ms)))
StreamNemotron(prev, cur, delta) ==
    IF ~Has(cur, <<"<tool_call>">>) THEN ContentDelta(delta)
    ELSE IF Has(delta, Close("tool_call>")) THEN emitAllStreaming(ExtractNemotron(cur)) ELSE Nothing

(* -- Llama --------------------------------------------------------------- *)
LlamaFunctionRE == Lit(<<"<function=">>) \o Grp(1, Not({">"}, 1)) \o Lit(<<">">>) \o Grp(2, BodyRE) \o Lit(Close("function>"))
\* A body that is not JSON is kept raw; Functionary keeps every body raw.
LlamaCalls(t, reencode) ==
    LET ms == FindAll(LlamaFunctionRE, t)
        body(m) == Group(t, m, 2)
    IN  [j \in 1..Len(ms) |-> Call(strip(Group(t, ms[j], 1)),
            IF reencode /\ IsObject(body(ms[j])) THEN Reencode(body(ms[j])) ELSE body(ms[j]))]
ExtractLlama(t) ==
    IF LlamaCalls(t, TRUE) = <<>> THEN NotCalled(t)
    ELSE Extracted(LlamaCalls(t, TRUE), strip(Erase(t, FindAll(LlamaFunctionRE, t))))
StreamLlama(prev, cur, delta) ==
    IF ~Has(cur, <<"<function=">>) THEN ContentDelta(delta)
    ELSE IF Has(delta, Close("function>")) THEN emitAllStreaming(ExtractLlama(cur)) ELSE Nothing

(* -- Hermes -------------------------------------------------------------- *)
HermesReasoningRE == Lit(<<"<tool_call_reasoning>">>) \o Grp(1, Lazy) \o Lit(Close("tool_call_reasoning>"))
HermesLenientRE == Of({"<tool_call", "<tool_call>"}) \o Not({"{"}, 0) \o Grp(1, CallRE)
HermesBareRE == Lit(<<"<function=">>) \o Grp(1, Not({">"}, 1)) \o Lit(<<">">>) \o Grp(2, Lazy) \o Lit(Close("function>"))

\* One way of reading calls, and the text it leaves.
Found(calls, t) == [calls |-> calls, rest |-> t]
HermesTagged(t, P) ==
    LET ms == FindAll(P, t)
    IN  Found([j \in 1..Len(ms) |-> Call(strip(Group(t, ms[j], 1)), Dumps(XmlParams(Group(t, ms[j], 2))))],
              Stripped(t, P))
HermesLenient(t) ==
    LET ms == FindAll(HermesLenientRE, t)
        call == IF ms = <<>> THEN NoCall ELSE DecodeCall(Group(t, ms[1], 1))
    IN  IF call.name = <<>> THEN Found(<<>>, t) ELSE Found(<<call>>, strip(replaceFirst(t, ms)))
HermesRaw(t) ==
    LET ms == FindAll(CallRE, t)
    IN  IF ms # <<>> /\ IsObject(Group(t, ms[1], 2)) /\ Known(Group(t, ms[1], 1))
        THEN Found(<<Call(Group(t, ms[1], 1), Reencode(Group(t, ms[1], 2)))>>, strip(replaceFirst(t, ms)))
        ELSE Found(<<>>, t)
\* The first reading that finds a call wins.
OrElse(found, next(_)) == IF found.calls = <<>> THEN next(found.rest) ELSE found
ExtractHermes(t) ==
    LET cleaned == stripThinkTags(t)
        notes == FindAll(HermesReasoningRE, cleaned)
        body == Erase(cleaned, notes)
        xml(u) == Found(XMLCalls(u), Stripped(u, QwenXMLRE))
        nemotron(u) == HermesTagged(u, NemotronCallRE)
        bare(u) == HermesTagged(u, HermesBareRE)
        found == OrElse(OrElse(OrElse(OrElse(xml(body), nemotron), bare), HermesLenient), HermesRaw)
    IN  Extracted(found.calls, found.rest \o FlattenSeq([j \in 1..Len(notes) |-> Group(cleaned, notes[j], 1)]))

\* What a streamed delta shows of the calls, or the delta itself.
OrContent(new, delta) == IF new = Nothing THEN ContentDelta(delta) ELSE new
StreamHermes(prev, cur, delta) ==
    LET tagged(open, close) ==
          IF Occurrences(cur, open) > Occurrences(cur, close) THEN Nothing
          ELSE IF Occurrences(cur, close) = Occurrences(prev, close) THEN ContentDelta(delta)
          ELSE OrContent(NewCalls(ExtractHermes(cur), Occurrences(prev, close)), delta)
    IN  IF Has(cur, <<"<tool_call>">>) THEN tagged(<<"<tool_call>">>, Close("tool_call>"))
        ELSE IF Has(cur, <<"<function=">>) THEN tagged(<<"<function=">>, Close("function>"))
        ELSE IF Has(cur, <<"{", "name:">>) /\ Has(cur, <<"args:">>)
        THEN IF Ends(TrimRight(delta), <<"}">>) THEN emitAllStreaming(ExtractHermes(cur)) ELSE Nothing
        ELSE ContentDelta(delta)

(* -- Granite ------------------------------------------------------------- *)
GraniteBody(t) ==
    LET u == strip(t)
    IN  IF Starts(u, <<"<|tool_call|>">>) \/ Starts(u, <<"<tool_call>">>) THEN strip(From(u, 2)) ELSE u
ExtractGranite(t) ==
    LET calls == DecodeArray(GraniteBody(t))
    IN  IF Called(calls) = <<>> THEN NotCalled(t) ELSE Extracted(Called(calls), <<>>)
StreamGranite(prev, cur, delta) ==
    IF GraniteBody(cur) = strip(cur) THEN ContentDelta(delta)
    ELSE IF Has(delta, <<"]">>) THEN emitAllStreaming(ExtractGranite(cur)) ELSE Nothing

(* -- Kimi ---------------------------------------------------------------- *)
KimiStarts == {"<|tool_calls_section_begin|>", "<|tool_call_section_begin|>"}
HasSection(t) == \E i \in 1..Len(t) : t[i] \in KimiStarts \cup {"<|tool_call_begin|>"}
KimiCallRE == Lit(<<"<|tool_call_begin|>">>) \o Ws \o Grp(1, Not({"</", ":0"}, 1)) \o Opt({":0"}) \o Ws
                \o Lit(<<"<|tool_call_argument_begin|>">>) \o Ws \o Grp(2, Lazy) \o Ws \o Lit(<<"<|tool_call_end|>">>)
ExtractKimi(t) ==
    LET ms == FindAll(KimiCallRE, t)
        name(m) == Without(Group(t, m, 1), {"functions."} \cup Space)
        starts == {i \in 1..Len(t) : t[i] \in KimiStarts}
        content == IF starts = {} THEN <<>> ELSE strip(SubSeq(t, 1, Min(starts) - 1))
    IN  IF ~HasSection(t) \/ ms = <<>> THEN NotCalled(t)
        ELSE Extracted([j \in 1..Len(ms) |-> Call(name(ms[j]), strip(Group(t, ms[j], 2)))], content)
StreamKimi(prev, cur, delta) ==
    IF ~HasSection(cur) THEN ContentDelta(delta)
    ELSE IF Has(delta, <<"<|tool_call_end|>">>) THEN emitAllStreaming(ExtractKimi(cur)) ELSE Nothing

(* -- DeepSeek V3 --------------------------------------------------------- *)
DeepSeekBody == Lit(<<"nl", "fence", "json", "nl">>) \o Grp(3, Lazy) \o Lit(<<"nl", "fence", "<|call_end|>">>)
DeepSeekCallRE == Lit(<<"<|call_begin|>">>) \o Grp(1, Lazy) \o Lit(<<"<|sep|>">>) \o Grp(2, Lazy) \o DeepSeekBody
DeepSeekSimpleRE == Lit(<<"<|call_begin|>">>) \o Grp(2, Lazy) \o DeepSeekBody
\* The type-less pattern is tried only when the full one found nothing.
ExtractDeepSeek(t) ==
    LET full == FindAll(DeepSeekCallRE, t)
        ms == IF full # <<>> THEN full ELSE FindAll(DeepSeekSimpleRE, t)
    IN  IF ~Has(t, <<"<|calls_begin|>">>) \/ ms = <<>> THEN NotCalled(t)
        ELSE Extracted([j \in 1..Len(ms) |-> Call(strip(Group(t, ms[j], 2)), strip(Group(t, ms[j], 3)))],
                       strip(Before(t, <<"<|calls_begin|>">>)))
StreamDeepSeek(prev, cur, delta) ==
    IF ~Has(cur, <<"<|calls_begin|>">>) THEN ContentDelta(delta)
    ELSE IF Has(delta, <<"<|call_end|>">>) \/ Has(delta, <<"<|calls_end|>">>)
    THEN emitAllStreaming(ExtractDeepSeek(cur)) ELSE Nothing

(* -- xLAM ---------------------------------------------------------------- *)
XlamFenceRE == Lit(<<"fence">>) \o Opt({"json"}) \o Ws \o Grp(1, Lazy) \o Lit(<<"fence">>)
XlamTagRE == Lit(<<"[TOOL_CALLS]">>) \o Grp(1, <<Piece({"nl"}, TRUE, 0, Long, TRUE)>>) \o Opt({"nl"})
\* tryExtractJSON: fences, then the tag, then what follows </think>, then the whole text.
ExtractXlam(t) ==
    LET arrays(P) == SelectSeq(FindAll(P, t), LAMBDA m : IsArray(strip(Group(t, m, 1))))
        by(P) == [calls |-> DecodeArray(strip(Group(t, arrays(P)[1], 1))), content |-> strip(Erase(t, FindAll(P, t)))]
        think == <<"</think>">>
        after == strip(After(t, think))
        found == IF arrays(XlamFenceRE) # <<>> THEN by(XlamFenceRE)
                 ELSE IF arrays(XlamTagRE) # <<>> THEN by(XlamTagRE)
                 ELSE IF Has(t, think) /\ IsArray(after)
                      THEN [calls |-> DecodeArray(after), content |-> strip(Before(t, think) \o think)]
                 ELSE IF IsArray(strip(t)) THEN [calls |-> DecodeArray(strip(t)), content |-> <<>>]
                 ELSE [calls |-> <<>>, content |-> t]
    IN  IF found.calls = <<>> THEN NotCalled(IF found.content = <<>> THEN t ELSE found.content) ELSE Extracted(found.calls, found.content)
StreamXlam(prev, cur, delta) ==
    IF /\ ~Has(cur, <<"fence">>) /\ ~Has(cur, <<"[TOOL_CALLS]">>) /\ ~Has(cur, <<"</think>">>)
       /\ ~(Starts(strip(cur), <<"[">>) /\ Has(cur, <<"{">>))
    THEN ContentDelta(delta)
    ELSE IF Has(delta, <<"]">>) \/ Has(delta, <<"fence">>) THEN emitAllStreaming(ExtractXlam(cur)) ELSE Nothing

(* -- GLM-4.7 ------------------------------------------------------------- *)
GlmFuncHead == Lit(<<"<tool_call>">>) \o Ws \o Grp(1, Not({"nl", "<arg_key>", "<tool_call>", "</"}, 1)) \o Ws
GlmFuncREs == <<GlmFuncHead \o Grp(2, Lit(<<"<arg_key>">>) \o Lazy) \o Lit(Close("tool_call>")),
                GlmFuncHead \o Lit(Close("tool_call>"))>>
GlmArgRE == Lit(<<"<arg_key>">>) \o Ws \o Grp(1, Lazy) \o Ws \o Lit(Close("arg_key>")) \o Ws
              \o Lit(<<"<arg_value>">>) \o Grp(2, Lazy) \o Lit(Close("arg_value>"))
GlmArgs(t) ==
    LET ms == SelectSeq(FindAll(GlmArgRE, t), LAMBDA m : Group(t, m, 1) # <<>>)
    IN  Omap([j \in 1..Len(ms) |-> <<Group(t, ms[j], 1)[1], JsonValue(strip(Group(t, ms[j], 2))[1])>>])
ExtractGlm47(t) ==
    LET cleaned == stripThinkTags(t)
        ms == FindAny(GlmFuncREs, cleaned)
        name(m) == strip(Group(cleaned, m, 1))
        good == SelectSeq(ms, LAMBDA m : name(m) # <<>> /\ Known(name(m)))
        calls == [j \in 1..Len(good) |-> Call(name(good[j]), Dumps(GlmArgs(Group(cleaned, good[j], 2))))]
    IN  IF calls = <<>> THEN NotCalled(cleaned) ELSE Extracted(calls, <<>>)
StreamGlm47(prev, cur, delta) ==
    IF Has(cur, <<"<think>">>) /\ ~Has(cur, <<"</think>">>) THEN Nothing
    ELSE IF Has(cur, <<"<tool_call>">>)
    THEN IF Has(delta, Close("tool_call>")) THEN emitAllStreaming(ExtractGlm47(cur)) ELSE Nothing
    ELSE IF Has(delta, <<"</think>">>) THEN ContentDelta(stripThinkTags(delta)) ELSE ContentDelta(delta)

(* -- MiniMax ------------------------------------------------------------- *)
MiniMaxBlockRE == Lit(<<"<minimax:tool_call>">>) \o Grp(1, Lazy) \o Lit(Close("minimax:tool_call>"))
MiniMaxInvokeHead == Lit(<<"<invoke">>) \o Ws \o Grp(1, Of(Words)) \o Lit(<<">">>)
MiniMaxInvokeRE == MiniMaxInvokeHead \o Grp(2, Lazy) \o Lit(Close("invoke>"))
MiniMaxInvokePartRE == MiniMaxInvokeHead \o Grp(2, Rest)
MiniMaxParamHead == Lit(<<"<parameter">>) \o Ws \o Grp(1, Of(Words)) \o Lit(<<">">>)
MiniMaxParamRE == MiniMaxParamHead \o Grp(2, Lazy) \o Lit(Close("parameter>"))
MiniMaxParamPartRE == MiniMaxParamHead \o Grp(2, <<Piece({"</", "<parameter", "<invoke"}, TRUE, 0, Long, TRUE)>>)
OrPart(P, Q, t) == IF FindAll(P, t) # <<>> THEN FindAll(P, t) ELSE FindAll(Q, t)

\* extractInvokes: calls out of a region that may be cut short; a call without
\* a parameter is no call.
extractInvokes(t) ==
    LET invokes == OrPart(MiniMaxInvokeRE, MiniMaxInvokePartRE, t)
        args(block) == LET ms == SelectSeq(OrPart(MiniMaxParamRE, MiniMaxParamPartRE, block),
                                           LAMBDA m : strip(Group(block, m, 2)) # <<>>)
                       IN  Omap([j \in 1..Len(ms) |-> <<Group(block, ms[j], 1)[1], JsonValue(strip(Group(block, ms[j], 2))[1])>>])
        full == SelectSeq(invokes, LAMBDA m : args(Group(t, m, 2)) # <<>>)
    IN  [j \in 1..Len(full) |-> Call(Group(t, full[j], 1), Dumps(args(Group(t, full[j], 2))))]
ExtractMiniMax(t) ==
    LET blocks == FindAll(MiniMaxBlockRE, t)
        unthought(u) == strip(Erase(u, FindAll(ThinkRE, u)))
    IN  IF blocks # <<>>
        THEN Extracted(FlattenSeq([j \in 1..Len(blocks) |-> extractInvokes(Group(t, blocks[j], 1))]),
                       unthought(strip(Erase(t, blocks))))
        ELSE IF extractInvokes(t) # <<>>
        THEN Extracted(extractInvokes(t), unthought(strip(Erase(t, FindAll(MiniMaxInvokeRE, t)))))
        ELSE IF extractTextFormatToolCalls(t) # <<>>
        THEN Extracted(extractTextFormatToolCalls(t), unthought(Stripped(Erase(t, FindAll(TextKVRE, t)), TextFnRE)))
        ELSE NotCalled(t)
TextCalls(t) == Len(FindAll(TextKVRE, t)) + Len(FindAll(TextFnRE, t))
MiniMaxOpen(t) == Has(t, <<"<minimax:tool_call>">>)
hasToolStart(t) == MiniMaxOpen(t) \/ Matches(MiniMaxInvokeRE, t) \/ hasTextFormatToolCall(t)
hasToolEnd(cur, prev) ==
    LET more(m) == Occurrences(cur, m) > Occurrences(prev, m)
    IN  IF MiniMaxOpen(cur) THEN more(Close("minimax:tool_call>"))
        ELSE more(Close("invoke>")) \/ TextCalls(cur) > TextCalls(prev)
\* How many calls the earlier text is taken to have had.
MiniMaxSeen(prev) ==
    TextCalls(prev) + IF MiniMaxOpen(prev) THEN Occurrences(prev, Close("minimax:tool_call>"))
                      ELSE Occurrences(prev, Close("invoke>"))
StreamMiniMax(prev, cur, delta) ==
    IF ~hasToolStart(cur) THEN ContentDelta(delta)
    ELSE IF hasToolEnd(cur, prev) THEN NewCalls(ExtractMiniMax(cur), MiniMaxSeen(prev)) ELSE Nothing

(* -- Functionary --------------------------------------------------------- *)
Bars == {"<|recipient|>", "<|content|>", "<|from|>"}
FunctionaryRE == Lit(<<"<|recipient|>">>) \o Ws \o Grp(1, Word) \o Ws \o Lit(<<"nl", "<|content|>">>) \o Ws
                   \o Grp(2, BodyRE) \o Ahead(Bars)
FromRE == Lit(<<"<|from|>", "assistant">>) \o Ws
\* Messages to all or to the user are no calls; an array is read only when
\* nothing else was found.
ExtractFunctionary(t) ==
    LET ms == FindAll(FunctionaryRE, t)
        cleaned == IF ms = <<>> THEN t ELSE strip(Erase(Erase(t, ms), FindAll(FromRE, Erase(t, ms))))
        addressed == SelectSeq(ms, LAMBDA m : Group(t, m, 1) # <<"all">>)
        calls == [j \in 1..Len(addressed) |-> Call(Group(t, addressed[j], 1), Group(t, addressed[j], 2))]
                   \o LlamaCalls(cleaned, FALSE)
    IN  IF calls # <<>> THEN Extracted(calls, Stripped(cleaned, LlamaFunctionRE))
        ELSE IF IsArray(strip(t)) /\ DecodeArray(strip(t)) # <<>> THEN Extracted(DecodeArray(strip(t)), <<>>)
        ELSE NotCalled(t)
StreamFunctionary(prev, cur, delta) ==
    IF ~Has(cur, <<"<|recipient|>">>) /\ ~Has(cur, <<"<function=">>) /\ ~Has(cur, <<"[">>) THEN ContentDelta(delta)
    ELSE IF Has(delta, <<"<|content|>">>) \/ Has(delta, Close("function>")) \/ Has(delta, <<"]">>)
    THEN emitAllStreaming(ExtractFunctionary(cur)) ELSE Nothing

(* -- Harmony ------------------------------------------------------------- *)
HarmonyTerms == {"<|call|>", "<|channel|>", "<|start|>", "<|end|>", "<|return|>"}
ToFunc == Lit(<<"to=functions.">>) \o Grp(1, Of(Words))
HarmonyHeads == <<ToFunc \o Lit(<<"<|channel|>", "commentary">>) \o Ws \o Opt({"json"}) \o Lit(<<"<|message|>">>),
                  Lit(<<"<|channel|>", "commentary">>) \o Ws \o ToFunc \o Ws \o Opt({"<|constrain|>"}) \o Opt({"json"})
                    \o Ws \o Lit(<<"<|message|>">>)>>
\* A call ends at a control token or with the text.
HarmonyCallREs == <<HarmonyHeads[1] \o Grp(2, Lazy) \o Of(HarmonyTerms), HarmonyHeads[1] \o Grp(2, Rest),
                    HarmonyHeads[2] \o Grp(2, Lazy) \o Of(HarmonyTerms), HarmonyHeads[2] \o Grp(2, Rest)>>
HarmonyFinalRE == Lit(<<"<|channel|>", "final">>) \o Ws \o Lit(<<"<|message|>">>) \o Grp(1, Lazy)
                    \o Of({"<|end|>", "<|return|>"})
Controls == HarmonyTerms \cup {"<|message|>", "<|constrain|>", "analysis", "commentary", "final", "json"}
stripControlTokens(t) == strip(Without(Erase(t, FindAll(ToFunc, t)), Controls))
ExtractHarmony(t) ==
    LET ms == FindAny(HarmonyCallREs, t)
        body(m) == strip(Group(t, m, 2))
        final == FindAll(HarmonyFinalRE, t)
        content == IF final = <<>> THEN <<>> ELSE strip(Group(t, final[1], 1))
    IN  IF ms # <<>>
        THEN Extracted([j \in 1..Len(ms) |-> Call(Group(t, ms[j], 1),
                          IF IsObject(body(ms[j])) THEN Reencode(body(ms[j])) ELSE body(ms[j]))], content)
        ELSE NotCalled(IF final = <<>> THEN stripControlTokens(t) ELSE content)
\* What the final channel has so far, without control tokens.
FinalText(t) ==
    LET tail == From(t, Final(t, <<"<|channel|>", "final">>))
    IN  IF Has(t, <<"<|channel|>", "final">>) THEN stripControlTokens(After(tail, <<"<|message|>">>)) ELSE <<>>
StreamHarmony(prev, cur, delta) ==
    IF Has(delta, <<"<|call|>">>) /\ ExtractHarmony(cur).called THEN emitAllStreaming(ExtractHarmony(cur))
    ELSE IF Has(cur, <<"<|channel|>", "final">>) THEN ContentDelta(From(FinalText(cur), Len(FinalText(prev)) + 1))
    ELSE IF ~Has(cur, <<"<|channel|>">>) THEN ContentDelta(delta) ELSE Nothing

(* -- Mistral's complete form and Auto ------------------------------------- *)
MistralArrayRE == Grp(1, Lit(<<"[", "{">>) \o Rest \o Lit(<<"}", "]">>))
\* One part after [TOOL_CALLS]: name{json} or, in older models, an array.
NewForm(raw) == ~Starts(raw, <<"[">>) /\ Has(raw, <<"{">>)
NewFormCall(raw, name) == IF name = <<>> THEN <<>> ELSE <<Call(name, From(raw, First(raw, <<"{">>)))>>
MistralCalls(raw) ==
    LET inner == FindAll(MistralArrayRE, raw)
    IN  IF NewForm(raw) THEN NewFormCall(raw, strip(Without(Before(raw, <<"{">>), {"[ARGS]"})))
        ELSE IF IsArray(raw) THEN DecodeArray(raw)
        ELSE IF inner # <<>> /\ IsArray(Group(raw, inner[1], 1)) THEN DecodeArray(Group(raw, inner[1], 1)) ELSE <<>>
ExtractMistral(t) ==
    LET parts == Split(t, "[TOOL_CALLS]")
        raws == SelectSeq([j \in 1..(Len(parts) - 1) |-> strip(parts[j + 1])], LAMBDA r : r # <<>>)
        calls == FlattenSeq([j \in 1..Len(raws) |-> MistralCalls(raws[j])])
        \* A part that is no call is folded back into the content.
        spare == SelectSeq(raws, LAMBDA r : ~NewForm(r) /\ ~IsArray(r) /\ MistralCalls(r) = <<>>)
    IN  IF calls = <<>> THEN NotCalled(t) ELSE Extracted(calls, strip(parts[1]) \o FlattenSeq(spare))

AutoMistral(t) ==
    LET parts == Split(t, "[TOOL_CALLS]")
        calls(raw) == IF NewForm(raw) THEN NewFormCall(raw, strip(Before(raw, <<"{">>)))
                      ELSE IF IsArray(raw) THEN DecodeArray(raw) ELSE <<>>
    IN  Extracted(FlattenSeq([j \in 1..(Len(parts) - 1) |-> calls(strip(parts[j + 1]))]), strip(parts[1]))
parseRawJSONToolCalls(t) ==
    LET u == strip(t)
        ms == FindAny(<<CallRE, NamedRE>>, u)
    IN  IF IsArray(u) THEN DecodeArray(u)
        ELSE Called([j \in 1..Len(ms) |-> DecodeCall(SubSeq(u, ms[j].c[1], Last(ms[j].c) - 1))])
ExtractAuto(t) ==
    LET t2 == Stripped(t, QwenBracketRE)
        t3 == Stripped(t2, NemotronCallRE)
        t4 == Stripped(t3, QwenXMLRE)
        t5 == Stripped(t4, LlamaFunctionRE)
        texts(ps) == Omap([j \in DOMAIN ps |-> <<ps[j][1], AsText(ps[j][2])>>])
        nemotron == LET ms == FindAll(NemotronCallRE, t2)
                    IN  [j \in 1..Len(ms) |-> Call(strip(Group(t2, ms[j], 1)), Dumps(texts(XmlPairs(Group(t2, ms[j], 2)))))]
        calls == BracketCalls(t, TRUE) \o nemotron \o XMLCalls(t3) \o LlamaCalls(t4, TRUE)
        raw == parseRawJSONToolCalls(t5)
    IN  IF AutoMistral(t).called THEN AutoMistral(t)
        ELSE IF calls # <<>> THEN Extracted(calls, t5)
        ELSE IF raw # <<>> THEN Extracted(raw, <<>>) ELSE NotCalled(t)
StreamAuto(prev, cur, delta) ==
    IF \A m \in {"[TOOL_CALLS]", "[Calling tool:", "<tool_call>", "<function="} : ~Has(cur, <<m>>) THEN ContentDelta(delta)
    ELSE IF \E m \in {Close("tool_call>"), Close("function>"), <<")", "]">>} : Has(delta, m)
    THEN emitAllStreaming(ExtractAuto(cur)) ELSE Nothing

=============================================================================
