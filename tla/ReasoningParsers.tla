------------------------- MODULE ReasoningParsers -------------------------
(***************************************************************************)
(* The parsers that split reasoning from answer (reasoning/*.go).           *)
(* Whole(p, t) is ExtractReasoning, Reason(p, r, prev, cur, delta) is       *)
(* ExtractReasoningStreaming in the parser's state r, Finalize(p, r, t) is  *)
(* FinalizeStreaming.  Lengths are counted in symbols.  The tags are        *)
(* special tokens, each one symbol; the phrases of MiniMax's heuristics are *)
(* the symbols of Preambles and Transitions.                                *)
(***************************************************************************)
EXTENDS ToolText

CONSTANTS NoTagThreshold, DecideAt

Think == <<"<think>">>
EndThink == <<"</think>">>
Idle == [saw |-> FALSE, inThought |-> FALSE, inContent |-> FALSE,          \* baseThinking, Gemma4
         channel |-> "", inMessage |-> FALSE,                              \* Harmony
         decided |-> FALSE, isReasoning |-> FALSE, from |-> 1]             \* MiniMax
Split2(reasoning, content) == [reasoning |-> reasoning, content |-> content]
Thought(t) == Split2(t, <<>>)
Answer(t) == Split2(<<>>, t)
Skip == Split2(<<>>, <<>>)
Out(r, d) == [r |-> r, d |-> d]

(* -- the shared <think> machine ------------------------------------------- *)
Around(t) == Split2(Before(t, EndThink), After(t, EndThink))
WholeThinking(t) ==
    LET body == IF Has(t, Think) THEN After(t, Think) ELSE t
    IN  IF Has(t, EndThink) THEN Split2(strip(Around(body).reasoning), strip(Around(body).content))
        ELSE IF Has(t, Think) THEN Thought(strip(body)) ELSE Answer(t)

handleExplicit(prev, delta) ==
    LET body == IF Has(prev, Think) THEN delta ELSE After(delta, Think)
    IN  IF Has(body, EndThink) THEN Around(body)
        ELSE IF Has(prev, Think) /\ Has(prev, EndThink) THEN Answer(body) ELSE Thought(body)

handleImplicit(prev, delta) ==
    IF Has(delta, EndThink) THEN Around(delta) ELSE IF Has(prev, EndThink) THEN Answer(delta) ELSE Thought(delta)
ReasonThinking(r, prev, cur, delta) ==
    LET seen == [r EXCEPT !.saw = TRUE]
    IN  IF strip(delta) \in {Think, EndThink} THEN Out(r, Skip)
        ELSE IF Has(cur, Think) THEN Out(seen, handleExplicit(prev, delta))
        ELSE IF Has(cur, EndThink) THEN Out(seen, handleImplicit(prev, delta))
        ELSE Out(r, Thought(delta))

\* GLM-4: box markers are dropped and text before any tag is content.
Boxes == {"<|begin_of_box|>", "<|end_of_box|>"}
ReasonGlm4(r, prev, cur, delta) ==
    LET boxed == \E b \in Boxes : Has(delta, <<b>>)
        clean(t) == IF boxed THEN Without(t, Boxes) ELSE t
        tagged == Has(clean(cur), Think) \/ Has(clean(cur), EndThink)
    IN  IF boxed /\ clean(delta) = <<>> THEN Out(r, Skip)
        ELSE IF ~tagged /\ ~r.saw THEN Out(r, Answer(clean(delta)))
        ELSE ReasonThinking(r, clean(prev), clean(cur), clean(delta))

\* DeepSeek-R1: long output without a tag is content.
ReasonDeepSeek(r, prev, cur, delta) ==
    LET tagged == Has(cur, Think) \/ Has(cur, EndThink)
        base == ReasonThinking(r, prev, cur, delta)
    IN  IF ~tagged /\ ~r.saw /\ Len(cur) >= NoTagThreshold THEN Out(r, Answer(delta))
        ELSE IF base.d # Skip /\ ~Has(prev, Think) /\ ~Has(delta, Think) /\ Has(delta, EndThink)
        THEN Out(base.r, Around(delta)) ELSE base

(* -- Gemma 4's channels -------------------------------------------------- *)
GemmaThoughtRE == Lit(<<"<|channel>", "thought">>) \o Grp(1, Lazy) \o Lit(<<"<channel|>">>) \o Ws
GemmaMarkers == {"<|channel>", "<channel|>", "<turn|>", "thought", "content", "final"}
InContent(t) == Has(t, <<"<|channel>", "content">>) \/ Has(t, <<"<|channel>", "final">>)
WholeGemma4(t) ==
    LET ms == FindAll(GemmaThoughtRE, t)
    IN  Split2(FlattenSeq([j \in 1..Len(ms) |-> strip(Group(t, ms[j], 1))]),
               strip(Without(Erase(t, ms), GemmaMarkers)))
ReasonGemma4(r, prev, cur, delta) ==
    LET opened == Has(cur, <<"<|channel>", "thought">>) /\ ~r.inContent
        r1 == [r EXCEPT !.inThought = @ \/ opened, !.saw = @ \/ opened]
        r2 == IF InContent(cur) THEN [r1 EXCEPT !.inThought = FALSE, !.inContent = TRUE] ELSE r1
        ended == r2.inThought /\ Has(cur, <<"<channel|>">>)
                   /\ Occurrences(cur, <<"<channel|>">>) >= Occurrences(cur, <<"<|channel>", "thought">>)
        r3 == IF ended THEN [r2 EXCEPT !.inThought = FALSE, !.inContent = TRUE] ELSE r2
        flips == {i \in 1..Len(delta) : At(delta, <<"<channel|>">>, i) \/ At(delta, <<"<|channel>", "content">>, i)
                                          \/ At(delta, <<"<|channel>", "final">>, i)}
        clean == Without(delta, GemmaMarkers)
        pre == Without(SubSeq(delta, 1, Min(flips) - 1), GemmaMarkers)
        post == Without(From(delta, Min(flips)), GemmaMarkers)
    IN  IF r.inThought /\ ~r3.inThought /\ flips # {} /\ pre \o post # <<>> THEN Out(r3, Split2(pre, post))
        ELSE IF r3.inThought \/ (~r3.inContent /\ r3.saw) THEN Out(r3, Thought(clean)) ELSE Out(r3, Answer(clean))

(* -- GPT-OSS and Harmony channels ---------------------------------------- *)
Structural == {"<|start|>", "<|end|>", "<|channel|>", "<|return|>", "<|call|>", "<|constrain|>"}
GptChannelRE == Lit(<<"<|channel|>">>) \o Grp(1, Of({"analysis", "final"})) \o Not(Structural \cup {"<|message|>"}, 0)
                  \o Opt({"<|constrain|>"}) \o Not(Structural \cup {"<|message|>"}, 0) \o Lit(<<"<|message|>">>)
Markers(t, phase) == SelectSeq(FindAll(GptChannelRE, t), LAMBDA m : Group(t, m, 1) = <<phase>>)
Unmarked(t) == SubSeq(t, 1, Min({i \in 1..Len(t) : t[i] \in Structural} \cup {Len(t) + 1}) - 1)
gptExtractChannel(t, phase) ==
    LET ms == Markers(t, phase) IN IF ms = <<>> THEN <<>> ELSE strip(Unmarked(From(t, Last(ms[1].c))))
WholeGptOss(t) ==
    LET d == Split2(gptExtractChannel(t, "analysis"), gptExtractChannel(t, "final"))
    IN  IF ~Has(t, <<"<|channel|>">>) \/ d = Skip THEN Answer(t) ELSE d
gptDetectPhase(t) ==
    LET ms == FindAll(GptChannelRE, t)
        after == From(t, Last(Last(ms).c))
    IN  IF ms = <<>> THEN "init"
        ELSE IF Group(t, Last(ms), 1) = <<"final">> THEN "final"
        ELSE IF Unmarked(after) # after THEN "transition" ELSE "analysis"
ReasonGptOss(r, prev, cur, delta) ==
    LET phase == gptDetectPhase(cur)
        shown(t) == IF phase = "analysis" THEN Thought(t) ELSE Answer(t)
    IN  IF phase \notin {"analysis", "final"} THEN Out(r, Skip)
        ELSE IF phase # gptDetectPhase(prev)
        THEN Out(r, shown(Without(From(cur, Last(Last(Markers(cur, phase)).c)), {"<|return|>"})))
        ELSE Out(r, shown(Without(delta, Structural)))

HarmonyAnalysisRE == Lit(<<"<|channel|>", "analysis">>) \o Ws \o Lit(<<"<|message|>">>) \o Grp(1, Lazy) \o Lit(<<"<|end|>">>)
HarmonyAnswerREs == <<Lit(<<"<|channel|>", "final">>) \o Ws \o Lit(<<"<|message|>">>) \o Grp(1, Lazy) \o Lit(<<"<|return|>">>),
                      Lit(<<"<|channel|>", "final">>) \o Ws \o Lit(<<"<|message|>">>) \o Grp(1, Rest) \o Lit(<<"<|end|>">>)>>
WholeHarmony(t) ==
    LET ms == FindAll(HarmonyAnalysisRE, t)
        final == FindAny(HarmonyAnswerREs, t)
    IN  Split2(FlattenSeq([j \in 1..Len(ms) |-> strip(Group(t, ms[j], 1))]),
               IF final = <<>> THEN <<>> ELSE strip(Group(t, final[1], 1)))
Channels == {"analysis", "final", "commentary"}
ReasonHarmony(r, prev, cur, delta) ==
    LET named == {c \in Channels : Has(delta, <<c>>)}
        entered == Has(delta, <<"<|channel|>">>) /\ named # {}
        chosen == IF "analysis" \in named THEN "analysis" ELSE IF "final" \in named THEN "final" ELSE "commentary"
        after == AfterLast(cur, <<"<|channel|>">>)
        channel == IF r.channel = "" /\ Has(cur, <<"<|channel|>">>) /\ after # <<>> /\ after[1] \in Channels
                   THEN after[1] ELSE r.channel
        r1 == [r EXCEPT !.channel = channel]
        control == \E m \in {"<|end|>", "<|return|>", "<|call|>", "<|start|>"} : Has(delta, <<m>>)
        bars == strip(delta) # <<>> /\ strip(delta)[1] \in Structural /\ Last(strip(delta)) \in Structural
    IN  IF entered
        THEN Out([r EXCEPT !.channel = chosen, !.inMessage = FALSE],
                 IF chosen = "commentary" THEN Answer(delta) ELSE Skip)
        ELSE IF channel = "commentary" THEN Out(r1, Answer(delta))
        ELSE IF Has(delta, <<"<|message|>">>) THEN Out([r1 EXCEPT !.inMessage = TRUE], Skip)
        ELSE IF control THEN Out([r1 EXCEPT !.inMessage = FALSE], Skip)
        ELSE IF bars \/ ~r.inMessage THEN Out(r1, Skip)
        ELSE IF channel = "analysis" THEN Out(r1, Thought(delta))
        ELSE IF channel = "final" THEN Out(r1, Answer(delta)) ELSE Out(r1, Skip)

(* -- MiniMax's heuristics ------------------------------------------------- *)
Preambles == {"so"}
Transitions == {"answer:", "fence", "<tool_call>", "<minimax:tool_call>", "<invoke"}
Direct == {"fence", "<tool_call>", "<minimax:tool_call>", "<invoke", "{", "["}
BeginsWith(t, S) == strip(t) # <<>> /\ strip(t)[1] \in S
Turn(t) == LET is == {i \in 1..Len(t) : t[i] \in Transitions} IN IF is = {} THEN 0 ELSE Min(is)
AtTurn(t, i) == Split2(SubSeq(t, 1, i - 1), From(t, i))
\* The window the transition is looked for in reaches back this far.
BackUp == 2
WholeMiniMax(t) ==
    LET i == Turn(t)
        para == <<"nl", "nl">>
        head == Before(t, para)
    IN  IF Has(t, EndThink)
        THEN Split2(strip(Without(Before(t, EndThink), {"<think>"})), strip(After(t, EndThink)))
        ELSE IF BeginsWith(t, Direct) \/ ~BeginsWith(t, Preambles) THEN Answer(t)
        ELSE IF i > 0 THEN IF i > 2 THEN Split2(strip(AtTurn(t, i).reasoning), strip(AtTurn(t, i).content)) ELSE Answer(t)
        ELSE IF Has(t, para) /\ strip(After(t, para)) # <<>> THEN Split2(strip(head), strip(After(t, para))) ELSE Answer(t)
Decide(r, reasoning) == [r EXCEPT !.decided = TRUE, !.isReasoning = reasoning]
ReasonMiniMax(r, prev, cur, delta) ==
    LET i == Turn(From(cur, r.from))
        abs == r.from + i - 1
    IN  IF Has(delta, EndThink) THEN Out(Decide(r, FALSE), Around(delta))
        ELSE IF Has(delta, Think) THEN Out(Decide(r, TRUE), Thought(Without(delta, {"<think>"})))
        ELSE IF r.decided /\ ~r.isReasoning THEN Out(r, Answer(delta))
        ELSE IF r.decided
        THEN IF i = 0 THEN Out(r, Thought(delta))
             ELSE Out(Decide(r, FALSE), IF abs > Len(prev) THEN AtTurn(delta, abs - Len(prev)) ELSE Answer(delta))
        ELSE IF Len(cur) < DecideAt
        THEN IF BeginsWith(cur, Direct) THEN Out(Decide(r, FALSE), Answer(cur)) ELSE Out(r, Skip)
        ELSE IF ~BeginsWith(cur, Preambles) THEN Out(Decide(r, FALSE), Answer(cur))
        ELSE IF Turn(cur) > 0 THEN Out(Decide(r, FALSE), AtTurn(cur, Turn(cur)))
        ELSE Out([Decide(r, TRUE) EXCEPT !.from = Max({1, Len(cur) + 1 - BackUp})], Thought(cur))

(* -- by name --------------------------------------------------------------- *)
Thinkers == {"r_qwen3", "r_glm4", "r_deepseek"}
Reasoners == Thinkers \cup {"r_gemma4", "r_gpt_oss", "r_harmony", "r_minimax"}
Whole(p, t) ==
    LET text == IF p = "r_glm4" THEN Without(t, Boxes) ELSE t
    IN  CASE p \in Thinkers -> WholeThinking(text)
          [] p = "r_gemma4" -> WholeGemma4(text)
          [] p = "r_gpt_oss" -> WholeGptOss(text)
          [] p = "r_harmony" -> WholeHarmony(text)
          [] p = "r_minimax" -> WholeMiniMax(text)
Reason(p, r, prev, cur, delta) ==
    LET thinking == CASE p = "r_qwen3" -> ReasonThinking(r, prev, cur, delta)
                      [] p = "r_glm4" -> ReasonGlm4(r, prev, cur, delta)
                      [] p = "r_deepseek" -> ReasonDeepSeek(r, prev, cur, delta)
    IN  CASE p \in Thinkers -> thinking
          [] p = "r_gemma4" -> ReasonGemma4(r, prev, cur, delta)
          [] p = "r_gpt_oss" -> ReasonGptOss(r, prev, cur, delta)
          [] p = "r_harmony" -> ReasonHarmony(r, prev, cur, delta)
          [] p = "r_minimax" -> ReasonMiniMax(r, prev, cur, delta)

\* The correction after the last delta: the content the client should keep
\* instead, or <<>>.
Finalize(p, r, t) ==
    LET answer == Whole(p, t).content
    IN  CASE p = "r_qwen3" /\ ~Has(t, EndThink) -> IF Starts(t, Think) THEN From(t, 2) ELSE t
          [] p = "r_deepseek" /\ ~r.saw /\ Len(t) < NoTagThreshold -> t
          [] p = "r_minimax" /\ (r.isReasoning \/ ~r.decided) -> IF r.decided /\ answer # <<>> THEN answer ELSE t
          [] OTHER -> <<>>
=============================================================================
