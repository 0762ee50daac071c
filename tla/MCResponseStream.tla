------------------------- MODULE MCResponseStream -------------------------
(* What the models of each family write: a call of f and one of g, in each  *)
(* of the family's formats, with and without text around them, and texts    *)
(* that mix formats or tags in ways the code does not follow.               *)
EXTENDS StreamedParsers

MCTools == {"f", "g"}
MCParamType(key) == IF key = "k" THEN "integer" ELSE "string"
\* Deltas of any length, except that for a parser that depends on it a few symbols
\* at most, and then longer ones than it can follow.
AnyLength == 40
MCPaces(p) ==
    CASE p = NoParser -> {3}
      [] p \in {"deepseek_v31", "seed_oss", "qwen3_coder_xml", "r_gpt_oss", "r_harmony"} -> {1, 3}
      [] p = "hermes" -> {2, 4}
      [] p = "mistral" -> {1, 3, 7}
      [] p = "harmony" -> {5, AnyLength}
      [] p = "r_minimax" -> {3, AnyLength}
      [] OTHER -> {AnyLength}

Args(k, v) == <<"{", k, v, "}">>
Json(f, args) == <<"{", "name:", f, "args:">> \o args \o <<"}">>
K1 == Args("k", "1")
MA == Args("m", "'a'")
Two(open, close) == open \o Json("f", K1) \o close \o open \o Json("g", MA) \o close
Xml(f, body) == <<"<function=", f, ">">> \o body \o Close("function>")
Param(k, v) == <<"<parameter=", k, ">", v>> \o Close("parameter>")
XmlArgs == Param("k", "1") \o Param("m", "a")
Tag(t) == <<"<tool_call>">> \o t \o Close("tool_call>")
Bracket(f, args) == <<"[Calling tool:", f, "(">> \o args \o <<")", "]">>
List == <<"[">> \o Json("f", K1) \o Json("g", MA) \o <<"]">>
Prose == <<"a", " ", "2", "nl", "a">>
DeepCall(f, args, type) == <<"<|call_begin|>">> \o type \o <<f, "nl", "fence", "json", "nl">> \o args \o <<"nl", "fence", "<|call_end|>">>
V31Call(f, args) == <<"<|call_begin|>", f, "<|sep|>">> \o args \o <<"<|call_end|>">>
KimiCall(f, args) == <<"<|tool_call_begin|>", "functions.", f, ":0", "<|tool_call_argument_begin|>">> \o args \o <<"<|tool_call_end|>">>
GlmCall(f, k, v) == Tag(<<f, "<arg_key>", k>> \o Close("arg_key>") \o <<"<arg_value>", v>> \o Close("arg_value>"))
Invoke(f, k, v) == <<"<invoke", f, ">", "<parameter", k, ">", v>> \o Close("parameter>") \o Close("invoke>")
Minimax(t) == <<"<minimax:tool_call>">> \o t \o Close("minimax:tool_call>")
To(f, args) == <<"<|recipient|>", f, "nl", "<|content|>">> \o args
HarmonyCall(f, args) == <<"<|channel|>", "commentary", "to=functions.", f, "<|message|>">> \o args \o <<"<|call|>">>
HarmonyFinal(t) == <<"<|channel|>", "final", "<|message|>">> \o t \o <<"<|return|>">>
HarmonyThink(t) == <<"<|channel|>", "analysis", "<|message|>">> \o t \o <<"<|end|>">>
GemmaCall(f, body) == <<"<|tool_call>", "call:", f, "{">> \o body \o <<"}", "<tool_call|>">>
Seed(f, body) == <<"<seed:tool_call>">> \o Xml(f, body) \o Close("seed:tool_call>")

MCOutputs ==
    (NoParser :> {Prose}) @@
    ("qwen" :> {Prose, <<"a", "nl">> \o Tag(Json("f", K1)) \o Tag(Json("g", MA)), Bracket("f", K1) \o Bracket("g", MA),
                Tag(Json("f", K1)) \o Bracket("g", MA), <<"<think>", "a", "</think>">> \o Tag(Json("f", K1))}) @@
    ("nemotron" :> {<<"a">> \o Tag(Xml("f", XmlArgs)) \o Tag(Xml("g", MA))}) @@
    ("llama" :> {<<"a">> \o Xml("f", K1) \o Xml("g", MA)}) @@
    ("hermes" :> {Prose, <<"a", "nl">> \o Tag(Json("f", K1)) \o <<"nl">> \o Tag(Json("g", MA)), Tag(Xml("f", XmlArgs)), Xml("f", XmlArgs),
                  Json("f", K1)}) @@
    ("granite" :> {<<"<|tool_call|>">> \o List, Prose}) @@
    ("kimi" :> {<<"a", "<|tool_calls_section_begin|>">> \o KimiCall("f", K1) \o KimiCall("g", MA)}) @@
    ("deepseek" :> {<<"a", "<|calls_begin|>">> \o DeepCall("f", K1, <<"a", "<|sep|>">>) \o DeepCall("g", MA, <<"a", "<|sep|>">>) \o <<"<|calls_end|>">>,
                    <<"<|calls_begin|>">> \o DeepCall("f", K1, <<>>) \o <<"<|calls_end|>">>}) @@
    ("xlam" :> {<<"fence", "json", "nl">> \o List \o <<"nl", "fence">>, <<"[TOOL_CALLS]">> \o List, <<"a", "</think>">> \o List, List}) @@
    ("glm47" :> {<<"<think>", "a", "</think>">> \o GlmCall("f", "k", "1") \o GlmCall("g", "m", "a")}) @@
    ("minimax" :> {<<"a">> \o Minimax(Invoke("f", "k", "1")) \o Minimax(Invoke("g", "m", "a")), Invoke("f", "k", "1") \o Invoke("g", "m", "a"),
                   <<"[Calling tool=", "f", "k", "1", "]">>, Bracket("f", K1)}) @@
    ("functionary" :> {<<"<|from|>", "assistant", "nl">> \o To("all", <<"a", "nl">>) \o To("f", K1) \o To("g", MA), Xml("f", K1), Xml("f", K1) \o To("g", MA), List}) @@
    ("harmony" :> {HarmonyThink(<<"a">>) \o HarmonyCall("f", K1) \o HarmonyCall("g", MA), HarmonyThink(<<"a">>) \o HarmonyFinal(Prose)}) @@
    ("auto" :> {<<"[TOOL_CALLS]", "f">> \o K1, <<"a">> \o Tag(Xml("f", XmlArgs)), Bracket("f", K1) \o Bracket("g", MA),
                Tag(Json("f", K1)) \o Tag(Json("g", MA)), Tag(Xml("f", K1)), Xml("f", K1) \o Bracket("g", MA), Xml("f", K1), Prose}) @@
    ("gemma4" :> {<<"a">> \o GemmaCall("f", <<"k", "1", "m", "<q>", "a", "<q>">>) \o GemmaCall("g", <<"k", "2">>), Bracket("f", K1), Prose}) @@
    ("mistral" :> {<<"a", "[TOOL_CALLS]", "f">> \o K1 \o <<"[TOOL_CALLS]", "g">> \o MA, Prose}) @@
    ("deepseek_v31" :> {<<"a", "<|calls_begin|>">> \o V31Call("f", K1) \o V31Call("g", MA) \o <<"<|calls_end|>">>}) @@
    ("seed_oss" :> {<<"<seed:think>", "a">> \o SeedThinkEnd \o Seed("f", XmlArgs), <<"a">> \o Seed("f", Param("k", "1")) \o Seed("g", Param("m", "a"))}) @@
    ("qwen3_coder_xml" :> {<<"a">> \o Tag(Xml("f", XmlArgs)) \o Tag(Xml("g", Param("m", "a"))), Prose})
MCReemitted == [p \in {"auto"} |-> {Xml("f", K1) \o Xml("g", MA)}]

Thinking == <<"<think>", "a", " ", "2", "</think>", "a", "nl", "1">>
MCThoughts ==
    [p \in Thinkers \ {"r_glm4"} |-> {Thinking, <<"2", "a">> \o Thinking, Tail(Thinking), <<"a", " ", "2">>}] @@
    ("r_glm4" :> {<<"2", "a">> \o Thinking, Tail(Thinking), Thinking \o <<"<|begin_of_box|>", "2", "<|end_of_box|>">>, <<"a", " ", "<|begin_of_box|>", "2">>}) @@
    ("r_gemma4" :> {<<"<|channel>", "thought", "a", "2", "<channel|>", "a", "1">>, <<"<|channel>", "thought", "a", "<|channel>", "final", "2">>, <<"a", "2">>}) @@
    ("r_gpt_oss" :> {HarmonyThink(<<"a", "2">>) \o <<"<|start|>", "assistant">> \o HarmonyFinal(<<"a", "1">>)}) @@
    ("r_harmony" :> {HarmonyThink(<<"a", "2">>) \o <<"<|start|>", "assistant">> \o HarmonyFinal(<<"a", "1">>)}) @@
    ("r_minimax" :> {<<"so", "a", "2", "1", "answer:", "a", "1">>, <<"<think>", "a", "2", "</think>", "1">>, <<"a", "</think>", "1">>, <<"a", "1", "2">>, <<"so", "a", "2", "1", "a">>})
=============================================================================
