-------------------------- MODULE StreamedParsers --------------------------
(***************************************************************************)
(* ResponseStream with the parsers of toolparsers/ and reasoning/: the       *)
(* registries that choose a parser by name, and what a client of each kind   *)
(* of parser can rely on.                                                   *)
(***************************************************************************)
EXTENDS ResponseStream, ToolParsersIncremental, ReasoningParsers

ReEmitting == {"auto", "nemotron", "llama", "granite", "kimi", "deepseek", "xlam", "glm47", "functionary", "harmony"}
Deduplicating == {"qwen", "hermes", "minimax", "gemma4"}
Incremental == {"mistral", "deepseek_v31", "seed_oss", "qwen3_coder_xml"}

(* -- the registries ------------------------------------------------------- *)
Unused(p) == IF p \in Reasoners THEN Idle ELSE Fresh
Extracting(p, t) ==
    LET tagged ==
          CASE p = "qwen" -> ExtractQwen(t)            [] p = "nemotron" -> ExtractNemotron(t)
            [] p = "llama" -> ExtractLlama(t)          [] p = "hermes" -> ExtractHermes(t)
            [] p = "granite" -> ExtractGranite(t)      [] p = "kimi" -> ExtractKimi(t)
            [] p = "deepseek" -> ExtractDeepSeek(t)    [] p = "xlam" -> ExtractXlam(t)
            [] p = "glm47" -> ExtractGlm47(t)          [] p = "minimax" -> ExtractMiniMax(t)
            [] p = "functionary" -> ExtractFunctionary(t) [] p = "harmony" -> ExtractHarmony(t)
            [] p = "auto" -> ExtractAuto(t)
    IN  CASE p = "gemma4" -> ExtractGemma4(t)
          [] p = "mistral" -> ExtractMistral(t)     [] p = "deepseek_v31" -> ExtractDeepSeekV31(t)
          [] p = "seed_oss" -> ExtractSeedOss(t)    [] p = "qwen3_coder_xml" -> ExtractQwen3Coder(t)
          [] p = NoParser -> NotCalled(t)
          [] OTHER -> tagged
Streaming(p, s, prev, cur, delta) ==
    LET tagged ==
          CASE p = "qwen" -> StreamQwen(prev, cur, delta)
            [] p = "nemotron" -> StreamNemotron(prev, cur, delta)
            [] p = "llama" -> StreamLlama(prev, cur, delta)
            [] p = "hermes" -> StreamHermes(prev, cur, delta)
            [] p = "granite" -> StreamGranite(prev, cur, delta)
            [] p = "kimi" -> StreamKimi(prev, cur, delta)
            [] p = "deepseek" -> StreamDeepSeek(prev, cur, delta)
            [] p = "xlam" -> StreamXlam(prev, cur, delta)
            [] p = "glm47" -> StreamGlm47(prev, cur, delta)
            [] p = "minimax" -> StreamMiniMax(prev, cur, delta)
            [] p = "functionary" -> StreamFunctionary(prev, cur, delta)
            [] p = "harmony" -> StreamHarmony(prev, cur, delta)
            [] p = "auto" -> StreamAuto(prev, cur, delta)
            [] p = NoParser -> ContentDelta(delta)
        step ==
          CASE p = "gemma4" -> StreamGemma4(s, prev, cur, delta)
            [] p = "mistral" -> StreamMistral(s, prev, cur, delta)
            [] p = "deepseek_v31" -> StreamDeepSeekV31(s, prev, cur, delta)
            [] p = "seed_oss" -> StreamSeedOss(s, prev, cur, delta)
            [] p = "qwen3_coder_xml" -> StreamQwen3Coder(s, prev, cur, delta)
            [] OTHER -> Step(s, tagged)
    IN  [s |-> step.s, delta |-> step.delta, panic |-> step.s.panic]

(* -- what the parsers can be relied on for ---------------------------------- *)
\* The longest delta, in symbols, with which a parser still keeps up: one that
\* sends or sees at most one thing in a delta falls behind, or indexes past its
\* calls, when a delta holds several (README, "Where the cut matters").
Grain(p) ==
    CASE p \in {"deepseek_v31", "seed_oss", "qwen3_coder_xml", "r_gpt_oss", "r_harmony"} -> 1
      [] p = "hermes" -> 2
      [] p \in {"mistral", "r_minimax"} -> 3
      [] p = "harmony" -> 5
      [] OTHER -> job.pace
Fine == job.pace <= Grain(job.parser)

\* The call formats a parser reads one after another: a text that mixes them is
\* read one way while it streams and another way, or in another order, later.
Forms(p) ==
    CASE p = "qwen" -> {QwenBracketRE, QwenXMLRE}
      [] p = "hermes" -> {QwenXMLRE, HermesBareRE}
      [] p = "minimax" -> {MiniMaxBlockRE, TextKVRE, TextFnRE}
      [] p = "functionary" -> {FunctionaryRE, LlamaFunctionRE}
      [] p = "auto" -> {QwenBracketRE, NemotronCallRE, QwenXMLRE, LlamaFunctionRE, Lit(<<"[TOOL_CALLS]">>)}
      [] OTHER -> {}
OneForm(p, t) == Cardinality({P \in Forms(p) : Matches(P, t)}) <= 1


\* What a client has by joining the fragments of an index.
Merged(i) ==
    LET mine == SelectSeq(entries, LAMBDA e : e.index = i)
    IN  Call(FlattenSeq([j \in 1..Len(mine) |-> mine[j].name]), FlattenSeq([j \in 1..Len(mine) |-> mine[j].args]))

\* The same, name and arguments in the order they came.
Spelled(i) ==
    LET mine == SelectSeq(entries, LAMBDA e : e.index = i)
    IN  FlattenSeq([j \in 1..Len(mine) |-> mine[j].name \o mine[j].args])


\* What a reasoning parser does with a text, in deltas as fine as it needs.  If the
\* text starts with its opening tag or has none, nothing is lost, repeated or
\* reordered: reasoning and answer together are the text without its markup, and
\* once the closing tag has come the split is that of the whole text (DeepSeek-R1,
\* without an opening tag: if it came before the no-tag threshold).  Text before an
\* opening tag may be lost, but none after it, and in deltas of any length none of
\* the answer after a closing tag.  An answer without tags ends up in the content.
\* GLM-4 and MiniMax need an opening tag with a closing one.  Spaces are not
\* compared.
Solids(t) == Without(t, Space)
Markup(p) == {"<think>", "</think>", "assistant"} \cup Boxes \cup Structural \cup Channels \cup GemmaMarkers \cup {"<|message|>"}
=============================================================================
