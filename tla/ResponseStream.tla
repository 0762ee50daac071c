-------------------------- MODULE ResponseStream --------------------------
(***************************************************************************)
(* One streamed response: streamChat and streamAnthropic (routes/chat.go,   *)
(* routes/anthropic.go) pass the engine's deltas through a tool parser and  *)
(* tell the client what it surfaces; a caller of a reasoning parser does    *)
(* the same with the reasoning it splits off.                               *)
(*                                                                         *)
(* job      which handler and parser, the text the model writes, the longest *)
(*          delta it comes in, and whether deltas tear closing markers       *)
(* whole    what the handler answers when the same text is not streamed      *)
(* pos      how much of the text the deltas have delivered                  *)
(* ps       the parser's state                                              *)
(* entries  the tool-call entries surfaced so far                           *)
(* content, thought  the plain text and the reasoning surfaced so far       *)
(* block    blockStreamer: the type of the current block, its index, opened *)
(* events   the Anthropic events written, the deltas of a block joined      *)
(* asides   items of the reasoning channel so far                           *)
(* finish   the finish reason the client is told, "" while streaming        *)
(***************************************************************************)
EXTENDS ToolText

CONSTANTS Outputs,      \* the texts a model of a tool parser's family writes
          Thoughts,     \* the same for the reasoning parsers
          Paces(_),     \* bounds on the length of the deltas a parser is fed, in symbols
          MaxAsides     \* bound on items of the reasoning channel

\* The interfaces ToolParser and reasoning.Parser: NewParser(p) is the state of a
\* new parser p; a streaming step maps it and the texts to the next state and
\* what is surfaced, and whether a tool parser indexed past the end of a slice.
CONSTANTS NewParser(_), ExtractToolCalls(_, _), ExtractToolCallsStreaming(_, _, _, _, _),
          ExtractReasoning(_, _), ExtractReasoningStreaming(_, _, _, _, _), FinalizeStreaming(_, _, _)

\* The parsers read texts, and a delta has a symbol at least.
ASSUME ResponseAssumption ==
    \A p \in DOMAIN Outputs : Outputs[p] \subseteq Seq(STRING) /\ Paces(p) \subseteq Nat \ {0}

VARIABLES job, whole, pos, ps, entries, content, thought, block, events, asides, finish
vars == <<job, whole, pos, ps, entries, content, thought, block, events, asides, finish>>

NoParser == "none"            \* a request without tools
(* -- blockStreamer and toolAccum ------------------------------------------ *)
Event(name, index, type, text) == [name |-> name, index |-> index, type |-> type, text |-> text]
\* A client joins the deltas of a block.
Written(log, e) ==
    IF log # <<>> /\ e.name = "delta" /\ Last(log).name = "delta" /\ Last(log).index = e.index
    THEN [log EXCEPT ![Len(log)] = Event(e.name, e.index, e.type, @.text \o e.text)] ELSE Append(log, e)
NoBlock == [current |-> "", index |-> 0, opened |-> FALSE]
Stops(b) == IF b.opened THEN <<Event("stop", b.index, b.current, <<>>)>> ELSE <<>>

BlockDeltaUnstopped(b, type, text) ==
    [block |-> [current |-> type, index |-> b.index, opened |-> TRUE],
     switch |-> IF b.current = type THEN <<>> ELSE <<Event("start", b.index, type, <<>>)>>,
     delta |-> Event("delta", b.index, type, text)]
\* blockStreamer.delta of a non-empty text: the streamer after it, what it writes
\* to change the block, and the delta.
BlockDelta(b, type, text) ==
    LET index == IF b.opened /\ b.current # type THEN b.index + 1 ELSE b.index
    IN  [block |-> [current |-> type, index |-> index, opened |-> TRUE],
         switch |-> IF b.current = type THEN <<>> ELSE Append(Stops(b), Event("start", index, type, <<>>)),
         delta |-> Event("delta", index, type, text)]

BlockClose(b) ==
    [block |-> [current |-> "", index |-> IF b.opened THEN b.index + 1 ELSE b.index, opened |-> FALSE],
     events |-> Stops(b)]

\* toolAccum.add of all entries of index i, and finalize: those with a name, by
\* ascending index.
Accumulated(es, i) ==
    LET mine == SelectSeq(es, LAMBDA e : e.index = i)
        names == SelectSeq(mine, LAMBDA e : e.name # <<>>)
        args == FlattenSeq([j \in 1..Len(mine) |-> mine[j].args])
    IN  Call(IF names = <<>> THEN <<>> ELSE Last(names).name, IF args = <<>> THEN <<"{", "}">> ELSE args)
Indexes(es) == {es[j].index : j \in 1..Len(es)}
Finalized(es) ==
    LET named == {i \in Indexes(es) : Accumulated(es, i).name # <<>>}
        nth(j) == CHOOSE i \in named : Cardinality({x \in named : x < i}) = j - 1
    IN  [j \in 1..Cardinality(named) |-> Accumulated(es, nth(j))]

\* The loop over the calls: a block for each, from an index on.
ToolBlock(call, index) ==
    <<Event("start", index, "tool_use", call.name), Event("delta", index, "tool_use", call.args),
      Event("stop", index, "tool_use", <<>>)>>
ToolBlocks(log, calls, from) ==
    FoldLeft(LAMBDA acc, j : acc \o ToolBlock(calls[j], from + j - 1), log, [j \in 1..Len(calls) |-> j])
anthropicStopReason(reason) == CASE reason = "length" -> "max_tokens" [] reason = "tool_calls" -> "tool_use" [] OTHER -> "end_turn"

(* -- the reply that is not streamed ----------------------------------------- *)
toolInputJSON(args) == IF IsObject(args) THEN args ELSE <<"{", "}">>
ReplyCalls(x) == [j \in 1..Len(x.calls) |-> Call(x.calls[j].name, toolInputJSON(x.calls[j].args))]
ReplyFinish(x, api) ==
    LET reason == IF x.calls # <<>> THEN "tool_calls" ELSE "stop"
    IN  IF api = "anthropic" THEN anthropicStopReason(reason) ELSE reason

(* -- the response --------------------------------------------------------- *)
JobsOf(api, p, texts) ==
    {[api |-> api, parser |-> p, text |-> t, pace |-> n, torn |-> torn] : t \in texts, n \in Paces(p), torn \in BOOLEAN}
ToolJobs == UNION {JobsOf(api, p, Outputs[p]) : api \in {"openai", "anthropic"}, p \in DOMAIN Outputs}
ReasoningJobs == UNION {JobsOf("reasoning", p, Thoughts[p]) : p \in DOMAIN Thoughts}
\* The first of the two symbols of a closing marker: a delta may end after it,
\* unless the model's tokenizer has the marker as one token.
Closers == {"</", ")"}
Jobs == {j \in ToolJobs \cup ReasoningJobs : j.torn => \E i \in DOMAIN j.text : j.text[i] \in Closers}

Init ==
    /\ job \in Jobs
    /\ whole = IF job.api = "reasoning" THEN ExtractReasoning(job.parser, job.text) ELSE ExtractToolCalls(job.parser, job.text)
    /\ ps = NewParser(job.parser)
    /\ pos = 0 /\ asides = 0 /\ finish = ""
    /\ entries = <<>> /\ content = <<>> /\ thought = <<>>
    /\ block = NoBlock /\ events = <<>>

Delivered == SubSeq(job.text, 1, pos)
Shown(type, text) ==
    LET b == BlockDelta(block, type, text)
    IN  IF job.api = "anthropic" /\ text # <<>>
        THEN block' = b.block /\ events' = Written(events \o b.switch, b.delta)
        ELSE UNCHANGED <<block, events>>

\* A delta of n symbols goes through the tool parser.  A parser that indexes
\* past the end of a slice ends the response: net/http recovers the panic.
Deliver(n) ==
    LET cur == SubSeq(job.text, 1, pos + n)
    IN  /\ finish = "" /\ job.api # "reasoning" /\ pos + n <= Len(job.text)
        /\ job.torn \/ job.text[pos + n] \notin Closers
        /\ pos' = pos + n
        /\ \E step \in {ExtractToolCallsStreaming(job.parser, ps, Delivered, cur, From(cur, pos + 1))} :
              /\ ps' = step.s
              /\ finish' = IF step.panic THEN "gone" ELSE ""
              /\ content' = content \o step.delta.content
              /\ entries' = entries \o step.delta.calls
              /\ Shown("text", step.delta.content)
        /\ UNCHANGED <<job, whole, thought, asides>>

\* Text of the reasoning channel passes the parser by.
Aside ==
    /\ finish = "" /\ job.api # "reasoning" /\ asides < MaxAsides
    /\ asides' = asides + 1
    /\ Shown("thinking", <<"a">>)
    /\ thought' = Append(thought, "a")
    /\ UNCHANGED <<job, whole, pos, ps, entries, content, finish>>

\* The channel closes: after the engine's last item (reason), or without one,
\* and the handler then reports "stop".
End(reason) ==
    LET calls == Finalized(entries)
        closed == BlockClose(block)
        stop == IF calls # <<>> THEN "tool_use" ELSE anthropicStopReason(reason)
    IN  /\ finish = "" /\ job.api # "reasoning"
        /\ reason = "stop" \/ pos < Len(job.text)
        /\ IF job.api = "anthropic"
           THEN /\ finish' = stop
                /\ events' = Append(ToolBlocks(events \o closed.events, calls, closed.block.index),
                                    Event("message_stop", 0, stop, <<>>))
                /\ block' = [closed.block EXCEPT !.index = @ + Len(calls)]
           ELSE /\ finish' = IF entries # <<>> /\ reason = "stop" THEN "tool_calls" ELSE reason
                /\ UNCHANGED <<block, events>>
        /\ UNCHANGED <<job, whole, pos, ps, entries, content, thought, asides>>

\* A write fails: the client has left, the handler returns.
Disconnect ==
    /\ finish = "" /\ pos > 0
    /\ finish' = "gone"
    /\ UNCHANGED <<job, whole, pos, ps, entries, content, thought, block, events, asides>>

\* A delta of n symbols goes through a reasoning parser.
SplitDelta(n) ==
    LET cur == SubSeq(job.text, 1, pos + n)
    IN  /\ finish = "" /\ job.api = "reasoning" /\ pos + n <= Len(job.text)
        /\ pos' = pos + n
        /\ \E out \in {ExtractReasoningStreaming(job.parser, ps, Delivered, cur, From(cur, pos + 1))} :
              /\ ps' = out.r
              /\ thought' = thought \o out.d.reasoning
              /\ content' = content \o out.d.content
        /\ UNCHANGED <<job, whole, entries, block, events, asides, finish>>

\* FinalizeStreaming corrects the content after the last delta.
Correct ==
    LET final == FinalizeStreaming(job.parser, ps, Delivered)
    IN  /\ finish = "" /\ job.api = "reasoning" /\ pos > 0
        /\ finish' = IF final = <<>> THEN "kept" ELSE "corrected"
        /\ content' = IF final = <<>> THEN content ELSE final
        /\ UNCHANGED <<job, whole, pos, ps, entries, thought, block, events, asides>>

Next ==
    \/ \E n \in 1..job.pace : Deliver(n) \/ SplitDelta(n)
    \/ Aside \/ Disconnect \/ Correct
    \/ \E reason \in {"stop", "length"} : End(reason)
Spec == Init /\ [][Next]_vars
(* -- properties ------------------------------------------------------------ *)
Calls == IF job.api = "reasoning" THEN <<>> ELSE whole.calls
Complete == pos = Len(job.text) /\ finish \notin {"", "gone"}

\* Event i of a log opens the next block (after text not text, after a call only
\* a call), goes on with the block of the event before it, or ends the message.
OpensBlock(log, i) ==
    /\ log[i].name = "start"
    /\ IF i = 1 THEN log[i].index = 0
       ELSE /\ log[i - 1].name = "stop" /\ log[i].index = log[i - 1].index + 1
            /\ (log[i].type = log[i - 1].type <=> log[i - 1].type = "tool_use")
GoesOn(log, i) ==
    /\ i > 1 /\ log[i].index = log[i - 1].index /\ log[i].type = log[i - 1].type
    /\ <<log[i - 1].name, log[i].name>> \in {<<"start", "delta">>, <<"delta", "stop">>}
EndsMessage(log, i) == log[i].name = "message_stop" /\ (i > 1 => log[i - 1].name = "stop")

\* The Anthropic client sees well-formed blocks: each is opened once, gets its
\* text and is closed once before the next opens, the indexes count up from 0,
\* neighbours of text and thinking differ, the tool_use blocks come last, and the
\* message stops with every block closed and "tool_use" iff there is one
\* (blockStreamer and the end of streamAnthropic).
BlocksWellFormed ==
    LET n == Len(events)
        ended == n > 0 /\ events[n].name = "message_stop"
    IN  /\ \A i \in 1..n : OpensBlock(events, i) \/ GoesOn(events, i) \/ EndsMessage(events, i)
        /\ ended <=> job.api = "anthropic" /\ finish \notin {"", "gone"}
        /\ ended => /\ events[n].type = finish
                    /\ finish = "tool_use" <=> \E i \in 1..n : events[i].name = "start" /\ events[i].type = "tool_use"

\* The comment on toolAccum (routes/anthropic.go:424): it reassembles the
\* fragments into complete calls, whichever parser made them.
AnthropicCallsWhole == job.api = "anthropic" /\ Complete => Finalized(entries) = Calls
=============================================================================
