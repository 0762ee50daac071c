----------------------------- MODULE SoloGenerator ----------------------------
(***************************************************************************)
(* Generator.Generate of src/compute/generate.go: one request, generated    *)
(* token by token with nothing around it - no queue, no batch, no shared    *)
(* step counter.  Runner.Generate has the same signature "so the engine can *)
(* swap one for the other" (src/compute/runner.go), which makes this the    *)
(* specification each request of the runner has to meet.                    *)
(*                                                                          *)
(* As in BatchRunner, a token is the text it decodes to, and the forward    *)
(* pass, the penalties and the sampler are the choice of the next token.    *)
(***************************************************************************)
EXTENDS StopStrings

CONSTANTS
    MaxTokens,  \* cfg.MaxTokens
    Stops,      \* cfg.Stop
    Pieces      \* texts a sampled token may decode to

VARIABLES
    called,     \* Generate was called
    streaming,  \* cfg.OnToken # nil
    gone,       \* cfg.Ctx is done
    text,       \* Decode(generated)
    tokens,     \* len(generated)
    reason,     \* res.FinishReason, "" while the loop runs
    told,       \* history: the text passed to OnToken so far
    result      \* what Generate returned

vars == <<called, streaming, gone, text, tokens, reason, told, result>>

NoResult == [kind |-> "none", text |-> <<>>, reason |-> ""]
ErrResult == [kind |-> "err", text |-> <<>>, reason |-> ""]

Init ==
    /\ called = FALSE
    /\ streaming = FALSE
    /\ gone = FALSE
    /\ text = <<>>
    /\ tokens = 0
    /\ reason = ""
    /\ told = <<>>
    /\ result = NoResult

Call ==
    /\ ~called
    /\ called' = TRUE
    /\ streaming' \in BOOLEAN
    /\ UNCHANGED <<gone, text, tokens, reason, told, result>>

\* The caller's context ends, at any time.
Leave ==
    /\ gone' = TRUE
    /\ UNCHANGED <<called, streaming, text, tokens, reason, told, result>>

\* The loop is at the head of an iteration: no reason to stop was found yet.
Looping == called /\ reason = "" /\ result = NoResult

SeeCancel ==
    /\ Looping
    /\ gone
    /\ reason' = "cancel"
    /\ UNCHANGED <<called, streaming, gone, text, tokens, told, result>>

SampleEOS ==
    /\ Looping
    /\ ~gone
    /\ reason' = "stop"
    /\ UNCHANGED <<called, streaming, gone, text, tokens, told, result>>

\* OnToken gets what the visible text gained over the text before this token.
OnToken(visible) ==
    told' = IF streaming /\ Len(visible) > Len(text)
            THEN told \o SubSeq(visible, Len(text) + 1, Len(visible))
            ELSE told

SampleToken ==
    /\ Looping
    /\ ~gone
    /\ \E p \in Pieces : text' = text \o p
    /\ tokens' = tokens + 1
    /\ \/ /\ StopsAt(text', Stops) # {}
          /\ OnToken(CutAt(text', Stops))
          /\ reason' = "stop"
       \/ /\ StopsAt(text', Stops) = {}
          /\ OnToken(text')
          /\ reason' = IF tokens' < MaxTokens THEN "" ELSE "length"
    /\ UNCHANGED <<called, streaming, gone, result>>

\* Forward fails.  The context was looked at before the pass: it may be done by
\* the time the error is returned.
Fail ==
    /\ Looping
    /\ result' = ErrResult
    /\ UNCHANGED <<called, streaming, gone, text, tokens, reason, told>>

Return ==
    /\ reason # ""
    /\ result = NoResult
    /\ result' = [kind |-> "ok",
                  text |-> IF StopsAt(text, Stops) = {} THEN text ELSE CutAt(text, Stops),
                  reason |-> reason]
    /\ UNCHANGED <<called, streaming, gone, text, tokens, reason, told>>

Next == Call \/ Leave \/ SeeCancel \/ SampleEOS \/ SampleToken \/ Fail \/ Return

Spec == Init /\ [][Next]_vars

=============================================================================
