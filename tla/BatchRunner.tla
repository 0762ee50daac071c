----------------------------- MODULE BatchRunner ------------------------------
(***************************************************************************)
(* The device loop of src/compute/runner.go.  Callers of Generate enqueue a *)
(* job and wait; one goroutine forms a batch, prefills it, and steps all    *)
(* its sequences until each has finished, then hands out the results.       *)
(*                                                                          *)
(* A token is abstracted to the text it decodes to: Decode concatenates     *)
(* pieces, and a special token has an empty piece.  Logits, sampling and    *)
(* penalties are the choice of the next token.                              *)
(***************************************************************************)
EXTENDS Integers, Sequences, FiniteSets, FiniteSetsExt, StopStrings

CONSTANTS
    Requests,   \* one call of Generate each
    MaxBatch,   \* Runner.MaxBatch
    QueueCap,   \* capacity of the jobs channel
    MaxTokens,  \* token budget of each request
    Stops,      \* stop strings of each request
    Pieces      \* texts a token sampled for each request may decode to

ASSUME RunnerAssumption ==
    /\ IsFiniteSet(Requests)
    /\ MaxBatch \in Nat \ {0}
    /\ QueueCap \in Nat \ {0}
    /\ MaxTokens \in [Requests -> Nat \ {0}]

VARIABLES
    jobs,    \* the jobs channel
    gpc,     \* per caller of Generate
    ctx,     \* requests whose context is done
    streaming, \* requests whose GenConfig has an OnToken callback
    dpc, batch, row, step, devErr,  \* the device goroutine
    offer,   \* text in the OnToken call the device goroutine is blocked in
    seq,     \* seqState of each request
    emitted, \* history: the text passed to OnToken so far
    result   \* what the done channel of each job received

deviceVars == <<dpc, batch, row, step, devErr, offer, seq, emitted, result>>
runnerVars == <<jobs, gpc, ctx, streaming, deviceVars>>

NewSeq == [text |-> <<>>, prev |-> 0, tokens |-> 0, reason |-> "", cut |-> <<>>]
NoResult == [kind |-> "none", text |-> <<>>, reason |-> ""]
ErrResult == [kind |-> "err", text |-> <<>>, reason |-> ""]
OkResult(t, why) == [kind |-> "ok", text |-> t, reason |-> why]

RunnerInit ==
    /\ jobs = <<>>
    /\ gpc = [r \in Requests |-> "new"]
    /\ ctx = {}
    /\ streaming = {}
    /\ dpc = "collect"
    /\ batch = <<>>
    /\ row = 1
    /\ step = 0
    /\ devErr = FALSE
    /\ offer = <<>>
    /\ seq = [r \in Requests |-> NewSeq]
    /\ emitted = [r \in Requests |-> <<>>]
    /\ result = [r \in Requests |-> NoResult]

Finished(r) == seq[r].reason # ""
Rows == {batch[i] : i \in DOMAIN batch}
Current == batch[row]

(***************************************************************************)
(* Generate                                                                 *)
(***************************************************************************)

\* r.jobs <- j blocks while the queue is full, without watching the context.
Enqueue(r) ==
    /\ gpc[r] = "enqueue"
    /\ Len(jobs) < QueueCap
    /\ jobs' = Append(jobs, r)
    /\ gpc' = [gpc EXCEPT ![r] = "await"]
    /\ UNCHANGED <<ctx, streaming, deviceVars>>

(***************************************************************************)
(* loop, collect, run                                                       *)
(***************************************************************************)

CollectFirst ==
    /\ dpc = "collect"
    /\ jobs # <<>>
    /\ batch' = <<Head(jobs)>>
    /\ jobs' = Tail(jobs)
    /\ dpc' = "drain"
    /\ UNCHANGED <<gpc, ctx, streaming, row, step, devErr, offer, seq, emitted, result>>

Drain ==
    /\ dpc = "drain"
    /\ Len(batch) < MaxBatch
    /\ jobs # <<>>
    /\ batch' = Append(batch, Head(jobs))
    /\ jobs' = Tail(jobs)
    /\ UNCHANGED <<gpc, ctx, streaming, dpc, row, step, devErr, offer, seq, emitted, result>>

\* The batch is full, or the queue was found empty.  Prefill runs, and stepping
\* starts at the given row.
PrefillFrom(first) ==
    /\ dpc = "drain"
    /\ Len(batch) = MaxBatch \/ jobs = <<>>
    /\ dpc' = "step"
    /\ row' = first
    /\ step' = 0
    /\ devErr' = FALSE
    /\ UNCHANGED <<jobs, gpc, ctx, streaming, batch, offer, seq, emitted, result>>

\* Mutant of Prefill: rows counted from zero.
PrefillRowZero == PrefillFrom(0)

Prefill == PrefillFrom(1)

\* Prefill fails: the rows in failed are told, and the loop goes on.
PrefillFailTelling(failed) ==
    /\ dpc = "drain"
    /\ Len(batch) = MaxBatch \/ jobs = <<>>
    /\ result' = [r \in Requests |-> IF r \in failed THEN ErrResult ELSE result[r]]
    /\ dpc' = "collect"
    /\ batch' = <<>>
    /\ UNCHANGED <<jobs, gpc, ctx, streaming, row, step, devErr, offer, seq, emitted>>

\* Mutant of PrefillFail: only the first request of the batch is told.
PrefillFailFirstOnly == PrefillFailTelling({batch[1]})

PrefillFail == PrefillFailTelling(Rows)

AtRow == dpc = "step" /\ row \in DOMAIN batch

SkipRow ==
    /\ AtRow
    /\ Finished(Current)
    /\ row' = row + 1
    /\ UNCHANGED <<jobs, gpc, ctx, streaming, dpc, batch, step, devErr, offer, seq, emitted, result>>

\* The current sequence ends without a further token.
EndRow(why) ==
    /\ AtRow
    /\ ~Finished(Current)
    /\ seq' = [seq EXCEPT ![Current].reason = why]
    /\ row' = row + 1
    /\ UNCHANGED <<jobs, gpc, ctx, streaming, dpc, batch, step, devErr, offer, emitted, result>>

SeeCancel == AtRow /\ Current \in ctx /\ EndRow("cancel")

SampleEOS == AtRow /\ Current \notin ctx /\ EndRow("stop")

\* The sequence after one more token with text p: a stop string ends it with
\* the text before the stop, the budget ends it with all of its text.
Extend(s, r, p) ==
    LET full == s.text \o p
        n == s.tokens + 1
        stopped == StopsAt(full, Stops[r]) # {}
    IN  [text |-> full,
         tokens |-> n,
         prev |-> IF stopped THEN s.prev ELSE Len(full),
         reason |-> IF stopped THEN "stop"
                    ELSE IF n >= MaxTokens[r] THEN "length" ELSE "",
         cut |-> IF stopped THEN CutAt(full, Stops[r]) ELSE s.cut]

\* The delta handed to OnToken: what the visible text gained over prevText.
Delta(s, t) == LET visible == IF t.reason = "stop" THEN t.cut ELSE t.text
               IN  SubSeq(visible, s.prev + 1, Len(visible))

SampleRow ==
    /\ AtRow
    /\ ~Finished(Current)
    /\ \E p \in Pieces[Current] :
         LET r == Current
             t == Extend(seq[r], r, p)
             d == Delta(seq[r], t)
         IN  /\ seq' = [seq EXCEPT ![r] = t]
             /\ IF r \in streaming /\ d # <<>>
                THEN /\ offer' = d
                     /\ emitted' = [emitted EXCEPT ![r] = @ \o d]
                     /\ dpc' = "emit"
                     /\ UNCHANGED row
                ELSE row' = row + 1 /\ UNCHANGED <<offer, emitted, dpc>>
    /\ UNCHANGED <<jobs, gpc, ctx, streaming, batch, step, devErr, result>>

\* Mutant of SampleToken: the context is not checked before sampling.
SampleUnchecked == SampleRow

SampleToken == AtRow /\ Current \notin ctx /\ SampleRow

\* OnToken returns; when it may is up to the callback.
EmitReturn ==
    /\ dpc = "emit"
    /\ dpc' = "step"
    /\ row' = row + 1
    /\ offer' = <<>>
    /\ UNCHANGED <<jobs, gpc, ctx, streaming, batch, step, devErr, seq, emitted, result>>

StepLimit == Max({MaxTokens[r] : r \in Rows})

StepDone == dpc = "step" /\ row > Len(batch)
MoreSteps == (\E r \in Rows : ~Finished(r)) /\ step # StepLimit - 1

Decode ==
    /\ StepDone
    /\ MoreSteps
    /\ step' = step + 1
    /\ row' = 1
    /\ UNCHANGED <<jobs, gpc, ctx, streaming, dpc, batch, devErr, offer, seq, emitted, result>>

EndSteps(failed) ==
    /\ StepDone
    /\ devErr' = failed
    /\ dpc' = "deliver"
    /\ row' = 1
    /\ UNCHANGED <<jobs, gpc, ctx, streaming, batch, step, offer, seq, emitted, result>>

DecodeFail == MoreSteps /\ EndSteps(TRUE)
BatchDone == ~MoreSteps /\ EndSteps(FALSE)

\* deliver: a sequence with no reason counts as "length", and a result whose
\* trimmed text is empty falls back to the whole text.
Deliver(r) ==
    LET s == seq[r]
    IN  OkResult(IF s.cut = <<>> THEN s.text ELSE s.cut,
                 IF s.reason = "" THEN "length" ELSE s.reason)

\* The closing loop of run, with an error for the rows in failed: each done
\* channel has room for the one result it gets, so the loop never blocks and is
\* one step.
DeliverFailing(failed) ==
    /\ dpc = "deliver"
    /\ result' = [r \in Requests |-> IF r \notin Rows THEN result[r]
                                     ELSE IF r \in failed THEN ErrResult ELSE Deliver(r)]
    /\ dpc' = "collect"
    /\ batch' = <<>>
    /\ row' = 1
    /\ step' = 0
    /\ devErr' = FALSE
    /\ UNCHANGED <<jobs, gpc, ctx, streaming, offer, seq, emitted>>

\* Mutant of DeliverAll: the error of the last step goes to every row.
DeliverErrorToAll == DeliverFailing(IF devErr THEN Rows ELSE {})

DeliverAll == DeliverFailing(IF devErr THEN {r \in Rows : ~Finished(r)} ELSE {})

\* Every step of the device goroutine but the end of an OnToken call.
DeviceStep ==
    \/ CollectFirst \/ Drain \/ Prefill \/ PrefillFail
    \/ SkipRow \/ SeeCancel \/ SampleEOS \/ SampleToken
    \/ Decode \/ DecodeFail \/ BatchDone \/ DeliverAll

=============================================================================
