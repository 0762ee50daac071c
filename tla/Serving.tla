------------------------------- MODULE Serving --------------------------------
(***************************************************************************)
(* A request on its way through the server: the handler and its SSE loop    *)
(* (src/routes/chat.go, completions.go), the registry of cancel functions   *)
(* (src/routes/requests.go), the engine's streaming goroutine               *)
(* (src/engine/mlx.go) and the device loop it shares with every other       *)
(* request (BatchRunner).                                                   *)
(*                                                                          *)
(* The engine's channel is unbuffered: a delta or the final element passes  *)
(* in one step that both sides take, and the sender gives up when the       *)
(* request's context is done.                                               *)
(***************************************************************************)
EXTENDS BatchRunner

VARIABLES
    hpc,       \* the handler of each request
    cancels,   \* cancelRegistry: ids whose cancel func is registered
    cancelOk,  \* ids for which a cancel request was answered 200
    received,  \* text the handler took from the channel, in order
    final,     \* finish reason of the final element, "" before it is received
    client     \* whether each request's client reads, has stopped, or is gone

serveVars == <<hpc, cancels, cancelOk, received, final, client>>
vars == <<runnerVars, serveVars>>

Init ==
    /\ RunnerInit
    /\ hpc = [r \in Requests |-> "new"]
    /\ cancels = {}
    /\ cancelOk = {}
    /\ received = [r \in Requests |-> <<>>]
    /\ final = [r \in Requests |-> ""]
    /\ client = [r \in Requests |-> "reads"]

(***************************************************************************)
(* The streaming handler                                                    *)
(***************************************************************************)

\* trackStream registers the id, and StreamChat starts the engine's goroutine,
\* which goes on to Generate.
StartStream(r) ==
    /\ hpc[r] = "new"
    /\ streaming' = streaming \cup {r}
    /\ cancels' = cancels \cup {r}
    /\ gpc' = [gpc EXCEPT ![r] = "enqueue"]
    /\ hpc' = [hpc EXCEPT ![r] = "read"]
    /\ UNCHANGED <<jobs, ctx, deviceVars, cancelOk, received, final, client>>

\* The emit callback on the device goroutine meets the handler's receive.
ReceiveDelta(r) ==
    /\ dpc = "emit"
    /\ r = Current
    /\ hpc[r] = "read"
    /\ received' = [received EXCEPT ![r] = @ \o offer]
    /\ hpc' = [hpc EXCEPT ![r] = "write"]
    /\ EmitReturn
    /\ UNCHANGED <<cancels, cancelOk, final, client>>

\* The other arm of emit's select: the delta is dropped.
EmitAbandoned ==
    /\ dpc = "emit"
    /\ Current \in ctx
    /\ EmitReturn
    /\ UNCHANGED serveVars

\* Generate has returned to the engine's goroutine: an error closes the channel
\* at once, a result is followed by the final element.
GenerateReturns(r) ==
    /\ r \in streaming
    /\ gpc[r] = "await"
    /\ result[r].kind # "none"
    /\ gpc' = [gpc EXCEPT ![r] = IF result[r].kind = "err" THEN "closed" ELSE "final"]
    /\ UNCHANGED <<jobs, ctx, streaming, deviceVars, serveVars>>

ReceiveFinal(r) ==
    /\ gpc[r] = "final"
    /\ hpc[r] = "read"
    /\ final' = [final EXCEPT ![r] = result[r].reason]
    /\ gpc' = [gpc EXCEPT ![r] = "closed"]
    /\ UNCHANGED <<jobs, ctx, streaming, deviceVars, hpc, cancels, cancelOk, received, client>>

FinalAbandoned(r) ==
    /\ gpc[r] = "final"
    /\ r \in ctx
    /\ gpc' = [gpc EXCEPT ![r] = "closed"]
    /\ UNCHANGED <<jobs, ctx, streaming, deviceVars, serveVars>>

\* The server sets no write timeout (server.go:82-85): a write to a client that
\* stays connected and has stopped reading does not end.
CanWrite(r) == client[r] # "stalled"

\* A chunk is written, or the client is gone and the handler returns.
WriteChunk(r) ==
    /\ hpc[r] = "write"
    /\ CanWrite(r)
    /\ \E next \in {"read", "stop"} : hpc' = [hpc EXCEPT ![r] = next]
    /\ UNCHANGED <<runnerVars, cancels, cancelOk, received, final, client>>

\* The range loop ends with the channel; Finish and Done are written.
WriteEnd(r) ==
    /\ hpc[r] = "read"
    /\ gpc[r] = "closed"
    /\ CanWrite(r)
    /\ hpc' = [hpc EXCEPT ![r] = "stop"]
    /\ UNCHANGED <<runnerVars, cancels, cancelOk, received, final, client>>

\* Return from the handler after the registry and the contexts became as given.
Deregister(r, done) ==
    /\ hpc[r] = "stop"
    /\ cancels' = cancels \ {r}
    /\ ctx' = done
    /\ hpc' = [hpc EXCEPT ![r] = "returned"]
    /\ UNCHANGED <<jobs, gpc, streaming, deviceVars, cancelOk, received, final, client>>

\* Mutant of StopStream: the id is deregistered, the context is not released.
StopWithoutCancel(r) == Deregister(r, ctx)

\* The deferred stop func of trackStream.
StopStream(r) == Deregister(r, ctx \cup {r})

(***************************************************************************)
(* Non-streaming requests, cancellation, clients                            *)
(***************************************************************************)

StartPlain(r) ==
    /\ hpc[r] = "new"
    /\ gpc' = [gpc EXCEPT ![r] = "enqueue"]
    /\ hpc' = [hpc EXCEPT ![r] = "wait"]
    /\ UNCHANGED <<jobs, ctx, streaming, deviceVars, cancels, cancelOk, received, final, client>>

ReturnPlain(r) ==
    /\ hpc[r] = "wait"
    /\ result[r].kind # "none"
    /\ CanWrite(r)
    /\ gpc' = [gpc EXCEPT ![r] = "closed"]
    /\ hpc' = [hpc EXCEPT ![r] = "returned"]
    /\ UNCHANGED <<jobs, ctx, streaming, deviceVars, cancels, cancelOk, received, final, client>>

\* cancelRegistry.cancel finds r's func, calls it, and leaves rest registered.
CancelLeaving(r, rest) ==
    /\ r \in cancels
    /\ cancels' = rest
    /\ ctx' = ctx \cup {r}
    /\ cancelOk' = cancelOk \cup {r}
    /\ UNCHANGED <<jobs, gpc, streaming, deviceVars, hpc, received, final, client>>

\* Mutant of CancelRequest: the entry stays.
CancelKeepsEntry(r) == CancelLeaving(r, cancels)

\* POST /v1/requests/{id}/cancel for a registered id; any other id is a 404
\* that changes nothing.
CancelRequest(r) == CancelLeaving(r, cancels \ {r})

\* The client has stopped reading for good and the handler's write meets full
\* buffers; a client that only pauses is one whose write is late.
Stall(r) ==
    /\ \/ hpc[r] = "write"
       \/ hpc[r] = "read" /\ gpc[r] = "closed"
       \/ hpc[r] = "wait" /\ result[r].kind # "none"
    /\ client[r] = "reads"
    /\ client' = [client EXCEPT ![r] = "stalled"]
    /\ UNCHANGED <<runnerVars, hpc, cancels, cancelOk, received, final>>

\* net/http cancels the request's context when the client goes away.
Disconnect(r) ==
    /\ hpc[r] \in {"read", "write", "wait"}
    /\ r \notin ctx \/ client[r] = "stalled"
    /\ client' = [client EXCEPT ![r] = "gone"]
    /\ ctx' = ctx \cup {r}
    /\ UNCHANGED <<jobs, gpc, streaming, deviceVars, hpc, cancels, cancelOk, received, final>>

-----------------------------------------------------------------------------

HandlerStep(r) == \/ WriteChunk(r) \/ WriteEnd(r) \/ StopStream(r) \/ ReturnPlain(r)

EngineStep(r) ==
    \/ Enqueue(r) /\ UNCHANGED serveVars
    \/ GenerateReturns(r) \/ ReceiveFinal(r) \/ FinalAbandoned(r)

Device ==
    \/ DeviceStep /\ UNCHANGED serveVars
    \/ \E r \in Requests : ReceiveDelta(r)
    \/ EmitAbandoned

Next ==
    \/ \E r \in Requests :
         \/ StartStream(r) \/ StartPlain(r)
         \/ HandlerStep(r) \/ EngineStep(r)
         \/ CancelRequest(r) \/ Stall(r) \/ Disconnect(r)
    \/ Device

Spec == Init /\ [][Next]_vars

\* Goroutines run on, and a write to a client that reads, or is gone, ends.
\* Nothing is assumed of clients: they may stop reading for good, requests,
\* cancels and disconnects may never come, and no model is obliged to sample an
\* end token.
Fairness ==
    /\ WF_vars(Device)
    /\ \A r \in Requests :
         /\ WF_vars(HandlerStep(r))
         /\ WF_vars(EngineStep(r))

FairSpec == Spec /\ Fairness

-----------------------------------------------------------------------------
(* Properties *)

Symbols == UNION {{p[i] : i \in DOMAIN p} : p \in UNION {Pieces[r] : r \in Requests}}
Texts == Seq(Symbols)

\* Tokens decode to texts.
ASSUME PiecesAssumption == \A r \in Requests : Pieces[r] \subseteq Texts

Reasons == {"", "stop", "length", "cancel"}
SeqStates == [text : Texts, prev : Nat, tokens : Nat, reason : Reasons, cut : Texts]
Results == [kind : {"none", "err", "ok"}, text : Texts, reason : Reasons]

TypeOK ==
    /\ jobs \in Seq(Requests)
    /\ gpc \in [Requests -> {"new", "enqueue", "await", "final", "closed"}]
    /\ ctx \subseteq Requests
    /\ streaming \subseteq Requests
    /\ dpc \in {"collect", "drain", "step", "emit", "deliver"}
    /\ batch \in Seq(Requests)
    /\ row \in Nat \ {0}
    /\ step \in Nat
    /\ devErr \in BOOLEAN
    /\ offer \in Texts
    /\ seq \in [Requests -> SeqStates]
    /\ emitted \in [Requests -> Texts]
    /\ result \in [Requests -> Results]
    /\ hpc \in [Requests -> {"new", "read", "write", "wait", "stop", "returned"}]
    /\ cancels \subseteq Requests
    /\ cancelOk \subseteq Requests
    /\ received \in [Requests -> Texts]
    /\ final \in [Requests -> Reasons]
    /\ client \in [Requests -> {"reads", "stalled", "gone"}]

TextPrefix(s, t) == Len(s) <= Len(t) /\ SubSeq(t, 1, Len(s)) = s

\* What a client reads is what was generated for it, with no gap: a delta may be
\* dropped when the context ends, but then nothing follows it.  A stream that
\* ends with its final element and was never cancelled is complete, up to what a
\* stop string trimmed (mlx.go emit, runner.go stepSeq).
StreamExact ==
    \A r \in streaming :
        /\ TextPrefix(received[r], seq[r].text)
        /\ final[r] # "" /\ r \notin ctx =>
             Len(received[r]) >= Len(IF StopsAt(seq[r].text, Stops[r]) = {}
                                     THEN seq[r].text ELSE seq[r].cut)

\* A caller of Generate that waits has its job in the queue, in the batch, or
\* answered: no path of collect and run drops a job (its caller has no timeout).
NoJobLost ==
    \A r \in Requests : gpc[r] = "await" =>
        \/ \E i \in DOMAIN jobs : jobs[i] = r
        \/ r \in Rows
        \/ result[r].kind # "none"

\* "length" is reported only when the budget is used up, although sequences of
\* different budgets share the batch and its step limit (runner.go:159, 223).
LengthHonest ==
    \A r \in Requests : result[r].reason = "length" => seq[r].tokens = MaxTokens[r]

\* A device error reaches only the sequences it interrupted: one that ended in
\* an earlier step of the same batch keeps its result (runner.go:167-173).
ErrorContained ==
    \A r \in Requests : result[r].kind = "err" => ~Finished(r)

\* The result of Generate as the single-stream generator would give it: deliver
\* takes an empty text for "no stop string" and falls back to the whole text
\* (see ResultTrimmed), which is undone here.
SoloResult(r) ==
    IF result[r].kind = "ok" /\ StopsAt(seq[r].text, Stops[r]) # {} /\ seq[r].cut = <<>>
    THEN OkResult(<<>>, result[r].reason)
    ELSE result[r]

Solo(r) == INSTANCE SoloGenerator WITH
    MaxTokens <- MaxTokens[r], Stops <- Stops[r], Pieces <- Pieces[r],
    called <- gpc[r] # "new", streaming <- r \in streaming, gone <- r \in ctx,
    text <- seq[r].text, tokens <- seq[r].tokens, reason <- seq[r].reason,
    told <- emitted[r], result <- SoloResult(r)

\* Batching is invisible: whatever shares its batch, each request is generated,
\* streamed, cancelled, failed and answered as Generator.Generate would do it
\* alone (runner.go:75-76, "the engine can swap one for the other").
ImplementsGenerator ==
    /\ \A r \in Requests : Solo(r)!Init
    /\ [][\A r \in Requests : [Solo(r)!Next]_(Solo(r)!vars)]_vars

\* The registry lists exactly the streams that a cancel could still reach, and
\* an accepted cancel has ended the request's context.
RegistryExact ==
    /\ \A r \in Requests : r \in cancels =>
         hpc[r] \in {"read", "write", "stop"} /\ r \notin cancelOk
    /\ cancelOk \subseteq ctx
    /\ \A r \in streaming : hpc[r] \in {"read", "write", "stop"} =>
         r \in cancels \cup cancelOk

\* The device goroutine is at its send to a handler whose client has stopped
\* reading and whose context nobody ends: it waits, and so does every request.
DeviceHeld == dpc = "emit" /\ client[Current] = "stalled" /\ Current \notin ctx

\* Every request that enters the server leaves it, whatever the other clients,
\* the device and its neighbours in the batch do, with two exceptions: its own
\* client has stopped reading without going away, or the device is held by such
\* a client.  Once the held device is released by a disconnect or a cancel, every
\* request again goes on to its end.
Served == \A r \in Requests :
    hpc[r] # "new" ~> hpc[r] = "returned" \/ client[r] = "stalled" \/ DeviceHeld

\* No goroutine outlives its request for good: when the handler has returned,
\* the engine's goroutine ends too, though nobody reads its channel, unless it
\* waits for a device that is held.
NoGoroutineLeak ==
    \A r \in Requests : hpc[r] = "returned" ~> gpc[r] = "closed" \/ DeviceHeld

\* generate.go:31-33: OnToken "is not called for text trimmed away by a stop
\* string".
NothingTrimmedEmitted ==
    \A r \in streaming : StopsAt(seq[r].text, Stops[r]) # {} =>
        TextPrefix(emitted[r], seq[r].cut)

\* generate.go:144-145: hitStopString "returns the text truncated at the earliest
\* one", and the result of a request carries that text.
ResultTrimmed == \A r \in Requests : StopsAt(result[r].text, Stops[r]) = {}

=============================================================================
