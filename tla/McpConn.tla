------------------------------- MODULE McpConn -------------------------------
(***************************************************************************)
(* The JSON-RPC connection of src/mcp/conn.go.  Many goroutines Call at     *)
(* once; one read loop routes each response to the call waiting on its id;  *)
(* any number of goroutines may Close.  A critical section of Conn.mu is    *)
(* one step: nothing blocks while the mutex is held.                        *)
(*                                                                          *)
(* A Call is named by an element of Calls and happens once.  The channel a  *)
(* call waits on is the sequence ch[c]; the Go channel has capacity 1, and  *)
(* a send to it is modelled without the capacity, so that the invariant     *)
(* AtMostOneResult is what keeps the sender from blocking.                  *)
(***************************************************************************)
EXTENDS Integers, Sequences, FiniteSets

CONSTANTS
    Calls,      \* invocations of Conn.Call
    Closers,    \* goroutines that call Conn.Close
    Reader,     \* the goroutine that runs readLoop
    ReplyKinds, \* what a response may carry: "result", "rpcError"
    MaxInbox    \* bound: lines the transport buffers towards the client

ASSUME ReaderAssumption == Reader \notin Closers
ASSUME KindAssumption == ReplyKinds \subseteq {"result", "rpcError"}
ASSUME InboxAssumption == MaxInbox \in Nat

Threads == Closers \cup {Reader}

\* A message the server may send: a response to the request that carried an id,
\* a response with "id": null (JSON-RPC's answer to a request that could not be
\* read), or a line of another kind.  "ignored" is a line that changes nothing:
\* a response whose id is no integer or was never issued, a notification, or a
\* server's own request (both dialers pass no notification handler).
OtherLines == {"ignored", "garbage"}
NoId == -1
NullId == -2
Reply(i, k) == [kind |-> k, of |-> i]
Replies == [kind : ReplyKinds, of : Nat \cup {NullId}]
Line(k) == [kind |-> k, of |-> NoId]
Messages == Replies \cup {Line(k) : k \in OtherLines}

\* What Call returns.  "closed" is ErrConnClosed, "readError" any other error
\* the read loop stopped with, "abandoned" the error of the call's own context
\* or write.
Errors == {"closed", "readError"}
Failure(e) == [kind |-> e, of |-> NoId]
ConnFailures == {Failure(e) : e \in Errors}
Results == Replies \cup ConnFailures
Outcomes == Results \cup {Failure("none"), Failure("abandoned")}

VARIABLES
    nextID, pending, closed, closeErr, done,  \* the fields of Conn
    pc, id, ch, outcome,                      \* per call
    rpc, cpc, taken,                          \* read loop, Close, results in hand
    transportOpen, eof, inbox, requests, replies  \* the stream and the server

connVars == <<nextID, pending, closed, closeErr, done>>
callVars == <<pc, id, ch, outcome>>
threadVars == <<rpc, cpc, taken>>
peerVars == <<transportOpen, eof, inbox, requests, replies>>
vars == <<connVars, callVars, threadVars, peerVars>>

Init ==
    /\ nextID = 0
    /\ pending = [i \in {} |-> Reader]
    /\ closed = FALSE
    /\ closeErr = "nil"
    /\ done = FALSE
    /\ pc = [c \in Calls |-> "new"]
    /\ id = [c \in Calls |-> NoId]
    /\ ch = [c \in Calls |-> <<>>]
    /\ outcome = [c \in Calls |-> Failure("none")]
    /\ rpc = "read"
    /\ cpc = [k \in Closers |-> "new"]
    /\ taken = [t \in Threads |-> {}]
    /\ transportOpen = TRUE
    /\ eof = FALSE
    /\ inbox = <<>>
    /\ requests = {}
    /\ replies = {}

Without(f, i) == [j \in DOMAIN f \ {i} |-> f[j]]
With(f, i, v) == [j \in DOMAIN f \cup {i} |-> IF j = i THEN v ELSE f[j]]

\* closeReason: the recorded error, defaulting to ErrConnClosed.
CloseReason == Failure(IF closeErr = "nil" THEN "closed" ELSE closeErr)

Return(c, o) == /\ pc' = [pc EXCEPT ![c] = "returned"]
                /\ outcome' = [outcome EXCEPT ![c] = o]

(***************************************************************************)
(* Call                                                                     *)
(***************************************************************************)

\* The connection is already closed: Call returns without sending.
Refuse(c) ==
    /\ pc[c] = "new"
    /\ closed
    /\ Return(c, CloseReason)
    /\ UNCHANGED <<connVars, id, ch, threadVars, peerVars>>

\* Allocate id nextID, file the call under it, and leave next as the next id.
Enrol(c, next) ==
    /\ pc[c] = "new"
    /\ id' = [id EXCEPT ![c] = nextID]
    /\ pending' = With(pending, nextID, c)
    /\ nextID' = next
    /\ pc' = [pc EXCEPT ![c] = "write"]
    /\ UNCHANGED <<closed, closeErr, done, ch, outcome, threadVars, peerVars>>

\* Mutants of Register: the closed check is missing; the id is not advanced.
RegisterUnguarded(c) == Enrol(c, nextID + 1)
RegisterSameId(c) == ~closed /\ Enrol(c, nextID)

Register(c) == ~closed /\ Enrol(c, nextID + 1)

WriteOk(c) ==
    /\ pc[c] = "write"
    /\ requests' = requests \cup {id[c]}
    /\ pc' = [pc EXCEPT ![c] = "wait"]
    /\ UNCHANGED <<connVars, id, ch, outcome, threadVars,
                   transportOpen, eof, inbox, replies>>

\* A failed write may still have reached the server: an SSE POST that is
\* answered with an error status was received.
WriteFail(c) ==
    /\ pc[c] = "write"
    /\ \E got \in {{}, {id[c]}} : requests' = requests \cup got
    /\ pc' = [pc EXCEPT ![c] = "discard"]
    /\ outcome' = [outcome EXCEPT ![c] = Failure("abandoned")]
    /\ UNCHANGED <<connVars, id, ch, threadVars, transportOpen, eof, inbox, replies>>

\* The three arms of Call's select; Go picks any that is ready.  A context may
\* be cancelled at any time.
SelectCtx(c) ==
    /\ pc[c] = "wait"
    /\ pc' = [pc EXCEPT ![c] = "discard"]
    /\ outcome' = [outcome EXCEPT ![c] = Failure("abandoned")]
    /\ UNCHANGED <<connVars, id, ch, threadVars, peerVars>>

SelectDone(c) ==
    /\ pc[c] = "wait"
    /\ done
    /\ Return(c, CloseReason)
    /\ UNCHANGED <<connVars, id, ch, threadVars, peerVars>>

SelectResult(c) ==
    /\ pc[c] = "wait"
    /\ ch[c] # <<>>
    /\ Return(c, Head(ch[c]))
    /\ ch' = [ch EXCEPT ![c] = Tail(@)]
    /\ UNCHANGED <<connVars, id, threadVars, peerVars>>

\* The call gives up and leaves rest pending.
DiscardLeaving(c, rest) ==
    /\ pc[c] = "discard"
    /\ pending' = rest
    /\ pc' = [pc EXCEPT ![c] = "returned"]
    /\ UNCHANGED <<nextID, closed, closeErr, done, id, ch, outcome,
                   threadVars, peerVars>>

\* Mutant of Discard: the entry of an abandoned call stays behind.
DiscardNothing(c) == DiscardLeaving(c, pending)

Discard(c) == DiscardLeaving(c, Without(pending, id[c]))

(***************************************************************************)
(* readLoop, deliver, shutdown, failPending                                 *)
(***************************************************************************)

Reading == rpc = "read" /\ taken[Reader] = {}

\* The id deliver reads out of a response: json.Unmarshal of null into an int64
\* is no error and leaves 0, the id of the first call.
Decoded(i) == IF i = NullId THEN 0 ELSE i

\* deliver: look the id up and take the call out of pending under mu, leaving
\* rest pending; the send on its channel is the later step Send.
DeliverLeaving(rest) ==
    /\ Reading
    /\ inbox # <<>>
    /\ Head(inbox).kind \in ReplyKinds
    /\ LET m == Head(inbox)
           i == Decoded(m.of)
       IN  taken' = [taken EXCEPT ![Reader] =
                       IF i \in DOMAIN pending
                       THEN {[call |-> pending[i], res |-> m]} ELSE {}]
    /\ pending' = rest
    /\ inbox' = Tail(inbox)
    /\ UNCHANGED <<nextID, closed, closeErr, done, callVars, rpc, cpc,
                   transportOpen, eof, requests, replies>>

\* Mutant of Deliver: the entry stays in the map.
DeliverKeepsEntry == DeliverLeaving(pending)

Deliver == DeliverLeaving(Without(pending, Decoded(Head(inbox).of)))

ReadIgnored ==
    /\ Reading
    /\ inbox # <<>>
    /\ Head(inbox).kind = "ignored"
    /\ inbox' = Tail(inbox)
    /\ UNCHANGED <<connVars, callVars, threadVars, transportOpen, eof, requests, replies>>

\* readMessage failed with e: the connection closes for the given reason.  The
\* error itself goes to failPending, whoever closed first.
StopWith(e, reason) ==
    /\ Reading
    /\ closed' = TRUE
    /\ closeErr' = reason
    /\ rpc' = IF e = "closed" THEN "failEOF" ELSE "failErr"

\* Mutant of Stop: shutdown overwrites the reason Close gave.
StopOverwrites(e) == StopWith(e, e)

Stop(e) == StopWith(e, IF closed THEN closeErr ELSE e)

ReadGarbage ==
    /\ inbox # <<>>
    /\ Head(inbox).kind = "garbage"
    /\ Stop("readError")
    /\ inbox' = Tail(inbox)
    /\ UNCHANGED <<nextID, pending, done, callVars, cpc, taken,
                   transportOpen, eof, requests, replies>>

ReadEOF ==
    /\ inbox = <<>>
    /\ eof
    /\ Stop("closed")
    /\ UNCHANGED <<nextID, pending, done, callVars, cpc, taken, peerVars>>

\* The transport was closed under the reader: it sees EOF, or the error of a
\* read from a closed file (exec.Cmd.Wait closes the stdout pipe).
ReadAborted ==
    /\ ~transportOpen
    /\ \E e \in Errors : Stop(e)
    /\ UNCHANGED <<nextID, pending, done, callVars, cpc, taken, peerVars>>

\* Mutant of TakePending: the map is cleared and nobody is told.
TakePendingDrops(t, e) ==
    /\ taken' = [taken EXCEPT ![t] = {}]
    /\ pending' = [i \in {} |-> Reader]

\* failPending: swap the map under mu; each send is a later step.
TakePending(t, e) ==
    /\ taken' = [taken EXCEPT ![t] =
                   {[call |-> pending[i], res |-> Failure(e)] : i \in DOMAIN pending}]
    /\ pending' = [i \in {} |-> Reader]

ReaderFailPending ==
    /\ rpc \in {"failEOF", "failErr"}
    /\ TakePending(Reader, IF rpc = "failEOF" THEN "closed" ELSE "readError")
    /\ rpc' = "exit"
    /\ UNCHANGED <<nextID, closed, closeErr, done, callVars, cpc, peerVars>>

\* ch <- callResult, by the read loop or by failPending.
Send(t) ==
    /\ \E w \in taken[t] :
         /\ ch' = [ch EXCEPT ![w.call] = Append(@, w.res)]
         /\ taken' = [taken EXCEPT ![t] = @ \ {w}]
    /\ UNCHANGED <<connVars, pc, id, outcome, rpc, cpc, peerVars>>

\* The deferred close(c.done).
ReaderExit ==
    /\ rpc = "exit"
    /\ taken[Reader] = {}
    /\ done' = TRUE
    /\ rpc' = "stopped"
    /\ UNCHANGED <<nextID, pending, closed, closeErr, callVars, cpc, taken, peerVars>>

(***************************************************************************)
(* Close                                                                    *)
(***************************************************************************)

CloseAgain(k) ==
    /\ cpc[k] = "new"
    /\ closed
    /\ cpc' = [cpc EXCEPT ![k] = "returned"]
    /\ UNCHANGED <<connVars, callVars, rpc, taken, peerVars>>

\* Mark the connection closed for a reason; the Close goes on at step next.
MarkClosed(k, reason, next) ==
    /\ cpc[k] = "new"
    /\ ~closed
    /\ closed' = TRUE
    /\ closeErr' = reason
    /\ cpc' = [cpc EXCEPT ![k] = next]
    /\ UNCHANGED <<nextID, pending, done, callVars, rpc, taken, peerVars>>

\* Mutants of CloseFirst: no reason is recorded; only the flag is set.
CloseWithoutReason(k) == MarkClosed(k, closeErr, "closer")
CloseFlagOnly(k) == MarkClosed(k, "closed", "returned")

CloseFirst(k) ==
    MarkClosed(k, IF closeErr = "nil" THEN "closed" ELSE closeErr, "closer")

\* c.closer.Close(): for stdio, the process has exited or was killed after the
\* grace period; for SSE, the event stream is cancelled and the pipe closed.
CloseTransport(k) ==
    /\ cpc[k] = "closer"
    /\ transportOpen' = FALSE
    /\ eof' = TRUE
    /\ cpc' = [cpc EXCEPT ![k] = "fail"]
    /\ UNCHANGED <<connVars, callVars, rpc, taken, inbox, requests, replies>>

CloserFailPending(k) ==
    /\ cpc[k] = "fail"
    /\ TakePending(k, closeErr)
    /\ cpc' = [cpc EXCEPT ![k] = "drain"]
    /\ UNCHANGED <<nextID, closed, closeErr, done, callVars, rpc, peerVars>>

CloseReturn(k) ==
    /\ cpc[k] = "drain"
    /\ taken[k] = {}
    /\ cpc' = [cpc EXCEPT ![k] = "returned"]
    /\ UNCHANGED <<connVars, callVars, rpc, taken, peerVars>>

(***************************************************************************)
(* The server: external.  It answers requests it received, in any order and *)
(* possibly more than once, answers with a null id and sends other lines at  *)
(* any time, and may exit at any time.                                      *)
(***************************************************************************)

ServerSend(m) ==
    /\ ~eof
    /\ Len(inbox) < MaxInbox
    /\ inbox' = Append(inbox, m)

ServerReply ==
    /\ \E i \in requests \cup {NullId}, k \in ReplyKinds :
         /\ ServerSend(Reply(i, k))
         /\ replies' = replies \cup {Reply(i, k)}
    /\ UNCHANGED <<connVars, callVars, threadVars, transportOpen, eof, requests>>

ServerChatter ==
    /\ \E k \in OtherLines : ServerSend(Line(k))
    /\ UNCHANGED <<connVars, callVars, threadVars, transportOpen, eof, requests, replies>>

ServerExit ==
    /\ ~eof
    /\ eof' = TRUE
    /\ UNCHANGED <<connVars, callVars, threadVars, transportOpen, inbox, requests, replies>>

-----------------------------------------------------------------------------

CallStart(c) == Refuse(c) \/ Register(c) \/ WriteOk(c) \/ WriteFail(c)
CallEnd(c) == SelectDone(c) \/ SelectResult(c) \/ Discard(c)

ReaderStep == \/ Deliver \/ ReadIgnored \/ ReadGarbage \/ ReadEOF \/ ReadAborted
              \/ ReaderFailPending \/ ReaderExit

CloserStep(k) == \/ CloseAgain(k) \/ CloseFirst(k) \/ CloseTransport(k)
                 \/ CloserFailPending(k) \/ CloseReturn(k)

Next ==
    \/ \E c \in Calls : CallStart(c) \/ CallEnd(c) \/ SelectCtx(c)
    \/ ReaderStep
    \/ \E t \in Threads : Send(t)
    \/ \E k \in Closers : CloserStep(k)
    \/ ServerReply \/ ServerChatter \/ ServerExit

Spec == Init /\ [][Next]_vars

\* A goroutine that has started runs on, except at the write of its request: an
\* SSE POST has neither context nor timeout (sse.go:47-52) and a stdio write may
\* meet a full pipe, so that write may never end.  Closing the transport ends
\* within the grace period.  Nothing is assumed of the server, of the contexts,
\* or of whether anyone calls Call or Close at all.
Fairness ==
    /\ \A c \in Calls : WF_vars(CallEnd(c))
    /\ WF_vars(ReaderStep)
    /\ \A t \in Threads : WF_vars(Send(t))
    /\ \A k \in Closers : WF_vars(cpc[k] # "new" /\ CloserStep(k))

FairSpec == Spec /\ Fairness

-----------------------------------------------------------------------------
(* Properties *)

TypeOK ==
    /\ nextID \in Nat
    /\ DOMAIN pending \subseteq Nat
    /\ pending \in [DOMAIN pending -> Calls]
    /\ closed \in BOOLEAN
    /\ closeErr \in Errors \cup {"nil"}
    /\ done \in BOOLEAN
    /\ pc \in [Calls -> {"new", "write", "wait", "discard", "returned"}]
    /\ id \in [Calls -> Nat \cup {NoId}]
    /\ ch \in [Calls -> Seq(Results)]
    /\ outcome \in [Calls -> Outcomes]
    /\ rpc \in {"read", "failEOF", "failErr", "exit", "stopped"}
    /\ cpc \in [Closers -> {"new", "closer", "fail", "drain", "returned"}]
    /\ taken \in [Threads -> SUBSET [call : Calls, res : Results]]
    /\ transportOpen \in BOOLEAN
    /\ eof \in BOOLEAN
    /\ inbox \in Seq(Messages)
    /\ requests \subseteq Nat
    /\ replies \subseteq Replies

IsPending(c) == \E i \in DOMAIN pending : pending[i] = c
InHand(t, c) == \E w \in taken[t] : w.call = c

\* A call has at most one result on its way: it sits in pending, or in the hands
\* of one thread, or in its channel, and in one of them only.  So a send never
\* meets a full channel, and the read loop never blocks on a caller that left
\* (conn.go: deliver and failPending send after releasing mu).
AtMostOneResult ==
    \A c \in Calls :
        /\ Len(ch[c]) <= 1
        /\ ch[c] # <<>> => ~IsPending(c) /\ \A t \in Threads : ~InHand(t, c)
        /\ \A t \in Threads : InHand(t, c) =>
             /\ ~IsPending(c)
             /\ \A u \in Threads \ {t} : ~InHand(u, c)
             /\ \A v, w \in taken[t] : v.call = c /\ w.call = c => v = w

\* A call that returns an answer returns one the server sent for that call's own
\* request, whatever the order of replies, duplicates, cancellations and closes;
\* the one exception is the call with id 0, which also takes an answer the
\* server sent with a null id (conn.go:167).
OwnAnswer ==
    \A c \in Calls : outcome[c].kind \in ReplyKinds =>
        /\ outcome[c].of = id[c] \/ (outcome[c].of = NullId /\ id[c] = 0)
        /\ outcome[c] \in replies
        /\ \A d \in Calls \ {c} : id[d] = id[c] => id[c] = NoId

\* A call that waits can still be woken by the connection: its id is pending, or
\* its result is in hand or in its channel, or the read loop has closed done.
\* No interleaving of Call, deliver, shutdown and Close forgets a caller.
NoLostCall ==
    \A c \in Calls : pc[c] = "wait" =>
        \/ id[c] \in DOMAIN pending /\ pending[id[c]] = c
        \/ \E t \in Threads : InHand(t, c)
        \/ ch[c] # <<>>
        \/ done

\* No entry leaks.  While the connection runs, an entry belongs to a call that
\* has not returned, however that call ends (answer, failed write, context); once
\* the read loop has stopped and no Close is running the map is empty and stays
\* so, although calls keep arriving.
NoPendingLeak ==
    /\ \A i \in DOMAIN pending : pc[pending[i]] \in {"write", "wait", "discard"}
    /\ done /\ (\A k \in Closers : cpc[k] \in {"new", "returned"}) =>
        /\ DOMAIN pending = {}
        /\ \A t \in Threads : taken[t] = {}

\* The reason recorded for the close is written once: Close reads closeErr
\* after unlocking (conn.go:137), which is sound only because nothing rewrites it.
CloseErrWrittenOnce == [][closed => closed' /\ closeErr' = closeErr]_vars

\* Close, or a read loop that stopped, releases every call past its write,
\* including one that registered just before the close and wrote after it.  A
\* call still in its write is not claimed: nothing bounds that write.
Released == \A c \in Calls :
    (pc[c] \in {"wait", "discard"} /\ closed) ~> pc[c] = "returned"

\* "Close shuts the connection" (conn.go:124), "Closing the session shuts the
\* subprocess down" (stdio.go:92): when every Close that was called has returned,
\* the transport is closed.
CloseShutsTransport ==
    /\ \E k \in Closers : cpc[k] = "returned"
    /\ \A k \in Closers : cpc[k] \in {"new", "returned"}
    => ~transportOpen

-----------------------------------------------------------------------------
(* The abstract call channel this connection implements. *)

CallState(c) == CASE pc[c] = "new" -> "new"
                  [] pc[c] \in {"write", "wait", "discard"} -> "open"
                  [] pc[c] = "returned" /\ outcome[c].kind \in ReplyKinds -> outcome[c].kind
                  [] OTHER -> "failed"

Channel == INSTANCE RpcChannel WITH
    AnswerKinds <- ReplyKinds,
    call <- [c \in Calls |-> CallState(c)],
    answers <- {a \in Calls \X ReplyKinds : Reply(id[a[1]], a[2]) \in replies},
    first <- {c \in Calls : id[c] = 0},
    unaddressed <- {k \in ReplyKinds : Reply(NullId, k) \in replies},
    up <- ~closed

\* The connection implements the channel: a call is opened at most once and
\* only while the channel is up, and ends with an answer the server gave it
\* (or, for the first call, gave to nobody) or with a failure.
ImplementsChannel == Channel!Spec

=============================================================================
