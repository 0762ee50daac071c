----------------------------- MODULE McpManager ------------------------------
(***************************************************************************)
(* The MCP subsystem in the life of the server: runServe loads the config   *)
(* and connects every enabled server in parallel (src/mcp/manager.go), the  *)
(* tools are pooled in a registry (registry.go), tool calls pass the gate   *)
(* and reach the session of the tool's server, an executor runs a batch of  *)
(* them (executor.go), and at a signal the process shuts down.              *)
(*                                                                          *)
(* One goroutine per server connects; one goroutine per tool call.  A       *)
(* critical section of Manager.mu or Registry.mu is one step.  The JSON-RPC *)
(* connection is McpConn, abstracted here to what Call returns: an answer   *)
(* while the connection is open, an error when it is not or when the        *)
(* call's context ends.                                                     *)
(***************************************************************************)
EXTENDS McpRegistry, SseTransport

CONSTANTS
    Servers,      \* names of the configured servers
    RawConfigs,   \* what the config file may hold, a function on Servers each
    Offers,       \* server -> the tool lists it may answer with
    Calls,        \* sequence of tool calls [id, name, args] of a model response
    MaxParallel,  \* Executor.maxParallel, what NewExecutor was given
    Preambles,    \* what an SSE server may send first, sequences of lines
    ReplyEvents,  \* the lines its answers may come in
    Answers       \* what a server may answer to tools/call

ASSUME CallsAssumption == Calls \in Seq([id : Nat, name : Seq(STRING),
                                         args : [form : {"object", "malformed"},
                                                 leaves : SUBSET {"plain", "sensitive"}]])
ASSUME ParallelAssumption == MaxParallel \in Nat
\* A config is a map of all servers, and an answer to tools/list is finite.
ASSUME ServersAssumption ==
    /\ \A r \in RawConfigs : DOMAIN r = Servers
    /\ \A s \in Servers : \A tools \in Offers[s] : IsFiniteSet(tools)

CallIds == DOMAIN Calls
DefaultMaxParallel == 4
\* NewExecutor: a ceiling below one is replaced by the default.
Ceiling == IF MaxParallel < 1 THEN DefaultMaxParallel ELSE MaxParallel

NoTool == [server |-> <<>>, name |-> <<>>]
NoOutcome == [id |-> 0, result |-> [isError |-> FALSE, content |-> <<"none">>]]
\* What an outcome holds when the call failed: an error result.
Failed(c) == [id |-> Calls[c].id, result |-> [isError |-> TRUE, content |-> <<>>]]

VARIABLES
    raw, cfg,       \* the config file, and Manager.cfg once it is parsed
    phase,          \* where runServe is; "aborted" is os.Exit, past the deferred Close
    signalled,      \* the context of NotifyContext is cancelled
    spc,            \* per server: where its connect goroutine is
    conn,           \* per server: "none", "open", "stopped", "dead" or "closed"
    listed,         \* per server: the tools tools/list returned
    byServer,       \* Registry.byServer; {} for an absent entry
    sessions,       \* servers in Manager.sessions
    status,         \* Manager.status, state and tool count
    closing,        \* servers whose session Close has still to shut
    parallel,       \* the mode Execute was called in
    cpc,            \* per call: where it is
    tool,           \* per call: what Resolve returned
    outcomes,       \* per call: its place in the outcomes
    reached         \* ghost: the calls servers received, [call, tool, args]

startVars == <<raw, cfg, phase, signalled>>
serverVars == <<spc, conn, listed, byServer, sessions, status, closing>>
callVars == <<parallel, cpc, tool, outcomes, reached>>
vars == <<startVars, serverVars, callVars>>

Enabled == {s \in DOMAIN cfg : cfg[s].enabled}
Skip == {s \in DOMAIN cfg : cfg[s].skip}
Status(state, n) == [state |-> state, tools |-> n]
NoStatus == Status("unlisted", 0)

Init ==
    /\ raw \in RawConfigs
    /\ cfg = <<>>
    /\ phase = "load"
    /\ signalled = FALSE
    /\ spc = [s \in Servers |-> "idle"]
    /\ conn = [s \in Servers |-> "none"]
    /\ listed = [s \in Servers |-> {}]
    /\ byServer = [s \in Servers |-> {}]
    /\ sessions = {}
    /\ status = [s \in Servers |-> NoStatus]
    /\ closing = {}
    /\ parallel \in BOOLEAN
    /\ cpc = [c \in CallIds |-> "queued"]
    /\ tool = [c \in CallIds |-> NoTool]
    /\ outcomes = [c \in CallIds |-> NoOutcome]
    /\ reached = {}

(***************************************************************************)
(* Startup                                                                  *)
(***************************************************************************)

\* loadMCP: a config that does not validate ends the process; otherwise
\* Connect starts a goroutine for every enabled server.
Load ==
    /\ phase = "load"
    /\ IF ConfigValid(raw)
       THEN /\ cfg' = ParseConfig(raw)
            /\ phase' = "connect"
            /\ spc' = [s \in Servers |-> IF ParseConfig(raw)[s].enabled THEN "dial" ELSE "idle"]
       ELSE /\ phase' = "aborted"
            /\ UNCHANGED <<cfg, spc>>
    /\ UNCHANGED <<raw, signalled, conn, listed, byServer, sessions, status, closing, callVars>>

At(s, p) == phase = "connect" /\ spc[s] = p
Advance(s, p) == spc' = [spc EXCEPT ![s] = p]
SetConn(s, state) == conn' = [conn EXCEPT ![s] = state]

\* startStdio and startSSE: the process or the event stream is there, and an
\* SSE stream has named the endpoint to POST to.
DialOk(s) ==
    /\ At(s, "dial")
    /\ ~signalled
    /\ cfg[s].transport = "sse" => \E lines \in Preambles : ReadEndpoint(lines) # 0
    /\ SetConn(s, "open")
    /\ Advance(s, "post init")
    /\ UNCHANGED <<startVars, listed, byServer, sessions, status, closing, callVars>>

\* The process does not start; the stream is refused, ends before it names an
\* endpoint, or the context ends.  What was opened is closed again.
DialFail(s) ==
    /\ At(s, "dial")
    /\ \/ cfg[s].transport = "stdio"
       \/ \E lines \in Preambles : ReadEndpoint(lines) = 0
       \/ signalled
    /\ Advance(s, "failed")
    /\ UNCHANGED <<startVars, conn, listed, byServer, sessions, status, closing, callVars>>

\* The request is written: to a pipe, or as a POST that the server answers.  A
\* POST carries no context, so nothing but its answer or its failure ends it.
Posting == {"post init", "notify", "post list"}
Written(s) ==
    /\ phase = "connect"
    /\ conn[s] = "open"
    /\ \/ spc[s] = "post init" /\ Advance(s, "init")
       \/ spc[s] = "notify" /\ Advance(s, "post list")
       \/ spc[s] = "post list" /\ Advance(s, "list")
    /\ UNCHANGED <<startVars, conn, listed, byServer, sessions, status, closing, callVars>>

\* Initialize: the request is answered, and the notification is next.
InitReply(s) ==
    /\ At(s, "init")
    /\ conn[s] = "open"
    /\ Advance(s, "notify")
    /\ UNCHANGED <<startVars, conn, listed, byServer, sessions, status, closing, callVars>>

\* Session.ListTools.
ListReply(s) ==
    /\ At(s, "list")
    /\ conn[s] = "open"
    /\ \E tools \in Offers[s] : listed' = [listed EXCEPT ![s] = tools]
    /\ Advance(s, "pool")
    /\ UNCHANGED <<startVars, conn, byServer, sessions, status, closing, callVars>>

\* Conn.Close: it returns early where the read loop has set closed before, and
\* then the transport stays as it is.
AfterClose(s) == IF conn[s] = "open" THEN "closed" ELSE conn[s]

\* A server's error, a dead connection or the end of the context: the session
\* is closed and the goroutine reports the error.
Abandon(s, state) ==
    /\ phase = "connect"
    /\ spc[s] \in Posting \cup {"init", "list"}
    /\ SetConn(s, state)
    /\ Advance(s, "failed")
    /\ UNCHANGED <<startVars, listed, byServer, sessions, status, closing, callVars>>

\* Mutant: the session is left open.
HandshakeFailLeaking(s) == Abandon(s, conn[s])

HandshakeFail(s) == Abandon(s, AfterClose(s))

\* Registry.SetTools, before the session is in the manager's map.
Pool(s) ==
    /\ At(s, "pool")
    /\ byServer' = [byServer EXCEPT ![s] = listed[s]]
    /\ Advance(s, "connected")
    /\ UNCHANGED <<startVars, conn, listed, sessions, status, closing, callVars>>

\* After wg.Wait, under Manager.mu: every status, every session.  No server
\* connected out of some enabled is an error, which ends the process.
Store ==
    /\ phase = "connect"
    /\ \A s \in Enabled : spc[s] \in {"failed", "connected"}
    /\ LET ok == {s \in Enabled : spc[s] = "connected"}
       IN  /\ sessions' = ok
           /\ status' = [s \in Servers |->
                            IF s \notin Enabled THEN status[s]
                            ELSE IF s \in ok THEN Status("connected", Cardinality(listed[s]))
                            ELSE Status("error", 0)]
           /\ phase' = IF Enabled # {} /\ ok = {} THEN "aborted" ELSE "serve"
    /\ UNCHANGED <<raw, cfg, signalled, spc, conn, listed, byServer, closing, callVars>>

(***************************************************************************)
(* Tool calls.  Resolve, the read of the session map and the request to the *)
(* server are steps of their own.                                           *)
(***************************************************************************)

CallsRun == phase \in {"serve", "shutdown"}
Running == {c \in CallIds : cpc[c] \notin {"queued", "done"}}
Width == IF parallel THEN Ceiling ELSE 1

\* Execute takes the calls in order, a goroutine each while the semaphore has
\* room, or one after the other.  A request may still come on a connection that
\* was accepted before the shutdown.
LaunchWithin(c, room) ==
    /\ CallsRun
    /\ cpc[c] = "queued"
    /\ \A d \in 1 .. c - 1 : cpc[d] # "queued"
    /\ Cardinality(Running) < room
    /\ cpc' = [cpc EXCEPT ![c] = "resolve"]
    /\ UNCHANGED <<startVars, serverVars, parallel, tool, outcomes, reached>>

\* Mutant of Launch: the slot is taken inside the goroutine.
LaunchAnyway(c) == LaunchWithin(c, Cardinality(CallIds))

Launch(c) == LaunchWithin(c, Width)

\* runOne turns an error into an error result with the call's id.
Return(c, o) == /\ cpc' = [cpc EXCEPT ![c] = "done"]
                /\ outcomes' = [outcomes EXCEPT ![c] = o]

\* Registry.Resolve: the tool found first in a map's order, then the gate.
ResolveRefusing(c, refused) ==
    /\ CallsRun
    /\ cpc[c] = "resolve"
    /\ LET found == Lookup(byServer, Calls[c].name)
       IN  IF found = {} THEN Return(c, Failed(c)) /\ UNCHANGED tool
           ELSE \E p \in found :
                    IF p \in refused
                    THEN Return(c, Failed(c)) /\ UNCHANGED tool
                    ELSE /\ tool' = [tool EXCEPT ![c] = p]
                         /\ cpc' = [cpc EXCEPT ![c] = "session"]
                         /\ UNCHANGED outcomes
    /\ UNCHANGED <<startVars, serverVars, parallel, reached>>

Refused(c, skip) ==
    {p \in Lookup(byServer, Calls[c].name) : GateRefuses(p, DecodeArgs(Calls[c].args), skip)}

\* Mutant of Resolve: the flag of the server the name seems to spell decides.
ResolveBySpelling(c) ==
    ResolveRefusing(c, IF SplitName(Calls[c].name).server \in Skip THEN {} ELSE Refused(c, {}))

Resolve(c) == ResolveRefusing(c, Refused(c, Skip))

\* Manager.CallTool reads the session under the lock.
FindSession(c) ==
    /\ CallsRun
    /\ cpc[c] = "session"
    /\ IF tool[c].server \in sessions
       THEN cpc' = [cpc EXCEPT ![c] = "send"] /\ UNCHANGED outcomes
       ELSE Return(c, Failed(c))
    /\ UNCHANGED <<startVars, serverVars, parallel, tool, reached>>

\* The request is written to the session that was found, closed since or not.
Send(c) ==
    /\ CallsRun
    /\ cpc[c] = "send"
    /\ IF conn[tool[c].server] = "open"
       THEN /\ cpc' = [cpc EXCEPT ![c] = "await"]
            /\ reached' = reached \cup {[call |-> c, tool |-> tool[c],
                                         args |-> DecodeArgs(Calls[c].args)]}
            /\ UNCHANGED outcomes
       ELSE Return(c, Failed(c)) /\ UNCHANGED reached
    /\ UNCHANGED <<startVars, serverVars, parallel, tool>>

Answer(c, o) ==
    /\ CallsRun
    /\ cpc[c] = "await"
    /\ conn[tool[c].server] = "open"
    /\ Return(c, o)
    /\ UNCHANGED <<startVars, serverVars, parallel, tool, reached>>

\* The answer to tools/call; an SSE server's is one line out of the pump.
Reply(c) ==
    /\ cpc[c] = "await"
    /\ cfg[tool[c].server].transport = "sse"
           => \E lines \in ReplyEvents : Len(Pumped(lines, 1)) = 1
    /\ \E a \in Answers : Answer(c, [id |-> Calls[c].id, result |-> ToResult(a)])

\* A JSON-RPC error, the end of the caller's context, or a connection that
\* closed while the call waited.
CallFail(c) ==
    /\ CallsRun
    /\ cpc[c] = "await"
    /\ Return(c, Failed(c))
    /\ UNCHANGED <<startVars, serverVars, parallel, tool, reached>>

(***************************************************************************)
(* Failure and shutdown                                                     *)
(***************************************************************************)

\* A line does not parse: the read loop fails the calls and ends, the process
\* or the stream stays.
ServerGarbles(s) ==
    /\ phase \notin {"exited", "aborted"}
    /\ conn[s] = "open"
    /\ SetConn(s, "stopped")
    /\ UNCHANGED <<startVars, spc, listed, byServer, sessions, status, closing, callVars>>

\* A server dies, or the cancelled context kills its process or stream.  The
\* manager is told nothing: status and tools stay.
ServerDies(s) ==
    /\ phase \notin {"exited", "aborted"}
    /\ conn[s] \in {"open", "stopped"}
    /\ SetConn(s, "dead")
    /\ UNCHANGED <<startVars, spc, listed, byServer, sessions, status, closing, callVars>>

Signal ==
    /\ phase \in {"connect", "serve"}
    /\ ~signalled
    /\ signalled' = TRUE
    /\ UNCHANGED <<raw, cfg, phase, serverVars, callVars>>

\* ListenAndServe leaves its select and waits for the handlers.
Shutdown ==
    /\ phase = "serve"
    /\ signalled
    /\ phase' = "shutdown"
    /\ UNCHANGED <<raw, cfg, signalled, serverVars, callVars>>

\* The listener fails, or a handler, of a tool call or any other, outlives the
\* five seconds it is given: the process exits past the deferred Close.
FailedExit(from) ==
    /\ phase = from
    /\ phase' = "aborted"
    /\ UNCHANGED <<raw, cfg, signalled, serverVars, callVars>>
ListenFail == FailedExit("serve")
ShutdownTimeout == FailedExit("shutdown")

\* The handlers are done, and the deferred Manager.Close runs: its part under
\* Manager.mu.
HandlersDone == \/ \A c \in CallIds : cpc[c] = "queued"
                \/ \A c \in CallIds : cpc[c] = "done"
CloseStart ==
    /\ phase = "shutdown"
    /\ HandlersDone
    /\ phase' = "close"
    /\ closing' = sessions
    /\ sessions' = {}
    /\ status' = [s \in Servers |-> IF status[s] = NoStatus THEN NoStatus
                                    ELSE Status("disconnected", status[s].tools)]
    /\ UNCHANGED <<raw, cfg, signalled, spc, conn, listed, byServer, callVars>>

\* Each session is closed, stdioStream.Close killing a process that stays, and
\* its tools leave the registry.  Nobody else is left to see one without the
\* other.
CloseOne(s) ==
    /\ phase = "close"
    /\ s \in closing
    /\ SetConn(s, AfterClose(s))
    /\ byServer' = [byServer EXCEPT ![s] = {}]
    /\ closing' = closing \ {s}
    /\ UNCHANGED <<startVars, spc, listed, sessions, status, callVars>>

\* Mutant of CloseSession: it waits for the server to be alive.
CloseAlive(s) == conn[s] = "open" /\ CloseOne(s)

CloseSession(s) == CloseOne(s)

Exit ==
    /\ phase = "close"
    /\ closing = {}
    /\ phase' = "exited"
    /\ UNCHANGED <<raw, cfg, signalled, serverVars, callVars>>

ConnectStep(s) ==
    \/ DialOk(s) \/ DialFail(s) \/ Written(s) \/ InitReply(s)
    \/ ListReply(s) \/ HandshakeFail(s) \/ Pool(s)
CallStep(c) ==
    \/ Launch(c) \/ Resolve(c) \/ FindSession(c) \/ Send(c) \/ Reply(c) \/ CallFail(c)
CloseStep == ShutdownTimeout \/ CloseStart \/ (\E s \in Servers : CloseSession(s)) \/ Exit

Next ==
    \/ Load \/ Store \/ Signal \/ Shutdown \/ ListenFail \/ CloseStep
    \/ \E s \in Servers : ConnectStep(s) \/ ServerGarbles(s) \/ ServerDies(s)
    \/ \E c \in CallIds : CallStep(c)

Spec == Init /\ [][Next]_vars

\* The program's own steps happen, the wait for the handlers ending with them or
\* with its five seconds; a server need never answer.  Once the signal came, what
\* waits for a server ends, because the context of Connect is the signal's; a
\* write to a pipe ends too, its process being killed.
Unblocked(s) ==
    /\ signalled
    /\ cfg[s].transport = "sse" => spc[s] \notin Posting
    /\ DialFail(s) \/ HandshakeFail(s)

FairSpec ==
    /\ Spec
    /\ WF_vars(Load) /\ WF_vars(Store) /\ WF_vars(Shutdown) /\ WF_vars(CloseStep)
    /\ \A s \in Servers : WF_vars(Pool(s)) /\ WF_vars(Unblocked(s))

(***************************************************************************)
(* What the routes report                                                   *)
(***************************************************************************)

\* Health, MCPServers and MCPTools.
Health == [servers |-> Cardinality({s \in Servers : status[s] # NoStatus}),
           connected |-> Cardinality({s \in Servers : status[s].state = "connected"}),
           tools |-> Cardinality(RegisteredTools(byServer))]

(***************************************************************************)
(* Properties                                                               *)
(***************************************************************************)

ToolNames == UNION UNION {Offers[s] : s \in Servers}
ToolLists == [Servers -> SUBSET ToolNames]
Tools == {NoTool} \cup [server : Servers, name : ToolNames]
Phases == {"load", "connect", "serve", "shutdown", "close", "exited", "aborted"}
ConnectPcs == Posting \cup {"idle", "dial", "init", "list", "pool", "failed", "connected"}
ConnStates == {"none", "open", "stopped", "dead", "closed"}
StatusStates == {"unlisted", "connected", "error", "disconnected"}
Statuses == [state : StatusStates, tools : Nat]
CallPcs == {"queued", "resolve", "session", "send", "await", "done"}

\* Every variable has its type.
TypeOK ==
    /\ raw \in RawConfigs
    /\ cfg = <<>> \/ (cfg = ParseConfig(raw) /\ \A s \in Servers : ValidServer(cfg[s]))
    /\ phase \in Phases
    /\ signalled \in BOOLEAN
    /\ spc \in [Servers -> ConnectPcs]
    /\ conn \in [Servers -> ConnStates]
    /\ listed \in ToolLists /\ byServer \in ToolLists
    /\ sessions \subseteq Servers /\ closing \subseteq Servers
    /\ status \in [Servers -> Statuses]
    /\ parallel \in BOOLEAN
    /\ cpc \in [CallIds -> CallPcs]
    /\ tool \in [CallIds -> Tools]
    /\ DOMAIN outcomes = CallIds
    /\ \A c \in CallIds : outcomes[c].id \in {0, Calls[c].id}

\* Whatever a server received passed the gate as the tool it was received for:
\* neither a high-risk tool outside the allowlist nor a sensitive argument
\* reaches a server that is not exempt, whichever of two tools of one name was
\* found (security.go, Registry.Resolve).
OnlyGatedCallsReach ==
    \A r \in reached :
        cfg[r.tool.server].skip
        \/ ((HighRisk(r.tool.name) =>
                 {r.tool.name, Calls[r.call].name} \cap AllowedTools # {})
            /\ "sensitive" \notin r.args)

\* The outcomes of Execute: each call gets one, under its own id and in its own
\* place; it is not a success unless one server, that offers the tool, received
\* the call, and no call is received twice; never are more calls in flight than
\* the ceiling, and a call in flight is not overtaken in sequential mode.
OutcomesFaithful ==
    /\ Cardinality(Running) <= Width
    /\ \A r1, r2 \in reached : r1.call = r2.call => r1 = r2
    /\ \A r \in reached : /\ FullName(r.tool.server, r.tool.name) = Calls[r.call].name
                           /\ r.tool.name \in listed[r.tool.server]
    /\ \A c \in CallIds : cpc[c] = "done" =>
           LET m == ToMessage(outcomes[c])
           IN  /\ m.id = Calls[c].id
               /\ m.error \/ \E r \in reached : r.call = c
    /\ ~parallel => \A c, d \in CallIds : c < d /\ cpc[d] # "queued" => cpc[c] = "done"

\* While the server serves, the sessions it holds, the tools it lists and the
\* status it reports are of the same servers.  A connection whose read loop still
\* runs is always of a session the manager holds, also where the process exits
\* past Close, and when Close has run none of them, no status and no tool is left
\* (Manager.Close "disconnects every server and clears the registry").  Nothing is
\* said of a transport whose read loop stopped at a bad line: no Close ends it
\* (conn.go:127).
ServersAccounted ==
    /\ phase \in {"serve", "shutdown", "aborted"} =>
           \A s \in Servers : conn[s] = "open" => s \in sessions
    /\ phase \in {"serve", "shutdown"} =>
           /\ {p.server : p \in RegisteredTools(byServer)} \subseteq sessions
           /\ Health.connected = Cardinality(sessions)
           /\ \A s \in sessions : status[s].tools = Cardinality(byServer[s])
    /\ phase = "exited" =>
           /\ \A s \in Servers : conn[s] # "open"
           /\ Health.connected = 0 /\ Health.tools = 0

\* A signal ends the process, whatever the servers do, unless the listener
\* failed or a POST of a handshake is never answered: SSE writes carry no
\* context (sseStream.Write).
InterruptStops ==
    signalled ~> (\/ phase \in {"exited", "aborted"}
                  \/ \E s \in Servers : /\ phase = "connect"
                                         /\ cfg[s].transport = "sse"
                                         /\ spc[s] \in Posting)
=============================================================================
