------------------------- MODULE McpManager_proofs --------------------------
(***************************************************************************)
(* Proofs about McpManager, for every set of servers, every config file     *)
(* and every sequence of tool calls.                                        *)
(***************************************************************************)
EXTENDS McpManager, FiniteSetTheorems, TLAPS

-----------------------------------------------------------------------------
(* The inductive invariant. *)

\* No call starts before the process serves, and from then on the config is the
\* parsed one.
StartInv ==
    /\ phase \in {"load", "connect"} =>
           /\ reached = {}
           /\ sessions = {}
           /\ \A c \in CallIds : cpc[c] = "queued"
           /\ \A s \in Servers : status[s] = NoStatus
    /\ phase = "load" => \A s \in Servers : spc[s] = "idle"
    /\ phase \notin {"load", "aborted"} =>
           /\ cfg = ParseConfig(raw)
           /\ \A s \in Servers : ValidServer(cfg[s])
           /\ \A s \in Servers : spc[s] = "idle" <=> ~cfg[s].enabled

\* The connection and the tools of a server, by the place its goroutine is at.
Opened == Posting \cup {"init", "list", "pool"}
ServerInv == \A s \in Servers :
    /\ IsFiniteSet(listed[s])
    /\ spc[s] \in {"idle", "dial"} => conn[s] = "none"
    /\ spc[s] = "failed" => conn[s] # "open"
    /\ spc[s] \in Opened => conn[s] \in {"open", "stopped", "dead"}
    /\ spc[s] # "connected" => byServer[s] = {}
    /\ byServer[s] \subseteq listed[s]
    /\ phase \in {"serve", "shutdown", "close", "exited"} =>
           spc[s] \in {"idle", "failed", "connected"}

\* After Store the sessions are the connected servers, with the tools they
\* listed; Close takes them down one by one.
SessionInv ==
    /\ phase \in {"serve", "shutdown"} =>
           /\ sessions = {s \in Servers : spc[s] = "connected"}
           /\ \A s \in Servers : (status[s].state = "connected") <=> (s \in sessions)
           /\ \A s \in sessions : status[s] = Status("connected", Cardinality(listed[s]))
    /\ phase \in {"connect", "serve", "shutdown"} =>
           \A s \in Servers : spc[s] = "connected" => byServer[s] = listed[s]
    /\ phase \in {"close", "exited"} =>
           /\ \A s \in Servers : status[s].state # "connected"
           /\ \A s \in Servers \ closing : conn[s] # "open" /\ byServer[s] = {}
    /\ phase = "exited" => closing = {}
    /\ phase = "aborted" => \A s \in Servers : conn[s] = "open" => s \in sessions

\* A call past the gate has a tool of its name, of a list some server gave, that
\* the gate lets through.
Passed(c, p) ==
    /\ FullName(p.server, p.name) = Calls[c].name
    /\ p.server \in Servers
    /\ p.name \in listed[p.server]
    /\ ~GateRefuses(p, DecodeArgs(Calls[c].args), Skip)
ToolInv == \A c \in CallIds : cpc[c] \in {"session", "send", "await"} => Passed(c, tool[c])

\* A server received the calls that wait for an answer, and some that are done.
ReachedInv ==
    /\ \A r \in reached : /\ r.call \in CallIds
                           /\ cpc[r.call] \in {"await", "done"}
                           /\ r.args = DecodeArgs(Calls[r.call].args)
                           /\ Passed(r.call, r.tool)
    /\ \A r1, r2 \in reached : r1.call = r2.call => r1 = r2
    /\ \A c \in CallIds : cpc[c] = "await" => \E r \in reached : r.call = c

\* What Execute returns in a call's place.
OutcomeInv == \A c \in CallIds : cpc[c] = "done" =>
    /\ outcomes[c].id = Calls[c].id
    /\ outcomes[c].result.isError \/ \E r \in reached : r.call = c

\* Calls are taken in order, and no more than the semaphore admits.
OrderInv ==
    /\ Cardinality(Running) <= Width
    /\ ~parallel => \A c, d \in CallIds : c < d /\ cpc[d] # "queued" => cpc[c] = "done"

IInv == /\ TypeOK
        /\ StartInv
        /\ ServerInv
        /\ SessionInv
        /\ ToolInv
        /\ ReachedInv
        /\ OutcomeInv
        /\ OrderInv

-----------------------------------------------------------------------------
(* Operators and frames. *)

\* What the registry finds under a name is a tool of some server's list.
LEMMA LookupFacts ==
    \A tools, full : \A p \in Lookup(tools, full) :
        /\ p.server \in DOMAIN tools
        /\ p.name \in tools[p.server]
        /\ FullName(p.server, p.name) = full
        /\ p = [server |-> p.server, name |-> p.name]
BY DEF Lookup, RegisteredTools

\* The lists servers offer are made of tool names.
LEMMA OfferFacts ==
    \A s \in Servers : \A tools \in Offers[s] : tools \in SUBSET ToolNames /\ IsFiniteSet(tools)
BY ServersAssumption DEF ToolNames

\* A parsed config has the servers of its file.
LEMMA ParsedServers ==
    raw \in RawConfigs => DOMAIN ParseConfig(raw) = Servers
BY ServersAssumption DEF ParseConfig

\* A connect goroutine touches nothing but its own server.
LEMMA ConnectFrame ==
    ASSUME NEW s \in Servers, ConnectStep(s)
    PROVE  /\ phase = "connect"
           /\ UNCHANGED <<startVars, sessions, status, closing, callVars>>
BY DEF ConnectStep, DialOk, DialFail, Written, InitReply, ListReply, HandshakeFail, AfterClose, Abandon, Pool,
       At, startVars, callVars

\* A call touches no server, and runs while the process serves or ends.
LEMMA CallFrame ==
    ASSUME NEW c \in CallIds, CallStep(c)
    PROVE  /\ CallsRun
           /\ UNCHANGED <<startVars, serverVars, parallel>>
BY DEF CallStep, Launch, LaunchWithin, Resolve, ResolveRefusing, FindSession, Send, Reply, Answer,
       CallFail, CallsRun, startVars, serverVars

\* The kinds of steps.
LEMMA StepKinds ==
    ASSUME [Next]_vars
    PROVE  \/ Load \/ Store \/ Signal \/ Shutdown \/ ListenFail \/ ShutdownTimeout
           \/ CloseStart \/ Exit \/ UNCHANGED vars
           \/ \E s \in Servers : ConnectStep(s) \/ ServerGarbles(s) \/ ServerDies(s) \/ CloseSession(s)
           \/ \E c \in CallIds : CallStep(c)
BY DEF Next, CloseStep

\* Where a connect goroutine can come from and go to.
LEMMA ConnectPcNames ==
    /\ {"idle", "dial", "post init", "init", "notify", "post list", "list", "pool", "failed",
        "connected"} = ConnectPcs
    /\ {"post init", "init", "notify", "post list", "list", "pool"} = Opened
BY DEF ConnectPcs, Opened, Posting

-----------------------------------------------------------------------------
(* Types. *)

\* The first states are well typed.
LEMMA InitType == Init => TypeOK
<1> SUFFICES ASSUME Init
             PROVE  TypeOK
  OBVIOUS
<1> USE DEF Init
<1>1. spc \in [Servers -> ConnectPcs] /\ conn \in [Servers -> ConnStates]
  BY ConnectPcNames DEF ConnStates
<1>2. listed \in ToolLists /\ byServer \in ToolLists
  BY DEF ToolLists
<1>3. NoStatus \in Statuses
  BY DEF NoStatus, Status, Statuses, StatusStates
<1>4. status \in [Servers -> Statuses]
  BY <1>3
<1>5. cpc \in [CallIds -> CallPcs] /\ tool \in [CallIds -> Tools]
  BY DEF CallPcs, Tools
<1>6. DOMAIN outcomes = CallIds /\ \A c \in CallIds : outcomes[c].id \in {0, Calls[c].id}
  BY DEF NoOutcome
<1>7. signalled \in BOOLEAN /\ phase \in Phases
  BY DEF Phases
<1>8. parallel \in BOOLEAN
  BY Zenon
<1> QED BY <1>1, <1>2, <1>4, <1>5, <1>6, <1>7, <1>8 DEF TypeOK

\* A connect goroutine keeps the types of what it touches.
LEMMA ConnectType ==
    ASSUME TypeOK, NEW s \in Servers, ConnectStep(s)
    PROVE  /\ spc' \in [Servers -> ConnectPcs]
           /\ conn' \in [Servers -> ConnStates]
           /\ listed' \in ToolLists /\ byServer' \in ToolLists
<1>1. spc' \in [Servers -> ConnectPcs]
  BY ConnectPcNames DEF ConnectStep, DialOk, DialFail, Written, InitReply, ListReply, HandshakeFail,
     AfterClose, Abandon, Pool, Advance, TypeOK
<1>2. "open" \in ConnStates /\ "closed" \in ConnStates
  BY DEF ConnStates
<1>3. conn' \in [Servers -> ConnStates]
  BY <1>2 DEF ConnectStep, DialOk, DialFail, Written, InitReply, ListReply, HandshakeFail,
     AfterClose, Abandon, Pool, SetConn, TypeOK
<1>4. listed' \in ToolLists
  <2>1. listed' = listed \/ \E tools \in Offers[s] : listed' = [listed EXCEPT ![s] = tools]
    BY DEF ConnectStep, DialOk, DialFail, Written, InitReply, ListReply, HandshakeFail, AfterClose, Abandon, Pool
  <2> QED BY <2>1, OfferFacts DEF ToolLists, TypeOK
<1>5. byServer' \in ToolLists
  BY DEF ConnectStep, DialOk, DialFail, Written, InitReply, ListReply, HandshakeFail,
     AfterClose, Abandon, Pool, ToolLists, TypeOK
<1> QED BY <1>1, <1>3, <1>4, <1>5

\* So does a call.
LEMMA CallType ==
    ASSUME TypeOK, NEW c \in CallIds, CallStep(c)
    PROVE  /\ cpc' \in [CallIds -> CallPcs]
           /\ tool' \in [CallIds -> Tools]
           /\ DOMAIN outcomes' = CallIds
           /\ \A d \in CallIds : outcomes'[d].id \in {0, Calls[d].id}
<1>1. /\ "resolve" \in CallPcs /\ "session" \in CallPcs /\ "send" \in CallPcs
      /\ "await" \in CallPcs /\ "done" \in CallPcs
  BY DEF CallPcs
<1>2. cpc' \in [CallIds -> CallPcs]
  BY <1>1 DEF CallStep, Launch, LaunchWithin, Resolve, ResolveRefusing, FindSession, Send, Reply,
     Answer, CallFail, Return, TypeOK
<1>3. \A p \in Lookup(byServer, Calls[c].name) : p \in Tools
  BY LookupFacts DEF TypeOK, ToolLists, Tools
<1>4. tool' \in [CallIds -> Tools]
  BY <1>3 DEF CallStep, Launch, LaunchWithin, Resolve, ResolveRefusing, FindSession, Send, Reply,
     Answer, CallFail, TypeOK
<1>5. \/ outcomes' = outcomes
      \/ \E o : outcomes' = [outcomes EXCEPT ![c] = o] /\ o.id = Calls[c].id
  BY DEF CallStep, Launch, LaunchWithin, Resolve, ResolveRefusing, FindSession, Send, Reply,
     Answer, CallFail, Return, Failed
<1>6. /\ DOMAIN outcomes' = CallIds
      /\ \A d \in CallIds : outcomes'[d].id \in {0, Calls[d].id}
  BY <1>5 DEF TypeOK
<1> QED BY <1>2, <1>4, <1>6

\* Every step keeps the types.
LEMMA TypeStep == ServerInv /\ TypeOK /\ [Next]_vars => TypeOK'
<1> SUFFICES ASSUME ServerInv, TypeOK, [Next]_vars
             PROVE  TypeOK'
  OBVIOUS
<1>1. CASE Load
  <2>1. cfg' = <<>> \/ (cfg' = ParseConfig(raw') /\ \A s \in Servers : ValidServer(cfg'[s]))
    BY <1>1, ServersAssumption DEF Load, TypeOK, ConfigValid, ParseConfig
  <2>2. spc' \in [Servers -> ConnectPcs] /\ phase' \in Phases
    BY <1>1, ConnectPcNames DEF Load, TypeOK, Phases
  <2>3. UNCHANGED <<raw, signalled, conn, listed, byServer, sessions, status, closing, callVars>>
    BY <1>1 DEF Load
  <2> QED BY <2>1, <2>2, <2>3 DEF TypeOK, callVars
<1>2. CASE Store
  <2>1. \A s \in Servers : Cardinality(listed[s]) \in Nat
    BY FS_CardinalityType DEF ServerInv
  <2>2. /\ \A n \in Nat : Status("connected", n) \in Statuses
        /\ Status("error", 0) \in Statuses
    BY DEF Status, Statuses, StatusStates
  <2>3. status' \in [Servers -> Statuses]
    BY <1>2, <2>1, <2>2 DEF Store, TypeOK
  <2>4. cfg # <<>> => DOMAIN cfg = Servers
    BY ParsedServers DEF TypeOK
  <2>5. sessions' \subseteq Servers
    BY <1>2, <2>4 DEF Store, Enabled
  <2>6. phase' \in Phases
    BY <1>2 DEF Store, Phases
  <2>7. UNCHANGED <<raw, cfg, signalled, spc, conn, listed, byServer, closing, callVars>>
    BY <1>2 DEF Store
  <2> QED BY <2>3, <2>5, <2>6, <2>7 DEF TypeOK, callVars
<1>3. CASE Signal \/ Shutdown \/ ListenFail \/ ShutdownTimeout \/ Exit
  <2>1. phase' \in Phases /\ signalled' \in BOOLEAN
    BY <1>3 DEF Signal, Shutdown, FailedExit, ListenFail, ShutdownTimeout, Exit, Phases, TypeOK
  <2>2. UNCHANGED <<raw, cfg, serverVars, callVars>>
    BY <1>3 DEF Signal, Shutdown, FailedExit, ListenFail, ShutdownTimeout, Exit
  <2> QED BY <2>1, <2>2 DEF TypeOK, serverVars, callVars
<1>4. CASE CloseStart
  <2>1. \A n \in Nat : Status("disconnected", n) \in Statuses
    BY DEF Status, Statuses, StatusStates
  <2>2. NoStatus \in Statuses /\ \A s \in Servers : status[s].tools \in Nat
    BY DEF TypeOK, Statuses, NoStatus, Status, StatusStates
  <2>3. status' \in [Servers -> Statuses]
    BY <1>4, <2>1, <2>2 DEF CloseStart
  <2>4. closing' \subseteq Servers /\ sessions' \subseteq Servers /\ phase' \in Phases
    BY <1>4 DEF CloseStart, TypeOK, Phases
  <2>5. UNCHANGED <<raw, cfg, signalled, spc, conn, listed, byServer, callVars>>
    BY <1>4 DEF CloseStart
  <2> QED BY <2>3, <2>4, <2>5 DEF TypeOK, callVars
<1>5. CASE UNCHANGED vars
  BY <1>5 DEF vars, startVars, serverVars, callVars, TypeOK
<1>6. ASSUME NEW s \in Servers, ConnectStep(s)
      PROVE  TypeOK'
  <2>1. UNCHANGED <<startVars, sessions, status, closing, callVars>>
    BY <1>6, ConnectFrame
  <2>2. /\ spc' \in [Servers -> ConnectPcs]
        /\ conn' \in [Servers -> ConnStates]
        /\ listed' \in ToolLists /\ byServer' \in ToolLists
    BY <1>6, ConnectType
  <2> QED BY <2>1, <2>2 DEF TypeOK, startVars, callVars
<1>7. ASSUME NEW s \in Servers, ServerGarbles(s) \/ ServerDies(s) \/ CloseSession(s)
      PROVE  TypeOK'
  <2>1. conn' \in [Servers -> ConnStates]
    BY <1>7 DEF ServerGarbles, ServerDies, CloseSession, CloseOne, AfterClose, SetConn, TypeOK, ConnStates
  <2>2. byServer' \in ToolLists /\ closing' \subseteq Servers
    BY <1>7 DEF ServerGarbles, ServerDies, CloseSession, CloseOne, AfterClose, TypeOK, ToolLists
  <2>3. UNCHANGED <<startVars, spc, listed, sessions, status, callVars>>
    BY <1>7 DEF ServerGarbles, ServerDies, CloseSession, CloseOne, AfterClose
  <2> QED BY <2>1, <2>2, <2>3 DEF TypeOK, startVars, callVars
<1>8. ASSUME NEW c \in CallIds, CallStep(c)
      PROVE  TypeOK'
  <2>1. UNCHANGED <<startVars, serverVars, parallel>>
    BY <1>8, CallFrame
  <2>2. /\ cpc' \in [CallIds -> CallPcs]
        /\ tool' \in [CallIds -> Tools]
        /\ DOMAIN outcomes' = CallIds
        /\ \A d \in CallIds : outcomes'[d].id \in {0, Calls[d].id}
    BY <1>8, CallType
  <2> QED BY <2>1, <2>2 DEF TypeOK, startVars, serverVars
<1> QED BY <1>1, <1>2, <1>3, <1>4, <1>5, <1>6, <1>7, <1>8, StepKinds

-----------------------------------------------------------------------------
(* Startup, the servers and the sessions. *)

\* Load decides who is connected, and calls come after Store.
LEMMA StartStep == TypeOK /\ StartInv /\ ServerInv /\ [Next]_vars => StartInv'
<1> SUFFICES ASSUME TypeOK, StartInv, ServerInv, [Next]_vars
             PROVE  StartInv'
  OBVIOUS
<1>1. CASE Load
  <2>1. /\ phase = "load"
        /\ UNCHANGED <<raw, sessions, status, callVars>>
    BY <1>1 DEF Load
  <2>2. DOMAIN raw = Servers
    BY ServersAssumption DEF TypeOK
  <2>3. CASE ~ConfigValid(raw)
    <3>1. phase' = "aborted"
      BY <1>1, <2>3 DEF Load
    <3> QED BY <2>1, <3>1 DEF StartInv
  <2>4. CASE ConfigValid(raw)
    <3>1. /\ cfg' = ParseConfig(raw)
          /\ phase' = "connect"
          /\ \A s \in Servers : spc'[s] = IF ParseConfig(raw)[s].enabled THEN "dial" ELSE "idle"
      BY <1>1, <2>4 DEF Load
    <3>2. \A s \in Servers : ValidServer(ParseConfig(raw)[s])
      BY <2>2, <2>4 DEF ConfigValid, ParseConfig
    <3>3. \A s \in Servers : spc'[s] = "idle" <=> ~cfg'[s].enabled
      BY <3>1
    <3>4. \A s \in Servers : ValidServer(cfg'[s])
      BY <3>1, <3>2
    <3> QED BY <2>1, <3>1, <3>3, <3>4 DEF StartInv, callVars
  <2> QED BY <2>3, <2>4
<1>2. CASE Store
  <2>1. UNCHANGED <<raw, cfg, spc>> /\ phase = "connect" /\ phase' \in {"serve", "aborted"}
    BY <1>2 DEF Store
  <2> QED BY <2>1 DEF StartInv
<1>3. CASE Signal \/ Shutdown \/ ListenFail \/ ShutdownTimeout \/ Exit
  <2>1. /\ UNCHANGED <<raw, cfg, serverVars, callVars>>
        /\ phase' = phase \/ (phase' \notin {"load", "connect"} /\ phase # "load")
        /\ phase = "aborted" => phase' = "aborted"
    BY <1>3 DEF Signal, Shutdown, FailedExit, ListenFail, ShutdownTimeout, Exit
  <2> QED BY <2>1 DEF StartInv, serverVars, callVars
<1>4. CASE CloseStart
  <2>1. UNCHANGED <<raw, cfg, spc>> /\ phase = "shutdown" /\ phase' = "close"
    BY <1>4 DEF CloseStart
  <2> QED BY <2>1 DEF StartInv
<1>5. CASE UNCHANGED vars
  BY <1>5 DEF vars, startVars, serverVars, callVars, StartInv
<1>6. ASSUME NEW s \in Servers, ConnectStep(s)
      PROVE  StartInv'
  <2>1. /\ phase = "connect"
        /\ UNCHANGED <<startVars, sessions, status, closing, callVars>>
    BY <1>6, ConnectFrame
  <2>2. \E p \in ConnectPcs \ {"idle"} : spc' = [spc EXCEPT ![s] = p] /\ spc[s] # "idle"
    BY <1>6, ConnectPcNames DEF ConnectStep, DialOk, DialFail, Written, InitReply, ListReply,
       HandshakeFail, AfterClose, Abandon, Pool, At, Advance, Posting
  <2>3. \A q \in Servers : (spc'[q] = "idle") <=> (spc[q] = "idle")
    BY <2>2 DEF TypeOK
  <2> QED BY <2>1, <2>3 DEF StartInv, startVars, callVars
<1>7. ASSUME NEW s \in Servers, ServerGarbles(s) \/ ServerDies(s) \/ CloseSession(s)
      PROVE  StartInv'
  <2>1. UNCHANGED <<startVars, spc, sessions, status, callVars>>
    BY <1>7 DEF ServerGarbles, ServerDies, CloseSession, CloseOne, AfterClose
  <2> QED BY <2>1 DEF StartInv, startVars, callVars
<1>8. ASSUME NEW c \in CallIds, CallStep(c)
      PROVE  StartInv'
  <2>1. UNCHANGED <<startVars, serverVars>> /\ phase \notin {"load", "connect"}
    BY <1>8, CallFrame DEF CallsRun
  <2> QED BY <2>1 DEF StartInv, startVars, serverVars
<1> QED BY <1>1, <1>2, <1>3, <1>4, <1>5, <1>6, <1>7, <1>8, StepKinds

\* What a connect goroutine does to its own server, and that it leaves the
\* others alone.
LEMMA ServerStep == TypeOK /\ StartInv /\ ServerInv /\ [Next]_vars => ServerInv'
<1> SUFFICES ASSUME TypeOK, StartInv, ServerInv, [Next]_vars
             PROVE  ServerInv'
  OBVIOUS
<1>1. CASE Load
  <2>1. /\ phase' \in {"connect", "aborted"}
        /\ \A s \in Servers : spc'[s] \in {"idle", "dial"} /\ spc[s] = "idle"
    BY <1>1 DEF Load, StartInv
  <2>2. UNCHANGED <<conn, listed, byServer>>
    BY <1>1 DEF Load
  <2> QED BY <2>1, <2>2 DEF ServerInv, Opened, Posting
<1>2. CASE Store
  <2>1. /\ phase = "connect"
        /\ cfg = ParseConfig(raw)
        /\ \A s \in Servers : spc[s] = "idle" <=> ~cfg[s].enabled
        /\ DOMAIN cfg = Servers
    BY <1>2, ParsedServers DEF Store, StartInv, TypeOK
  <2>2. \A s \in Servers : spc[s] \in {"idle", "failed", "connected"}
    BY <1>2, <2>1 DEF Store, Enabled
  <2>3. UNCHANGED <<spc, conn, listed, byServer>>
    BY <1>2 DEF Store
  <2> QED BY <2>2, <2>3 DEF ServerInv
<1>3. CASE Signal \/ Shutdown \/ ListenFail \/ ShutdownTimeout \/ Exit \/ CloseStart
  <2>1. /\ UNCHANGED <<spc, conn, listed, byServer>>
        /\ \/ phase' \notin {"serve", "shutdown", "close", "exited"}
           \/ phase \in {"serve", "shutdown", "close", "exited"}
    BY <1>3 DEF Signal, Shutdown, FailedExit, ListenFail, ShutdownTimeout, Exit, CloseStart, serverVars
  <2> QED BY <2>1 DEF ServerInv
<1>4. CASE UNCHANGED vars
  BY <1>4 DEF vars, startVars, serverVars, ServerInv
<1>5. ASSUME NEW s \in Servers, ConnectStep(s)
      PROVE  ServerInv'
  <2>1. phase = "connect" /\ phase' = "connect"
    BY <1>5, ConnectFrame DEF startVars
  <2>2. \A q \in Servers \ {s} :
            spc'[q] = spc[q] /\ conn'[q] = conn[q] /\ listed'[q] = listed[q] /\ byServer'[q] = byServer[q]
    BY <1>5 DEF ConnectStep, DialOk, DialFail, Written, InitReply, ListReply, HandshakeFail, AfterClose, Abandon,
       Pool, SetConn, Advance, TypeOK, ToolLists
  <2>3. /\ IsFiniteSet(listed'[s])
        /\ spc'[s] \in {"idle", "dial"} => conn'[s] = "none"
        /\ spc'[s] = "failed" => conn'[s] # "open"
        /\ spc'[s] \in Opened => conn'[s] \in {"open", "stopped", "dead"}
        /\ spc'[s] # "connected" => byServer'[s] = {}
        /\ byServer'[s] \subseteq listed'[s]
    <3>1. CASE DialOk(s)
      BY <3>1 DEF DialOk, At, SetConn, Advance, ServerInv, TypeOK, Opened, Posting
    <3>2. CASE DialFail(s)
      BY <3>2 DEF DialFail, At, Advance, ServerInv, TypeOK, Opened, Posting
    <3>3. CASE Written(s)
      BY <3>3 DEF Written, Advance, ServerInv, TypeOK, Opened, Posting
    <3>4. CASE InitReply(s)
      BY <3>4 DEF InitReply, At, Advance, ServerInv, TypeOK, Opened, Posting
    <3>5. CASE ListReply(s)
      <4>1. PICK tools \in Offers[s] : listed' = [listed EXCEPT ![s] = tools]
        BY <3>5 DEF ListReply
      <4>2. listed'[s] = tools /\ IsFiniteSet(tools)
        BY <4>1, OfferFacts DEF TypeOK, ToolLists
      <4>3. spc[s] = "list" /\ spc'[s] = "pool" /\ UNCHANGED <<conn, byServer>>
        BY <3>5 DEF ListReply, At, Advance, TypeOK
      <4>4. byServer[s] = {} /\ conn[s] \in {"open", "stopped", "dead"}
        BY <4>3 DEF ServerInv, Opened, Posting
      <4> QED BY <4>2, <4>3, <4>4
    <3>6. CASE HandshakeFail(s)
      BY <3>6 DEF HandshakeFail, AfterClose, Abandon, SetConn, Advance, ServerInv, TypeOK, Opened, Posting
    <3>7. CASE Pool(s)
      BY <3>7 DEF Pool, At, Advance, ServerInv, TypeOK, ToolLists, Opened, Posting
    <3> QED BY <1>5, <3>1, <3>2, <3>3, <3>4, <3>5, <3>6, <3>7 DEF ConnectStep
  <2>4. ASSUME NEW q \in Servers
        PROVE  /\ IsFiniteSet(listed'[q])
               /\ spc'[q] \in {"idle", "dial"} => conn'[q] = "none"
               /\ spc'[q] = "failed" => conn'[q] # "open"
               /\ spc'[q] \in Opened => conn'[q] \in {"open", "stopped", "dead"}
               /\ spc'[q] # "connected" => byServer'[q] = {}
               /\ byServer'[q] \subseteq listed'[q]
    BY <2>2, <2>3 DEF ServerInv
  <2> QED BY <2>1, <2>4 DEF ServerInv
<1>6. ASSUME NEW s \in Servers, ServerGarbles(s) \/ ServerDies(s)
      PROVE  ServerInv'
  <2>1. /\ conn[s] \in {"open", "stopped"}
        /\ conn' = [conn EXCEPT ![s] = "stopped"] \/ conn' = [conn EXCEPT ![s] = "dead"]
        /\ UNCHANGED <<phase, spc, listed, byServer>>
    BY <1>6 DEF ServerGarbles, ServerDies, SetConn, startVars
  <2>2. \A q \in Servers :
            conn'[q] = conn[q] \/ (conn[q] \in {"open", "stopped"} /\ conn'[q] \in {"stopped", "dead"})
    BY <2>1 DEF TypeOK
  <2> QED BY <2>1, <2>2 DEF ServerInv
<1>7. ASSUME NEW s \in Servers, CloseSession(s)
      PROVE  ServerInv'
  <2>1. /\ phase = "close"
        /\ UNCHANGED <<phase, spc, listed>>
        /\ \A q \in Servers : byServer'[q] \in {byServer[q], {}}
        /\ conn' = [conn EXCEPT ![s] = AfterClose(s)]
    BY <1>7 DEF CloseSession, CloseOne, SetConn, startVars, TypeOK, ToolLists
  <2>2. \A q \in Servers : spc[q] \in {"idle", "failed", "connected"}
    BY <2>1 DEF ServerInv
  <2>3. \A q \in Servers : conn'[q] = conn[q] \/ (conn[q] = "open" /\ conn'[q] = "closed")
    BY <2>1 DEF TypeOK, AfterClose
  <2> QED BY <2>1, <2>2, <2>3 DEF ServerInv, Opened, Posting
<1>8. ASSUME NEW c \in CallIds, CallStep(c)
      PROVE  ServerInv'
  <2>1. UNCHANGED <<startVars, serverVars>>
    BY <1>8, CallFrame
  <2> QED BY <2>1 DEF ServerInv, startVars, serverVars
<1> QED BY <1>1, <1>2, <1>3, <1>4, <1>5, <1>6, <1>7, <1>8, StepKinds

\* Store makes sessions, tools and status agree, Close takes them down together.
LEMMA SessionStep ==
    TypeOK /\ StartInv /\ ServerInv /\ SessionInv /\ [Next]_vars => SessionInv'
<1> SUFFICES ASSUME TypeOK, StartInv, ServerInv, SessionInv, [Next]_vars
             PROVE  SessionInv'
  OBVIOUS
<1>1. CASE Load
  <2>1. /\ phase = "load" /\ phase' \in {"connect", "aborted"}
        /\ UNCHANGED <<conn, sessions>>
        /\ \A s \in Servers : spc'[s] # "connected" /\ conn[s] = "none"
    BY <1>1 DEF Load, StartInv, ServerInv
  <2> QED BY <2>1 DEF SessionInv
<1>2. CASE Store
  <2>1. /\ phase = "connect"
        /\ \A s \in Servers : spc[s] = "idle" <=> ~cfg[s].enabled
        /\ DOMAIN cfg = Servers
    BY <1>2, ParsedServers DEF Store, StartInv, TypeOK
  <2>2. /\ {s \in Enabled : spc[s] = "connected"} = {s \in Servers : spc[s] = "connected"}
        /\ \A s \in Servers : spc[s] \in {"idle", "failed", "connected"}
    BY <1>2, <2>1 DEF Store, Enabled
  <2>3. /\ sessions' = {s \in Servers : spc[s] = "connected"}
        /\ \A s \in Servers : status'[s] = IF s \in sessions' THEN Status("connected", Cardinality(listed[s]))
                                           ELSE IF s \in Enabled THEN Status("error", 0)
                                           ELSE NoStatus
        /\ phase' = "serve" \/ (phase' = "aborted" /\ sessions' = {})
        /\ UNCHANGED <<spc, conn, listed, byServer>>
    BY <1>2, <2>1, <2>2 DEF Store, StartInv
  <2>4. \A s \in Servers : (status'[s].state = "connected") <=> s \in sessions'
    <3>1. /\ \A n : Status("connected", n).state = "connected"
          /\ Status("error", 0).state # "connected"
          /\ NoStatus.state # "connected"
      BY DEF Status, NoStatus
    <3> QED BY <2>3, <3>1
  <2>5. \A s \in Servers : spc[s] # "connected" => conn[s] # "open"
    BY <2>2 DEF ServerInv
  <2> QED BY <2>1, <2>3, <2>4, <2>5 DEF SessionInv
<1>3. CASE Signal \/ Shutdown
  <2>1. /\ UNCHANGED <<spc, conn, listed, byServer, sessions, status, closing>>
        /\ \/ phase' = phase /\ phase \in {"connect", "serve"}
           \/ phase = "serve" /\ phase' = "shutdown"
    BY <1>3 DEF Signal, Shutdown, serverVars
  <2> QED BY <2>1 DEF SessionInv
<1>4. CASE ListenFail \/ ShutdownTimeout
  <2>1. /\ phase \in {"serve", "shutdown"} /\ phase' = "aborted"
        /\ UNCHANGED <<spc, conn, sessions>>
    BY <1>4 DEF FailedExit, ListenFail, ShutdownTimeout, serverVars
  <2>2. \A s \in Servers : conn[s] = "open" => s \in sessions
    BY <2>1 DEF SessionInv, ServerInv
  <2> QED BY <2>1, <2>2 DEF SessionInv
<1>5. CASE CloseStart
  <2>1. /\ phase = "shutdown" /\ phase' = "close"
        /\ closing' = sessions
        /\ UNCHANGED <<spc, conn, byServer>>
        /\ \A s \in Servers : status'[s] \in {NoStatus, Status("disconnected", status[s].tools)}
    BY <1>5 DEF CloseStart
  <2>2. \A s \in Servers : status'[s].state # "connected"
    BY <2>1 DEF NoStatus, Status
  <2>3. \A s \in Servers \ sessions : conn[s] # "open" /\ byServer[s] = {}
    BY <2>1 DEF SessionInv, ServerInv
  <2> QED BY <2>1, <2>2, <2>3 DEF SessionInv
<1>6. CASE Exit
  BY <1>6 DEF Exit, SessionInv, serverVars
<1>7. CASE UNCHANGED vars
  BY <1>7 DEF vars, startVars, serverVars, SessionInv
<1>8. ASSUME NEW s \in Servers, ConnectStep(s)
      PROVE  SessionInv'
  <2>1. phase = "connect" /\ phase' = "connect"
    BY <1>8, ConnectFrame DEF startVars
  <2>2. ASSUME NEW q \in Servers, spc'[q] = "connected"
        PROVE  byServer'[q] = listed'[q]
    <3>1. CASE Pool(s)
      BY <2>1, <2>2, <3>1 DEF Pool, At, Advance, SessionInv, TypeOK, ToolLists
    <3>2. CASE ~Pool(s)
      <4>1. \E p \in ConnectPcs \ {"connected"} : spc' = [spc EXCEPT ![s] = p] /\ byServer' = byServer
        BY <1>8, <3>2, ConnectPcNames DEF ConnectStep, DialOk, DialFail, Written, InitReply, ListReply,
           HandshakeFail, AfterClose, Abandon, Advance
      <4>2. q # s /\ spc[q] = "connected"
        BY <2>2, <4>1 DEF TypeOK
      <4>3. \A r \in Servers \ {s} : listed'[r] = listed[r]
        BY <1>8 DEF ConnectStep, DialOk, DialFail, Written, InitReply, ListReply,
           HandshakeFail, AfterClose, Abandon, Pool, TypeOK, ToolLists
      <4> QED BY <2>1, <4>1, <4>2, <4>3 DEF SessionInv
    <3> QED BY <3>1, <3>2
  <2> QED BY <2>1, <2>2 DEF SessionInv
<1>9. ASSUME NEW s \in Servers, ServerGarbles(s) \/ ServerDies(s)
      PROVE  SessionInv'
  <2>1. conn' = [conn EXCEPT ![s] = "stopped"] \/ conn' = [conn EXCEPT ![s] = "dead"]
    BY <1>9 DEF ServerGarbles, ServerDies, SetConn
  <2>2. UNCHANGED <<phase, spc, listed, byServer, sessions, status, closing>>
    BY <1>9 DEF ServerGarbles, ServerDies, startVars
  <2>3. \A q \in Servers : conn'[q] = "open" => conn[q] = "open"
    BY <2>1 DEF TypeOK
  <2> QED BY <2>2, <2>3 DEF SessionInv
<1>10. ASSUME NEW s \in Servers, CloseSession(s)
       PROVE  SessionInv'
  <2>1. /\ phase = "close" /\ closing' = closing \ {s}
        /\ conn' = [conn EXCEPT ![s] = AfterClose(s)]
        /\ byServer' = [byServer EXCEPT ![s] = {}]
        /\ UNCHANGED <<phase, status>>
        /\ s \in closing
    BY <1>10 DEF CloseSession, CloseOne, SetConn, startVars
  <2>2. byServer'[s] = {} /\ conn'[s] # "open"
    BY <2>1 DEF TypeOK, ToolLists, AfterClose
  <2>3. \A q \in Servers \ {s} : byServer'[q] = byServer[q] /\ conn'[q] = conn[q]
    BY <2>1 DEF TypeOK, ToolLists
  <2> QED BY <2>1, <2>2, <2>3 DEF SessionInv
<1>11. ASSUME NEW c \in CallIds, CallStep(c)
       PROVE  SessionInv'
  <2>1. UNCHANGED <<startVars, serverVars>>
    BY <1>11, CallFrame
  <2> QED BY <2>1 DEF SessionInv, startVars, serverVars
<1> QED BY <1>1, <1>2, <1>3, <1>4, <1>5, <1>6, <1>7, <1>8, <1>9, <1>10, <1>11, StepKinds

-----------------------------------------------------------------------------
(* The calls. *)

\* Once the process serves, what a call passed the gate on does not change.
LEMMA PassedKept ==
    ASSUME [Next]_vars, phase \notin {"load", "connect"}
    PROVE  UNCHANGED <<cfg, listed>>
<1>1. \A s \in Servers : ConnectStep(s) => FALSE
  BY ConnectFrame
<1>2. \A c \in CallIds : CallStep(c) => UNCHANGED <<cfg, listed>>
  BY CallFrame DEF startVars, serverVars
<1> QED BY <1>1, <1>2, StepKinds DEF Load, Store, Signal, Shutdown, ListenFail, CloseStart, Exit,
     FailedExit, ShutdownTimeout, ServerGarbles, ServerDies, CloseSession, CloseOne, vars, startVars, serverVars

\* A step that is not a call's leaves the calls alone.
LEMMA OtherFrame ==
    ASSUME [Next]_vars, \A c \in CallIds : ~CallStep(c)
    PROVE  UNCHANGED callVars
<1>1. \A s \in Servers : ConnectStep(s) => UNCHANGED callVars
  BY ConnectFrame
<1> QED BY <1>1, StepKinds DEF Load, Store, Signal, Shutdown, ListenFail, CloseStart, Exit,
     FailedExit, ShutdownTimeout, ServerGarbles, ServerDies, CloseSession, CloseOne, vars

\* A call's step leaves the other calls alone.
LEMMA OtherCalls ==
    ASSUME TypeOK, NEW c \in CallIds, CallStep(c), NEW d \in CallIds, d # c
    PROVE  cpc'[d] = cpc[d] /\ tool'[d] = tool[d] /\ outcomes'[d] = outcomes[d]
BY DEF CallStep, Launch, LaunchWithin, Resolve, ResolveRefusing, FindSession, Send, Reply,
   Answer, CallFail, Return, TypeOK

\* The place a call comes from and goes to.
LEMMA CallPlaces ==
    ASSUME TypeOK, NEW c \in CallIds, CallStep(c)
    PROVE  <<cpc[c], cpc'[c]>> \in
               {<<"queued", "resolve">>, <<"resolve", "session">>, <<"resolve", "done">>,
                <<"session", "send">>, <<"session", "done">>, <<"send", "await">>,
                <<"send", "done">>, <<"await", "done">>}
BY DEF CallStep, Launch, LaunchWithin, Resolve, ResolveRefusing, FindSession, Send, Reply,
   Answer, CallFail, Return, TypeOK

\* What one place says of the step a call is at.
LEMMA CallActions ==
    ASSUME TypeOK, NEW c \in CallIds, CallStep(c)
    PROVE  /\ Launch(c) => cpc[c] = "queued" /\ cpc'[c] = "resolve"
           /\ cpc[c] = "queued" => Launch(c)
           /\ cpc[c] = "resolve" => Resolve(c)
           /\ cpc[c] = "session" => FindSession(c)
           /\ cpc[c] = "send" => Send(c)
           /\ cpc[c] = "await" => Reply(c) \/ CallFail(c)
BY DEF CallStep, Launch, LaunchWithin, Resolve, ResolveRefusing, FindSession, Send, Reply,
   Answer, CallFail, TypeOK

\* Resolve hands on a tool that passed the gate.
LEMMA ResolvePasses ==
    ASSUME TypeOK, ServerInv, NEW c \in CallIds, Resolve(c), cpc'[c] = "session"
    PROVE  Passed(c, tool'[c])
<1>1. PICK p \in Lookup(byServer, Calls[c].name) :
          p \notin Refused(c, Skip) /\ tool' = [tool EXCEPT ![c] = p]
  BY DEF Resolve, ResolveRefusing, Return, TypeOK
<1>2. tool'[c] = p
  BY <1>1 DEF TypeOK
<1>3. ~GateRefuses(p, DecodeArgs(Calls[c].args), Skip)
  BY <1>1 DEF Refused
<1>4. /\ FullName(p.server, p.name) = Calls[c].name
      /\ p.server \in Servers
      /\ p.name \in byServer[p.server]
  BY LookupFacts DEF TypeOK, ToolLists
<1>5. p.name \in listed[p.server]
  BY <1>4 DEF ServerInv
<1> QED BY <1>2, <1>3, <1>4, <1>5 DEF Passed

\* Passed speaks of the config and the lists only.
LEMMA PassedFrame ==
    ASSUME UNCHANGED <<cfg, listed>>
    PROVE  \A c, p : Passed(c, p)' <=> Passed(c, p)
BY DEF Passed, Skip, GateRefuses, CheckTool, CheckArgs, IsAllowed, HighRisk, FullName, DecodeArgs

\* The gate is passed before a session is looked up, and stays passed.
LEMMA ToolStep ==
    TypeOK /\ StartInv /\ ServerInv /\ ToolInv /\ [Next]_vars => ToolInv'
<1> SUFFICES ASSUME TypeOK, StartInv, ServerInv, ToolInv, [Next]_vars,
                    NEW d \in CallIds, cpc'[d] \in {"session", "send", "await"}
             PROVE  Passed(d, tool[d])'
  BY DEF ToolInv
<1>1. phase \notin {"load", "connect"}
  <2>1. CASE \E c \in CallIds : CallStep(c)
    BY <2>1, CallFrame DEF CallsRun
  <2>2. CASE \A c \in CallIds : ~CallStep(c)
    BY <2>2, OtherFrame DEF StartInv, callVars
  <2> QED BY <2>1, <2>2
<1>2. UNCHANGED <<cfg, listed>>
  BY <1>1, PassedKept
<1>3. Passed(d, tool'[d]) => Passed(d, tool[d])'
  <2>1. PICK p : p = tool'[d]
    OBVIOUS
  <2>2. Passed(d, tool[d])' <=> Passed(d, p)'
    BY <2>1 DEF Passed, GateRefuses, CheckTool, CheckArgs, IsAllowed, HighRisk, FullName, DecodeArgs, Skip
  <2> QED BY <1>2, <2>1, <2>2, PassedFrame
<1>4. CASE \A c \in CallIds : ~CallStep(c)
  <2>1. UNCHANGED callVars
    BY <1>4, OtherFrame
  <2> QED BY <1>3, <2>1 DEF ToolInv, callVars
<1>5. ASSUME NEW c \in CallIds, CallStep(c)
      PROVE  Passed(d, tool'[d])
  <2>1. CASE d # c
    BY <1>5, <2>1, OtherCalls DEF ToolInv
  <2>2. CASE d = c /\ cpc[c] = "resolve"
    BY <1>5, <2>2, CallActions, CallPlaces, ResolvePasses
  <2>3. CASE d = c /\ cpc[c] # "resolve"
    <3>1. cpc[c] \in {"session", "send"}
      BY <1>5, <2>3, CallPlaces
    <3>2. tool' = tool
      BY <1>5, <3>1, CallActions DEF FindSession, Send
    <3> QED BY <2>3, <3>1, <3>2 DEF ToolInv
  <2> QED BY <2>1, <2>2, <2>3
<1> QED BY <1>3, <1>4, <1>5

\* A server receives a call once, from Send.
LEMMA ReachedStep ==
    TypeOK /\ StartInv /\ ToolInv /\ ReachedInv /\ [Next]_vars => ReachedInv'
<1> SUFFICES ASSUME TypeOK, StartInv, ToolInv, ReachedInv, [Next]_vars
             PROVE  ReachedInv'
  OBVIOUS
<1>1. \A c, p : p \in {r.tool : r \in reached} /\ Passed(c, p) => Passed(c, p)'
  BY PassedKept, PassedFrame DEF StartInv
<1>2. CASE \A c \in CallIds : ~CallStep(c)
  <2>1. cpc' = cpc /\ reached' = reached
    BY <1>2, OtherFrame DEF callVars
  <2> QED BY <1>1, <2>1 DEF ReachedInv
<1>3. ASSUME NEW c \in CallIds, CallStep(c), reached' = reached, cpc'[c] # "await"
      PROVE  ReachedInv'
  <2>1. \A d \in CallIds : cpc[d] \in {"await", "done"} => cpc'[d] \in {"await", "done"}
    BY <1>3, CallPlaces, OtherCalls
  <2>2. \A d \in CallIds : cpc'[d] = "await" => cpc[d] = "await"
    BY <1>3, OtherCalls
  <2> QED BY <1>1, <1>3, <2>1, <2>2 DEF ReachedInv
<1>4. ASSUME NEW c \in CallIds, CallStep(c), ~(reached' = reached /\ cpc'[c] # "await")
      PROVE  ReachedInv'
  <2>1. cpc[c] = "send" /\ Send(c)
    BY <1>4, CallActions, CallPlaces DEF Launch, LaunchWithin, Resolve, ResolveRefusing, FindSession,
       Reply, Answer, CallFail
  <2>2. PICK new : /\ new = [call |-> c, tool |-> tool[c], args |-> DecodeArgs(Calls[c].args)]
                   /\ reached' = reached \cup {new}
                   /\ cpc' = [cpc EXCEPT ![c] = "await"]
    BY <1>4, <2>1 DEF Send, Return, TypeOK
  <2>3. phase \notin {"load", "connect"}
    BY <2>1 DEF Send, CallsRun
  <2>4. Passed(c, new.tool)'
    <3>1. Passed(c, new.tool)
      BY <2>1, <2>2 DEF ToolInv
    <3> QED BY <2>3, <3>1, PassedKept, PassedFrame
  <2>5. new.call = c /\ new.args = DecodeArgs(Calls[c].args)
    BY <2>2
  <2>6. \A r \in reached : r.call # c
    BY <2>1 DEF ReachedInv
  <2>7. cpc'[c] = "await" /\ \A d \in CallIds : d # c => cpc'[d] = cpc[d]
    BY <2>2 DEF TypeOK
  <2>8. ASSUME NEW r \in reached'
        PROVE  /\ r.call \in CallIds
               /\ cpc'[r.call] \in {"await", "done"}
               /\ r.args = DecodeArgs(Calls[r.call].args)
               /\ Passed(r.call, r.tool)'
    BY <1>1, <2>2, <2>4, <2>5, <2>7 DEF ReachedInv
  <2>9. \A r1, r2 \in reached' : r1.call = r2.call => r1 = r2
    BY <2>2, <2>5, <2>6 DEF ReachedInv
  <2>10. \A d \in CallIds : cpc'[d] = "await" => \E r \in reached' : r.call = d
    BY <2>2, <2>5, <2>7 DEF ReachedInv
  <2> QED BY <2>8, <2>9, <2>10 DEF ReachedInv
<1> QED BY <1>2, <1>3, <1>4

\* A call's result is set when it is done, under its own id.
LEMMA OutcomeStep ==
    TypeOK /\ ReachedInv /\ OutcomeInv /\ [Next]_vars => OutcomeInv'
<1> SUFFICES ASSUME TypeOK, ReachedInv, OutcomeInv, [Next]_vars
             PROVE  OutcomeInv'
  OBVIOUS
<1>1. CASE \A c \in CallIds : ~CallStep(c)
  BY <1>1, OtherFrame DEF OutcomeInv, callVars
<1>2. ASSUME NEW c \in CallIds, CallStep(c)
      PROVE  OutcomeInv'
  <2>1. reached \subseteq reached'
    BY <1>2 DEF CallStep, Launch, LaunchWithin, Resolve, ResolveRefusing, FindSession, Send, Reply,
       Answer, CallFail
  <2>2. /\ Failed(c).id = Calls[c].id
        /\ Failed(c).result.isError
    BY DEF Failed
  <2>3. ASSUME cpc'[c] = "done"
        PROVE  /\ outcomes'[c].id = Calls[c].id
               /\ outcomes'[c].result.isError \/ \E r \in reached' : r.call = c
    <3>1. CASE Reply(c)
      <4>1. PICK a \in Answers : Answer(c, [id |-> Calls[c].id, result |-> ToResult(a)])
        BY <3>1 DEF Reply
      <4>2. outcomes'[c] = [id |-> Calls[c].id, result |-> ToResult(a)]
        BY <4>1 DEF Answer, Return, TypeOK
      <4>3. cpc[c] = "await"
        BY <3>1 DEF Reply
      <4> QED BY <2>1, <4>2, <4>3 DEF ReachedInv
    <3>2. CASE ~Reply(c)
      <4>1. outcomes' = [outcomes EXCEPT ![c] = Failed(c)]
        BY <1>2, <2>3, <3>2 DEF CallStep, Launch, LaunchWithin, Resolve, ResolveRefusing, FindSession,
           Send, CallFail, Return, TypeOK
      <4>2. outcomes'[c] = Failed(c)
        BY <4>1 DEF TypeOK
      <4> QED BY <2>2, <4>2
    <3> QED BY <3>1, <3>2
  <2>4. ASSUME NEW d \in CallIds, d # c, cpc'[d] = "done"
        PROVE  /\ outcomes'[d].id = Calls[d].id
               /\ outcomes'[d].result.isError \/ \E r \in reached' : r.call = d
    BY <1>2, <2>1, <2>4, OtherCalls DEF OutcomeInv
  <2> QED BY <2>3, <2>4 DEF OutcomeInv
<1> QED BY <1>1, <1>2

\* A call is taken only while the semaphore has room, and after all before it.
LEMMA OrderStep == TypeOK /\ OrderInv /\ [Next]_vars => OrderInv'
<1> SUFFICES ASSUME TypeOK, OrderInv, [Next]_vars
             PROVE  OrderInv'
  OBVIOUS
<1>0. CallIds = 1 .. Len(Calls) /\ Len(Calls) \in Nat
  BY CallsAssumption DEF CallIds
<1>1. IsFiniteSet(CallIds) /\ CallIds \subseteq Nat
  BY <1>0, FS_Interval
<1>2. IsFiniteSet(Running) /\ Cardinality(Running) \in Nat
  BY <1>1, FS_Subset, FS_CardinalityType DEF Running
<1>3. Width \in Nat
  BY ParallelAssumption DEF Width, Ceiling, DefaultMaxParallel
<1>4. CASE \A c \in CallIds : ~CallStep(c)
  BY <1>4, OtherFrame DEF OrderInv, Running, Width, callVars
<1>5. ASSUME NEW c \in CallIds, CallStep(c)
      PROVE  OrderInv'
  <2>1. parallel' = parallel /\ Width' = Width
    BY <1>5, CallFrame DEF Width
  <2>2. CASE Launch(c)
    <3>1. /\ cpc[c] = "queued" /\ cpc'[c] = "resolve"
          /\ \A d \in CallIds : d < c => cpc[d] # "queued"
          /\ Cardinality(Running) < Width
      <4>1. cpc[c] = "queued" /\ cpc'[c] = "resolve"
        BY <1>5, <2>2, CallActions
      <4>2. \A d \in 1 .. c - 1 : cpc[d] # "queued"
        BY <2>2 DEF Launch, LaunchWithin
      <4>3. \A d \in CallIds : d < c => d \in 1 .. c - 1
        BY <1>0
      <4>4. Cardinality(Running) < Width
        BY <2>2 DEF Launch, LaunchWithin
      <4> QED BY <4>1, <4>2, <4>3, <4>4
    <3>2. Running' = Running \cup {c}
      BY <1>5, <3>1, OtherCalls DEF Running
    <3>3. Cardinality(Running') <= Width'
      <4>1. Cardinality(Running \cup {c}) \in {Cardinality(Running), Cardinality(Running) + 1}
        BY <1>2, FS_AddElement
      <4>2. Cardinality(Running') \in {Cardinality(Running), Cardinality(Running) + 1}
        BY <3>2, <4>1
      <4> QED BY <1>2, <1>3, <2>1, <3>1, <4>2
    <3>4. ASSUME ~parallel
          PROVE  Running = {}
      <4>1. Width = 1
        BY <3>4 DEF Width
      <4> QED BY <1>2, <3>1, <4>1, FS_EmptySet
    <3>5. ASSUME ~parallel, NEW d \in CallIds, NEW e \in CallIds, d < e, cpc'[e] # "queued"
          PROVE  cpc'[d] = "done"
      <4>1. cpc[d] = "done" /\ d # c
        BY <1>1, <1>5, <3>1, <3>4, <3>5, OtherCalls DEF Running, OrderInv
      <4> QED BY <1>5, <4>1, OtherCalls
    <3> QED BY <2>1, <3>3, <3>5 DEF OrderInv
  <2>3. CASE ~Launch(c)
    <3>1. cpc[c] # "queued" /\ cpc[c] # "done" /\ cpc'[c] # "queued"
      BY <1>5, <2>3, CallActions, CallPlaces
    <3>2. Running' \subseteq Running
      BY <1>5, <3>1, OtherCalls DEF Running
    <3>3. Cardinality(Running') <= Cardinality(Running) /\ Cardinality(Running') \in Nat
      BY <1>2, <3>2, FS_Subset, FS_CardinalityType
    <3>4. Cardinality(Running') <= Width'
      BY <1>2, <1>3, <2>1, <3>3 DEF OrderInv
    <3>5. ASSUME ~parallel, NEW d \in CallIds, NEW e \in CallIds, d < e, cpc'[e] # "queued"
          PROVE  cpc'[d] = "done"
      <4>1. cpc[e] # "queued"
        BY <1>5, <3>1, <3>5, OtherCalls
      <4>2. cpc[d] = "done"
        BY <3>5, <4>1 DEF OrderInv
      <4> QED BY <1>5, <3>1, <4>2, OtherCalls
    <3> QED BY <2>1, <3>4, <3>5 DEF OrderInv
  <2> QED BY <2>2, <2>3
<1> QED BY <1>4, <1>5

-----------------------------------------------------------------------------
(* The theorems. *)

\* The first states are good.
LEMMA InitInv == Init => IInv
<1> SUFFICES ASSUME Init
             PROVE  IInv
  OBVIOUS
<1>1. TypeOK
  BY InitType
<1>2. StartInv
  BY DEF Init, StartInv
<1>3. ServerInv
  BY FS_EmptySet DEF Init, ServerInv, Opened, Posting
<1>4. SessionInv
  BY DEF Init, SessionInv
<1>5. ToolInv /\ ReachedInv /\ OutcomeInv
  BY DEF Init, ToolInv, ReachedInv, OutcomeInv
<1>6. OrderInv
  <2>1. Running = {} /\ \A c \in CallIds : cpc[c] = "queued"
    BY DEF Init, Running
  <2>2. Width \in Nat
    BY ParallelAssumption DEF Width, Ceiling, DefaultMaxParallel
  <2> QED BY <2>1, <2>2, FS_EmptySet DEF OrderInv
<1> QED BY <1>1, <1>2, <1>3, <1>4, <1>5, <1>6 DEF IInv

\* Every step keeps every part of the invariant.
LEMMA NextInv == IInv /\ [Next]_vars => IInv'
BY TypeStep, StartStep, ServerStep, SessionStep, ToolStep, ReachedStep, OutcomeStep, OrderStep DEF IInv

\* The inductive invariant holds in every reachable state.
THEOREM Invariant == Spec => []IInv
BY InitInv, NextInv, PTL DEF Spec

\* Every variable keeps its type.
THEOREM TypeCorrect == Spec => []TypeOK
BY Invariant, PTL DEF IInv

\* What a server received passed the gate as the tool it was received for,
\* whichever of two tools of one name the registry found.
THEOREM GateHolds == Spec => []OnlyGatedCallsReach
<1>1. IInv => OnlyGatedCallsReach
  <2> SUFFICES ASSUME IInv, NEW r \in reached, ~cfg[r.tool.server].skip
               PROVE  /\ HighRisk(r.tool.name) =>
                          {r.tool.name, Calls[r.call].name} \cap AllowedTools # {}
                      /\ "sensitive" \notin r.args
    BY DEF OnlyGatedCallsReach
  <2>1. Passed(r.call, r.tool) /\ r.args = DecodeArgs(Calls[r.call].args)
    BY DEF IInv, ReachedInv
  <2>2. r.tool.server \notin Skip
    BY DEF Skip
  <2>3. CheckTool(r.tool.name, Calls[r.call].name) /\ CheckArgs(r.args)
    BY <2>1, <2>2 DEF Passed, GateRefuses
  <2> QED BY <2>3 DEF CheckTool, CheckArgs, IsAllowed
<1> QED BY <1>1, Invariant, PTL

\* Execute gives each call one outcome of its own, runs no more calls than its
\* ceiling, and no server receives a call twice.
THEOREM OutcomesAreFaithful == Spec => []OutcomesFaithful
<1>1. IInv => OutcomesFaithful
  <2> SUFFICES ASSUME IInv
               PROVE  OutcomesFaithful
    OBVIOUS
  <2>1. /\ Cardinality(Running) <= Width
        /\ ~parallel => \A c, d \in CallIds : c < d /\ cpc[d] # "queued" => cpc[c] = "done"
    BY DEF IInv, OrderInv
  <2>2. /\ \A r1, r2 \in reached : r1.call = r2.call => r1 = r2
        /\ \A r \in reached : /\ FullName(r.tool.server, r.tool.name) = Calls[r.call].name
                             /\ r.tool.name \in listed[r.tool.server]
    BY DEF IInv, ReachedInv, Passed
  <2>3. \A c \in CallIds : cpc[c] = "done" =>
            /\ ToMessage(outcomes[c]).id = Calls[c].id
            /\ ToMessage(outcomes[c]).error \/ \E r \in reached : r.call = c
    BY DEF IInv, OutcomeInv, ToMessage
  <2> QED BY <2>1, <2>2, <2>3 DEF OutcomesFaithful
<1> QED BY <1>1, Invariant, PTL

\* Sessions, listed tools and reported status are of the same servers while the
\* process serves, and of none when Close has run; a connection whose read loop
\* runs is of a session the manager holds, also where the process exits past Close.
THEOREM ServersAreAccounted == Spec => []ServersAccounted
<1>1. IInv => ServersAccounted
  <2> SUFFICES ASSUME IInv
               PROVE  ServersAccounted
    OBVIOUS
  <2> USE DEF IInv
  <2>1. DOMAIN byServer = Servers
    BY DEF TypeOK, ToolLists
  <2>2. \A p \in RegisteredTools(byServer) : p.server \in Servers /\ byServer[p.server] # {}
    BY <2>1 DEF RegisteredTools
  <2>3. ASSUME phase \in {"serve", "shutdown"}
        PROVE  /\ \A s \in Servers : conn[s] = "open" => s \in sessions
               /\ {p.server : p \in RegisteredTools(byServer)} \subseteq sessions
               /\ Health.connected = Cardinality(sessions)
               /\ \A s \in sessions : status[s].tools = Cardinality(byServer[s])
    <3>1. /\ sessions = {s \in Servers : spc[s] = "connected"}
          /\ \A s \in Servers : (status[s].state = "connected") <=> (s \in sessions)
          /\ \A s \in sessions : status[s] = Status("connected", Cardinality(listed[s]))
          /\ \A s \in Servers : spc[s] = "connected" => byServer[s] = listed[s]
      BY <2>3 DEF SessionInv
    <3>2. \A s \in Servers : conn[s] = "open" => s \in sessions
      BY <2>3, <3>1 DEF ServerInv
    <3>3. {p.server : p \in RegisteredTools(byServer)} \subseteq sessions
      BY <2>2, <3>1 DEF ServerInv
    <3>4. {s \in Servers : status[s].state = "connected"} = sessions
      BY <3>1
    <3>5. Health.connected = Cardinality(sessions)
      BY <3>4 DEF Health
    <3>6. \A s \in sessions : status[s].tools = Cardinality(byServer[s])
      <4>1. \A n : Status("connected", n).tools = n
        BY DEF Status
      <4>2. \A s \in sessions : byServer[s] = listed[s]
        BY <3>1
      <4> QED BY <3>1, <4>1, <4>2
    <3> QED BY <3>2, <3>3, <3>5, <3>6
  <2>4. ASSUME phase = "exited"
        PROVE  /\ \A s \in Servers : conn[s] # "open"
               /\ Health.connected = 0 /\ Health.tools = 0
    <3>1. \A s \in Servers : conn[s] # "open" /\ byServer[s] = {} /\ status[s].state # "connected"
      BY <2>4 DEF SessionInv
    <3>2. {s \in Servers : status[s].state = "connected"} = {} /\ RegisteredTools(byServer) = {}
      BY <2>2, <3>1
    <3> QED BY <3>1, <3>2, FS_EmptySet DEF Health
  <2>5. phase = "aborted" => \A s \in Servers : conn[s] = "open" => s \in sessions
    BY DEF SessionInv
  <2> QED BY <2>3, <2>4, <2>5 DEF ServersAccounted
<1> QED BY <1>1, Invariant, PTL

=============================================================================
