----------------------------- MODULE McpRegistry -----------------------------
(***************************************************************************)
(* The pure part of src/mcp: the configuration, namespaced names, the       *)
(* security gate and the conversions of calls and results.                  *)
(*                                                                          *)
(* A name is the sequence of its parts between "__" separators, so that     *)
(* joining and splitting namespaced names keep what they really do:         *)
(* "a__b" + "c" and "a" + "b__c" are the same name.                         *)
(***************************************************************************)
EXTENDS Naturals, Sequences, FiniteSets

CONSTANTS
    HighRiskParts,  \* name parts that contain a high-risk pattern
    AllowedTools    \* Config.AllowedHighRiskTools

ASSUME AllowedAssumption == \A n \in AllowedTools : n \in Seq(STRING) /\ n # <<>>

(***************************************************************************)
(* ParseConfig                                                              *)
(***************************************************************************)

\* One server of the JSON file.  transport "" and enabled "absent" are fields
\* left out; target says whether the field its transport needs is there.
ParseServer(w) ==
    [transport |-> IF w.transport = "" THEN "stdio" ELSE w.transport,
     enabled |-> w.enabled # "false",
     target |-> w.target,
     skip |-> w.skip]

\* ServerConfig.Validate: a known transport, with its command or its URL.
ValidServer(c) == c.transport \in {"stdio", "sse"} /\ c.target = c.transport

\* Mutant of ConfigValid: only the transport is looked at.
ConfigKnown(raw) == \A s \in DOMAIN raw : ParseServer(raw[s]).transport \in {"stdio", "sse"}

ConfigValid(raw) == \A s \in DOMAIN raw : ValidServer(ParseServer(raw[s]))

ParseConfig(raw) == [s \in DOMAIN raw |-> ParseServer(raw[s])]

(***************************************************************************)
(* Names                                                                    *)
(***************************************************************************)

FullName(s, t) == s \o t

\* ParseOpenAICall: the server is what precedes the first separator, and
\* arguments that do not decode become the empty object.
SplitName(n) == IF Len(n) > 1 THEN [server |-> SubSeq(n, 1, 1), tool |-> Tail(n)]
                ELSE [server |-> <<>>, tool |-> n]
DecodeArgs(a) == IF a.form = "malformed" THEN {} ELSE a.leaves

(***************************************************************************)
(* The gate.  Arguments are the set of the strings at the leaves of the     *)
(* argument tree, of which only "sensitive" matches a dangerous pattern.    *)
(***************************************************************************)

HighRisk(t) == \E i \in DOMAIN t : t[i] \in HighRiskParts
IsAllowed(t, full) == t \in AllowedTools \/ full \in AllowedTools
CheckTool(t, full) == HighRisk(t) => IsAllowed(t, full)
CheckArgs(args) == "sensitive" \notin args

\* A tool is a pair of its server's name and its own; skip is the set of the
\* servers that bypass the gate.
GateRefuses(tool, args, skip) ==
    /\ tool.server \notin skip
    /\ \/ ~CheckTool(tool.name, FullName(tool.server, tool.name))
       \/ ~CheckArgs(args)

\* Registry.Tools, and OpenAITools, which lists what the gate lets by name.
RegisteredTools(byServer) ==
    UNION {{[server |-> s, name |-> t] : t \in byServer[s]} : s \in DOMAIN byServer}
OpenAITools(byServer, skip) == {p \in RegisteredTools(byServer) : ~GateRefuses(p, {}, skip)}
Lookup(byServer, full) ==
    {p \in RegisteredTools(byServer) : FullName(p.server, p.name) = full}

(***************************************************************************)
(* Results                                                                  *)
(***************************************************************************)

\* joinText keeps the text blocks, in order.
JoinText(blocks) == SelectSeq(blocks, LAMBDA b : b # "image")

\* Session.CallTool: what an answer to tools/call becomes.
ToResult(answer) == [isError |-> answer.isError, content |-> JoinText(answer.blocks)]

\* ToolResult.ToMessage: the tool-role message of an outcome.
ToMessage(o) == [id |-> o.id, error |-> o.result.isError, content |-> o.result.content]
=============================================================================
