----------------------------- MODULE MCMcpManager -----------------------------
(***************************************************************************)
(* Two enabled servers "a" (stdio, exempt from the gate) and "a__b" (SSE)   *)
(* whose tools can share a namespaced name, and a disabled one.             *)
(***************************************************************************)
EXTENDS McpManager, TLC

SA == <<"a">>
SAB == <<"a", "b">>
SOff == <<"off">>
MCServers == {SA, SAB, SOff}

Server(t, e, target, skip) ==
    [transport |-> t, enabled |-> e, target |-> target, skip |-> skip]
Good == (SA :> Server("", "absent", "stdio", TRUE))
        @@ (SAB :> Server("sse", "true", "sse", FALSE))
        @@ (SOff :> Server("stdio", "false", "stdio", FALSE))
MCRawConfigs == {Good, [Good EXCEPT ![SAB].target = "stdio"]}

MCOffers == (SA :> {{<<"read">>, <<"b", "exec">>}, {}})
            @@ (SAB :> {{<<"exec">>, <<"read">>}})
            @@ (SOff :> {{<<"read">>}})

Object(leaves) == [form |-> "object", leaves |-> leaves]
MCCalls == <<[id |-> 11, name |-> <<"a", "b", "exec">>, args |-> Object({"plain"})],
             [id |-> 12, name |-> <<"a", "b", "read">>, args |-> Object({"plain", "sensitive"})],
             [id |-> 13, name |-> <<"a", "read">>, args |-> [form |-> "malformed", leaves |-> {"sensitive"}]]>>

MCPreambles == {<<SseLine("comment", ""), SseLine("blank", ""), SseLine("event", "ping"),
                  SseLine("blank", ""), SseLine("event", "endpoint"), SseLine("data", "post")>>,
                <<SseLine("data", "x"), SseLine("blank", "")>>}
MCReplyEvents == {<<SseLine("comment", ""), SseLine("event", "message"), SseLine("data", "json"),
                    SseLine("blank", "")>>}
MCAnswers == {[blocks |-> <<"text", "image">>, isError |-> FALSE],
              [blocks |-> <<>>, isError |-> TRUE]}
MCHighRisk == {"exec"}
MCAllowed == {<<"shell">>}
=============================================================================
