---------------------------- MODULE MCMcpServer ----------------------------
(* Instances of McpServer for TLC: every kind of line the dispatch tells apart. *)
EXTENDS McpServer

MCMessage(method, hasId) ==
    [parses |-> TRUE, version |-> "2.0", method |-> method, hasId |-> hasId,
     params |-> TRUE, token |-> FALSE, returns |-> TRUE]

MCGarbage == [MCMessage("none", FALSE) EXCEPT !.parses = FALSE, !.version = "other"]
MCToolCall == [MCMessage("tools/call", TRUE) EXCEPT !.token = TRUE]

\* What the threads and the queue are about.
MCTraffic == {MCToolCall, MCMessage("tools/list", TRUE), MCMessage("ping", TRUE), MCGarbage}

\* Every branch of dispatch_mcp_request.
MCEveryLine ==
    {MCGarbage, MCToolCall, [MCToolCall EXCEPT !.returns = FALSE],
     MCMessage("none", TRUE),
     [MCMessage("tools/call", FALSE) EXCEPT !.version = "other"],
     [MCMessage("ping", TRUE) EXCEPT !.version = "not_a_string"],
     [MCMessage("resources/read", FALSE) EXCEPT !.version = "not_a_string"],
     MCMessage("tools/call", FALSE),
     [MCMessage("resources/read", TRUE) EXCEPT !.params = FALSE],
     MCMessage("resources/read", TRUE), MCMessage("resources/list", TRUE),
     MCMessage("notifications/initialized", TRUE), MCMessage("other", TRUE), MCMessage("other", FALSE)}
=============================================================================
