----------------------------- MODULE RpcService -----------------------------
(***************************************************************************)
(* What the server promises its client, whatever threads it uses: each     *)
(* request is answered once and eventually, and the process does not stop  *)
(* owing an answer to a client that still listens.  McpServer implements   *)
(* it.                                                                     *)
(***************************************************************************)
CONSTANT Ids   \* request identities

VARIABLES
    asked,     \* requests received that want an answer
    answered,  \* requests whose answer the client has in full
    linkUp,    \* the client still reads
    running    \* the process has not ended

vars == <<asked, answered, linkUp, running>>

TypeOK ==
    /\ asked \subseteq Ids /\ answered \subseteq asked
    /\ linkUp \in BOOLEAN /\ running \in BOOLEAN

Init == asked = {} /\ answered = {} /\ linkUp = TRUE /\ running = TRUE

Ask(i) ==
    /\ running /\ i \notin asked
    /\ asked' = asked \cup {i}
    /\ UNCHANGED <<answered, linkUp, running>>

Answer(i) ==
    /\ running /\ linkUp /\ i \in asked \ answered
    /\ answered' = answered \cup {i}
    /\ UNCHANGED <<asked, linkUp, running>>

Disconnect ==
    /\ linkUp /\ linkUp' = FALSE
    /\ UNCHANGED <<asked, answered, running>>

Stop ==
    /\ running /\ (asked = answered \/ ~linkUp)
    /\ running' = FALSE
    /\ UNCHANGED <<asked, answered, linkUp>>

Next == (\E i \in Ids : Ask(i) \/ Answer(i)) \/ Disconnect \/ Stop

Spec == Init /\ [][Next]_vars /\ \A i \in Ids : WF_vars(Answer(i))
=============================================================================
