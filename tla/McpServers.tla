----------------------------- MODULE McpServers -----------------------------
(***************************************************************************)
(* One MCP server: its client (tools/mcp/client.py), the bootstrap and the *)
(* close of the manager (tools/mcp/manager.py), and tool calls that reach   *)
(* it concurrently from the agent (tools/mcp/tool.py).  The pipes, and what *)
(* the server does, are outside of the repository: it may answer late, in   *)
(* another order or never, send requests of its own, and die.               *)
(***************************************************************************)
EXTENDS Naturals, Sequences, SequencesExt, FiniteSets

CONSTANTS
    Callers,    \* tool calls of the agent
    Boot,       \* the coroutine _bootstrap
    Room,       \* lines a pipe holds
    MaxPings    \* bound: requests of the server

\* The tool calls are finitely many, and the bootstrap is none of them.
Setting == IsFiniteSet(Callers) /\ Boot \notin Callers
ASSUME McpAssumption == Setting

Requests == Callers \cup {Boot}
Stages == 4     \* initialize, tools/list, resources/list, prompts/list
Ids == 1..(Cardinality(Callers) + Stages)

VARIABLES
    nextId,     \* _next_id
    req,        \* request -> where _request is, and its id
    lockq,      \* _lock: the first holds it
    process,    \* _process is set
    stage,      \* of the bootstrap; Stages + 1 when the client is in _clients
    manager,    \* "open", "closing" the client, "closed" and its loop stopped
    stdin, stdout,
    server,     \* "off", "up", "dead"
    work,       \* ids that the server has read and not answered
    \* history
    endOf,    \* id -> how the request ended
    got,        \* id -> the ids whose answers its caller was given
    served,     \* id -> how often the server has carried it out
    pings

client == <<nextId, req, lockq, process, stage, manager, endOf, got>>
mcpVars == <<client, stdin, stdout, server, work, served, pings>>

Ready == Stages + 1
BootFailed == 0

Unasked == [pc |-> "idle", id |-> 0]

McpInit ==
    /\ nextId = 0 /\ req = [r \in Requests |-> Unasked] /\ lockq = <<>> /\ process = FALSE
    /\ stage = 1 /\ manager = "open"
    /\ stdin = <<>> /\ stdout = <<>> /\ server = "off" /\ work = {}
    /\ endOf = [k \in Ids |-> "none"] /\ got = [k \in Ids |-> {}]
    /\ served = [k \in Ids |-> 0] /\ pings = 0

Runs == manager # "closed"
Server == UNCHANGED <<server, work, served, pings>>

\* create_subprocess_exec; when it fails there is no client.
Spawn ==
    /\ stage = 1 /\ server = "off"
    /\ \/ server' = "up" /\ process' = TRUE /\ UNCHANGED stage
       \/ stage' = BootFailed /\ UNCHANGED <<server, process>>
    /\ UNCHANGED <<nextId, req, lockq, manager, endOf, got, stdin, stdout, work, served, pings>>

\* The start of _request.
Ask(r) ==
    /\ req[r].pc = "idle" /\ process
    /\ IF r = Boot THEN stage \in 1..Stages ELSE stage = Ready /\ manager = "open"
    /\ nextId' = nextId + 1
    /\ req' = [req EXCEPT ![r] = [pc |-> "lock", id |-> nextId + 1]]
    /\ lockq' = Append(lockq, r)
    /\ UNCHANGED <<process, stage, manager, endOf, got, stdin, stdout>> /\ Server

\* The request ends and frees the lock; an answer is what the line read brings.  An error
\* of resources/list and prompts/list is an empty list, but a timeout is not an MCPError.
Ended(r, how, mcpError) ==
    /\ lockq' = RemoveAt(lockq, CHOOSE i \in DOMAIN lockq : lockq[i] = r)
    /\ endOf' = [endOf EXCEPT ![req[r].id] = how]
    /\ got' = IF how = "answered" THEN [got EXCEPT ![req[r].id] = @ \cup {Head(stdout).of}] ELSE got
    /\ req' = [req EXCEPT ![r] = IF r = Boot THEN Unasked ELSE [@ EXCEPT !.pc = "done"]]
    /\ stage' = IF r # Boot THEN stage
                ELSE IF how = "failed" /\ ~(mcpError /\ stage \in 3..Stages) THEN BootFailed ELSE stage + 1
    /\ UNCHANGED <<nextId, process, manager>> /\ Server

Holds(r) == Runs /\ lockq # <<>> /\ Head(lockq) = r

Send(r) ==
    /\ Holds(r) /\ req[r].pc = "lock"
    /\ IF process
       THEN /\ stdin' = Append(stdin, req[r].id)
            /\ req' = [req EXCEPT ![r].pc = "drain"]
            /\ UNCHANGED <<nextId, lockq, process, stage, manager, endOf, got, stdout>> /\ Server
       ELSE Ended(r, "failed", TRUE) /\ UNCHANGED <<stdin, stdout>>

\* Nothing limits the time that drain waits for the server to read.
Drain(r) ==
    /\ Holds(r) /\ req[r].pc = "drain"
    /\ \/ /\ Len(stdin) <= Room \/ server = "dead"
          /\ req' = [req EXCEPT ![r].pc = "read"]
          /\ UNCHANGED <<nextId, lockq, process, stage, manager, endOf, got>> /\ Server
       \/ server = "dead" /\ Ended(r, "failed", FALSE)
    /\ UNCHANGED <<stdin, stdout>>

\* A line with an id, and the call whose result it brings (0: none).
Line(kind, id, of) == [kind |-> kind, id |-> id, of |-> of]

\* Mutant: whatever comes is the answer.
IsForAny(line, r) == TRUE
\* _read_response looks at the id alone: a request of the server may have the same.
IsFor(line, r) == line.id = req[r].id

\* A line beyond the limit of the stream fails the request that reads it, and is gone.
\* What is taken for the answer and has no result is an empty one: to a call of a tool
\* an error, to the bootstrap an empty list.
Receive(r) ==
    /\ Holds(r) /\ req[r].pc = "read" /\ stdout # <<>>
    /\ LET line == Head(stdout)
       IN CASE line.kind = "long" -> Ended(r, "failed", FALSE)
            [] line.kind # "long" /\ ~IsFor(line, r) -> UNCHANGED client /\ Server
            [] line.kind = "answer" /\ IsFor(line, r) -> Ended(r, "answered", FALSE)
            [] line.kind = "error" /\ IsFor(line, r) -> Ended(r, "failed", TRUE)
            [] line.kind = "ping" /\ IsFor(line, r) ->
                 Ended(r, IF r = Boot THEN "void" ELSE "failed", TRUE)
    /\ stdout' = Tail(stdout) /\ UNCHANGED stdin

ConnectionClosed(r) ==
    /\ Holds(r) /\ req[r].pc = "read" /\ stdout = <<>> /\ server = "dead"
    /\ Ended(r, "failed", TRUE) /\ UNCHANGED <<stdin, stdout>>

Timeout(r) ==
    /\ Holds(r) /\ req[r].pc = "read"
    /\ Ended(r, "failed", FALSE) /\ UNCHANGED <<stdin, stdout>>

\* The turn is cancelled, and with the future the coroutine on the other loop.
Cancel(r) ==
    /\ Runs /\ r # Boot /\ req[r].pc \in {"lock", "drain", "read"}
    /\ Ended(r, "failed", FALSE) /\ UNCHANGED <<stdin, stdout>>

-----------------------------------------------------------------------------
\* MCPManager.close: only a client whose bootstrap succeeded is in _clients.
Close ==
    /\ manager = "open" /\ stage \in {BootFailed, Ready}
    /\ manager' = IF stage = Ready THEN "closing" ELSE "closed"
    /\ process' = IF stage = Ready THEN FALSE ELSE process
    /\ UNCHANGED <<nextId, req, lockq, stage, endOf, got, stdin, stdout>> /\ Server

CloseEnds ==
    /\ manager = "closing"
    /\ manager' = "closed" /\ server' = "dead" /\ work' = {}
    /\ UNCHANGED <<nextId, req, lockq, process, stage, endOf, got, stdin, stdout, served, pings>>

-----------------------------------------------------------------------------
\* External: the server.
Outside == UNCHANGED client

Serve ==
    /\ server = "up" /\ stdin # <<>>
    /\ work' = work \cup {Head(stdin)} /\ served' = [served EXCEPT ![Head(stdin)] = @ + 1]
    /\ stdin' = Tail(stdin)
    /\ Outside /\ UNCHANGED <<stdout, server, pings>>

Reply(k, kind) ==
    /\ server = "up" /\ k \in work /\ Len(stdout) < Room
    /\ stdout' = Append(stdout, Line(kind, k, k)) /\ work' = work \ {k}
    /\ Outside /\ UNCHANGED <<stdin, server, served, pings>>

Ping(k) ==
    /\ server = "up" /\ pings < MaxPings /\ Len(stdout) < Room
    /\ stdout' = Append(stdout, Line("ping", k, 0)) /\ pings' = pings + 1
    /\ Outside /\ UNCHANGED <<stdin, server, work, served>>

Die ==
    /\ server = "up"
    /\ server' = "dead" /\ work' = {}
    /\ Outside /\ UNCHANGED <<stdin, stdout, served, pings>>

ClientStep(r) ==
    \/ Ask(r) \/ Send(r) \/ Drain(r) \/ Receive(r) \/ ConnectionClosed(r) \/ Timeout(r) \/ Cancel(r)

McpNext ==
    \/ Spawn \/ Close \/ CloseEnds
    \/ \E r \in Requests : ClientStep(r)
    \/ Serve \/ Die
    \/ \E k \in Ids : Ping(k) \/ \E kind \in {"answer", "error", "long"} : Reply(k, kind)

McpSpec == McpInit /\ [][McpNext]_mcpVars

-----------------------------------------------------------------------------
McpTypeOK ==
    /\ nextId \in 0..Cardinality(Ids)
    /\ \A r \in Requests : req[r].pc \in {"idle", "lock", "drain", "read", "done"} /\ req[r].id \in {0} \cup Ids
    /\ lockq \in Seq(Requests) /\ IsInjective(lockq)
    /\ process \in BOOLEAN /\ stage \in 0..Ready /\ manager \in {"open", "closing", "closed"}
    /\ server \in {"off", "up", "dead"} /\ work \subseteq Ids
    /\ \A k \in Ids : served[k] \in Nat /\ got[k] \subseteq Ids
    /\ \A k \in Ids : endOf[k] \in {"none", "answered", "failed", "void"}

\* What the callers know of the calls.
Told == [k \in Ids |-> IF k > nextId THEN "new" ELSE
                       IF endOf[k] = "none" THEN "asked" ELSE
                       IF endOf[k] = "answered" THEN "answered" ELSE "failed"]

\* Through timeouts, cancelled callers, late and foreign lines, calls keep the contract:
\* a caller is given one answer at most, and that of its own call, and a call is carried
\* out once at most.  An empty answer is none.
Contract == INSTANCE RpcContract WITH status <- Told, carried <- served, result <- got
ImplementsRpc == Contract!Spec
=============================================================================
