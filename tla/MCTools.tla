------------------------------ MODULE MCTools ------------------------------
(***************************************************************************)
(* The components around a tool call, for TLC. They share no state beyond  *)
(* what each module has of the others, so each is explored by itself:      *)
(* active says which one, and the variables of the others stay as they are.*)
(***************************************************************************)
EXTENDS ToolApproval, McpServers, ParallelTasks, ShellCommands, FileTools, WebSearch

CONSTANTS c1, d1, l1

VARIABLE active

MCExtends == {<<c1, d1>>}
MCPrinted == l1 :> d1

ApprovalOnly == UNCHANGED <<active, mcpVars, parallelVars, shellVars, filesVars, webVars>>
McpOnly == UNCHANGED <<active, approvalVars, parallelVars, shellVars, filesVars, webVars>>
ParallelOnly == UNCHANGED <<active, approvalVars, mcpVars, shellVars, filesVars, webVars>>
ShellOnly == UNCHANGED <<active, approvalVars, mcpVars, parallelVars, filesVars, webVars>>
FilesOnly == UNCHANGED <<active, approvalVars, mcpVars, parallelVars, shellVars, webVars>>
WebOnly == UNCHANGED <<active, approvalVars, mcpVars, parallelVars, shellVars, filesVars>>

Init ==
    /\ active \in {"approval", "servers", "parallel", "shell", "files", "web"}
    /\ ApprovalInit /\ McpInit /\ ParallelInit /\ ShellInit /\ FilesInit /\ WebInit
    /\ active # "web" => backend = "disabled"

Next ==
    \/ active = "approval" /\ ApprovalOnly /\ \E m \in Modes, tty \in BOOLEAN, d, a \in
       AtMostOne(Paths \cup Commands), s \in AtMostOne(Commands) : Configure(m, tty, d, a, s)
    \/ active = "approval" /\ ApprovalOnly /\ \E ro \in BOOLEAN : NextTurn(ro)
    \/ active = "approval" /\ ApprovalOnly /\ \E i \in Slots : PolicyDenies(i)
    \/ active = "approval" /\ ApprovalOnly /\ \E i \in Slots : Check(i)
    \/ active = "approval" /\ ApprovalOnly /\ \E i \in Slots : Approve(i)
    \/ active = "approval" /\ ApprovalOnly /\ \E i \in Slots : AllowSession(i)
    \/ active = "approval" /\ ApprovalOnly /\ \E i \in Slots : Refuse(i)
    \/ active = "approval" /\ ApprovalOnly /\ \E i \in Slots : Hooks(i)
    \/ active = "approval" /\ ApprovalOnly /\ \E i \in Slots : Run(i)
    \/ active = "approval" /\ ApprovalOnly /\ \E i \in Slots, c \in Calls : Submit(i, c)
    \/ active = "servers" /\ McpOnly /\ Spawn
    \/ active = "servers" /\ McpOnly /\ Close
    \/ active = "servers" /\ McpOnly /\ CloseEnds
    \/ active = "servers" /\ McpOnly /\ \E r \in Requests : ClientStep(r)
    \/ active = "servers" /\ McpOnly /\ Serve
    \/ active = "servers" /\ McpOnly /\ Die
    \/ active = "servers" /\ McpOnly /\ \E k \in Ids : Ping(k)
    \/ active = "servers" /\ McpOnly /\ \E k \in Ids, kind \in {"answer", "error", "long"} :
       Reply(k, kind)
    \/ active = "parallel" /\ ParallelOnly /\ \E n \in 2..N : Start(n)
    \/ active = "parallel" /\ ParallelOnly /\ Prepare
    \/ active = "parallel" /\ ParallelOnly /\ Prepared
    \/ active = "parallel" /\ ParallelOnly /\ \E t \in 1..N : RunnerStarts(t)
    \/ active = "parallel" /\ ParallelOnly /\ \E t \in 1..N : RunnerRaises(t)
    \/ active = "parallel" /\ ParallelOnly /\ \E t \in 1..N, ok, changed \in BOOLEAN :
       RunnerReturns(t, ok, changed)
    \/ active = "parallel" /\ ParallelOnly /\ Integrate
    \/ active = "parallel" /\ ParallelOnly /\ Skip
    \/ active = "parallel" /\ ParallelOnly /\ Merge
    \/ active = "parallel" /\ ParallelOnly /\ MergeFails
    \/ active = "parallel" /\ ParallelOnly /\ \E clean \in BOOLEAN : Resolved(clean)
    \/ active = "parallel" /\ ParallelOnly /\ Unresolved
    \/ active = "parallel" /\ ParallelOnly /\ Report
    \/ active = "parallel" /\ ParallelOnly /\ Cancelled
    \/ active = "parallel" /\ ParallelOnly /\ Crash
    \/ active = "web" /\ WebOnly /\ \E n \in 1..MaxTop, s \in Rows, b \in BOOLEAN :
       Search(n, s, b)
    \/ active = "web" /\ WebOnly /\ \E b \in BOOLEAN : Fetch(b)
    \/ active = "web" /\ WebOnly /\ \E u \in Urls : FetchSupplied(u)
    \/ active = "web" /\ WebOnly /\ \E u \in Urls : Fetched(u)
    \/ active = "web" /\ WebOnly /\ \E rows \in Rows : Answered(rows)
    \/ active = "web" /\ WebOnly /\ NotAnswered
    \/ active = "web" /\ WebOnly /\ \E rows \in Rows : Page(rows)
    \/ active = "web" /\ WebOnly /\ PageFails
    \/ active = "web" /\ WebOnly /\ Breaks
    \/ active = "web" /\ WebOnly /\ \E rows \in Rows : Instant(rows)
    \/ active = "web" /\ WebOnly /\ RequestFinal
    \/ active = "web" /\ WebOnly /\ Fallback
    \/ active = "files" /\ FilesOnly /\ Between /\ \E p \in EditPaths, start, end \in
       1..TextLength : Read(p, start, end)
    \/ active = "files" /\ FilesOnly /\ Between /\ \E p \in EditPaths, text \in
       Sources, fresh, named \in BOOLEAN : Write(p, text, fresh, named)
    \/ active = "files" /\ FilesOnly /\ Between /\ \E p \in EditPaths, patches \in
       PatchLists, named \in BOOLEAN : Patch(p, patches, named)
    \/ active = "files" /\ FilesOnly /\ Between /\ \E p \in EditPaths, word \in WordsOf,
       indent \in 0..Indents, lines \in Sources \ {<<>>} :
       Replace(p, word, indent, lines)
    \/ active = "files" /\ FilesOnly /\ Between /\ \E p \in EditPaths, missingOk, named,
       keeps \in BOOLEAN : Delete(p, missingOk, named, keeps)
    \/ active = "files" /\ FilesOnly /\ Between /\ \E list \in EditLists :
       Edits(list)
    \/ active = "files" /\ FilesOnly /\ EditNext
    \/ active = "files" /\ FilesOnly /\ EditRejected
    \/ active = "files" /\ FilesOnly /\ EditFails
    \/ active = "files" /\ FilesOnly /\ ops < MaxOps /\ \E p \in EditPaths, text \in
       Sources \cup {Absent} : OtherEdits(p, text)
    \/ active = "shell" /\ ShellOnly /\ \E m \in Forms : Launch(m)
    \/ active = "shell" /\ ShellOnly /\ Writes
    \/ active = "shell" /\ ShellOnly /\ Forks
    \/ active = "shell" /\ ShellOnly /\ ChildExits
    \/ active = "shell" /\ ShellOnly /\ Pump
    \/ active = "shell" /\ ShellOnly /\ PumpFails
    \/ active = "shell" /\ ShellOnly /\ \E code \in Codes : Exits(code)
    \/ active = "shell" /\ ShellOnly /\ Poll
    \/ active = "shell" /\ ShellOnly /\ Joins
    \/ active = "shell" /\ ShellOnly /\ ReadsNew
    \/ active = "shell" /\ ShellOnly /\ Asks
    \/ active = "shell" /\ ShellOnly /\ Kill
    \/ active = "shell" /\ ShellOnly /\ Returns
    \/ active = "shell" /\ ShellOnly /\ TimesOut
    \/ active = "shell" /\ ShellOnly /\ TurnCancelled

vars == <<active, approvalVars, mcpVars, parallelVars, shellVars, filesVars, webVars>>

Spec == Init /\ [][Next]_vars

-----------------------------------------------------------------------------
TypeOK == ApprovalTypeOK /\ McpTypeOK /\ ParallelTypeOK /\ ShellTypeOK /\ FilesTypeOK /\ WebTypeOK
=============================================================================
