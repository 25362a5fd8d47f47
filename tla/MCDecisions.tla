------------------------------ MODULE MCDecisions ------------------------------
(***************************************************************************)
(* What the program makes of a prompt and of what the model says, for TLC: *)
(* the text of the prompt, its route, the parsed reply, a plan, a          *)
(* generated project and an inspection. Each component is explored by      *)
(* itself: active says which one, the variables of the others stay as they *)
(* are.                                                                    *)
(***************************************************************************)
EXTENDS GenerationWorkflow, ModelStream, Routes, ProjectPlans, Inspection, Composer

VARIABLE active

MCPaths == {<<"main.py">>, <<"app", "main.py">>, <<"tests", "test_main.py">>, <<".git", "main.py">>}
MCRoots == {<<>>, <<"app">>, <<".git">>}
MCWords ==
    {"readOnly", "noFiles", "exception", "noShell", "noNetwork", "change", "delete", "validate", "external",
     "workspace", "followup", "reference", "file", "directory", "project", "snippet", "inspect", "question",
     "operate", "recall"}
\* What the model says of a route beside its kind and its capabilities.
MCPlain ==
    [kind |-> "answer", caps |-> {}, hint |-> "none", target |-> "none",
     unsure |-> FALSE, readOnly |-> FALSE, validates |-> FALSE, external |-> FALSE]
MCRemarks ==
    {MCPlain, [MCPlain EXCEPT !.unsure = TRUE], [MCPlain EXCEPT !.readOnly = TRUE],
     [MCPlain EXCEPT !.validates = TRUE], [MCPlain EXCEPT !.external = TRUE],
     [MCPlain EXCEPT !.target = "file"], [MCPlain EXCEPT !.hint = "multi_file_generation"],
     [MCPlain EXCEPT !.target = "file", !.hint = "validation_repair"]}
MCReplies ==
    {[r EXCEPT !.kind = k, !.caps = s] :
        r \in MCRemarks, k \in Kinds,
        s \in {{}, Local, {"mutate_file"}, {"mutate_file", "delete_file"}, Shelling, Web}}
MCCells ==
    {"a", "b", "q", "n", "x", "y", "@", "/", "[", "]", "#", " ", "\n"} \cup {ToString(n) : n \in 2..MaxKeys}
MCShorts == {<<"a", "a">>, <<"@">>, <<"/">>, <<"\n">>}
MCSizes == [b \in Bodies |-> "n"]
MCNumber == [n \in 2..MaxKeys |-> <<ToString(n)>>]
MCNames == <<<<"a">>, <<"a", "b">>>>
MCCommands == <<<<"/", "q">>>>

StreamOnly == UNCHANGED <<active, workflowVars, routesVars, plansVars, inspectVars, composerVars>>
WorkflowOnly == UNCHANGED <<active, streamVars, routesVars, plansVars, inspectVars, composerVars>>
PlansOnly == UNCHANGED <<active, workflowVars, streamVars, routesVars, inspectVars, composerVars>>
RouterOnly == UNCHANGED <<active, workflowVars, streamVars, plansVars, inspectVars, composerVars>>
InspectOnly == UNCHANGED <<active, workflowVars, streamVars, routesVars, plansVars, composerVars>>
PromptOnly == UNCHANGED <<active, workflowVars, streamVars, routesVars, plansVars, inspectVars>>

Init ==
    /\ WorkflowInit /\ StreamInit /\ RouteInit /\ PlansInit /\ InspectInit /\ ComposerInit
    /\ active \in {"stream", "workflow", "planner", "router", "inspection", "composer"}
    /\ active # "workflow" => contract = {}
    /\ active # "inspection" =>
         inquiry = [files |-> {}, directory |-> FALSE, readOnly |-> FALSE, staged |-> FALSE, broad |-> FALSE]

Next ==
    \/ active = "stream" /\ StreamOnly /\ Request
    \/ active = "stream" /\ StreamOnly /\ Refused
    \/ active = "stream" /\ StreamOnly /\ Connected
    \/ active = "stream" /\ StreamOnly /\ TransportError
    \/ active = "stream" /\ StreamOnly /\ \E j \in DOMAIN sent : Fragment(j)
    \/ active = "stream" /\ StreamOnly /\ Text
    \/ active = "stream" /\ StreamOnly /\ Reasoning
    \/ active = "stream" /\ StreamOnly /\ Garbled
    \/ active = "stream" /\ StreamOnly /\ \E reason \in {"stop", "length"} : Finish(reason)
    \/ active = "stream" /\ StreamOnly /\ Done
    \/ active = "stream" /\ StreamOnly /\ Stops
    \/ active = "stream" /\ StreamOnly /\ TimesOutEmpty
    \/ active = "stream" /\ StreamOnly /\ Parse
    \/ active = "workflow" /\ WorkflowOnly /\ AttemptFails
    \/ active = "workflow" /\ WorkflowOnly /\ AttemptKept
    \/ active = "workflow" /\ WorkflowOnly /\ AttemptAccepted
    \/ active = "workflow" /\ WorkflowOnly /\ FallsBack
    \/ active = "workflow" /\ WorkflowOnly /\ Approved
    \/ active = "workflow" /\ WorkflowOnly /\ Rejected
    \/ active = "workflow" /\ WorkflowOnly /\ WriteStage
    \/ active = "workflow" /\ WorkflowOnly /\ StageFails
    \/ active = "workflow" /\ WorkflowOnly /\ \E r \in Outcomes : Validate(r)
    \/ active = "workflow" /\ WorkflowOnly /\ Repair
    \/ active = "workflow" /\ WorkflowOnly /\ NoRepair
    \/ active = "workflow" /\ WorkflowOnly /\ \E r \in Outcomes : Revalidate(r)
    \/ active = "workflow" /\ WorkflowOnly /\ CompletionRepair
    \/ active = "workflow" /\ WorkflowOnly /\ NoCompletionRepair
    \/ active = "workflow" /\ WorkflowOnly /\ \E r \in Outcomes : CompletionValidate(r)
    \/ active = "workflow" /\ WorkflowOnly /\ CompletionEnds
    \/ active = "workflow" /\ WorkflowOnly /\ RepairFails
    \/ active = "workflow" /\ WorkflowOnly /\ \E b \in BOOLEAN : Report(b)
    \/ active = "planner" /\ PlansOnly /\ Receive
    \/ active = "planner" /\ PlansOnly /\ Sanitize
    \/ active = "planner" /\ PlansOnly /\ \E featureful, thin \in BOOLEAN : Judge(featureful, thin)
    \/ active = "planner" /\ PlansOnly /\ UseStrategy
    \/ active = "router" /\ RouterOnly /\ Ask
    \/ active = "router" /\ RouterOnly /\ RuleRoutes
    \/ active = "router" /\ RouterOnly /\ ModelRoutes
    \/ active = "router" /\ RouterOnly /\ ModelFails
    \/ active = "router" /\ RouterOnly /\ CrossCheck
    \/ active = "router" /\ RouterOnly /\ \E found \in {"none", "file"}, missing \in BOOLEAN :
       Target(found, missing)
    \/ active = "router" /\ RouterOnly /\ Generation
    \/ active = "router" /\ RouterOnly /\ \E call \in {"none", "clarify", "search", "delete",
       "read"} : Preflight(call)
    \/ active = "composer" /\ PromptOnly /\ \E v \in Shorts : Insert(v)
    \/ active = "composer" /\ PromptOnly /\ \E b \in Bodies : Paste(b)
    \/ active = "composer" /\ PromptOnly /\ Backspace
    \/ active = "composer" /\ PromptOnly /\ Delete
    \/ active = "composer" /\ PromptOnly /\ DeleteOrEof
    \/ active = "composer" /\ PromptOnly /\ Left
    \/ active = "composer" /\ PromptOnly /\ Right
    \/ active = "composer" /\ PromptOnly /\ Home
    \/ active = "composer" /\ PromptOnly /\ End
    \/ active = "composer" /\ PromptOnly /\ WordLeft
    \/ active = "composer" /\ PromptOnly /\ WordRight
    \/ active = "composer" /\ PromptOnly /\ KillStart
    \/ active = "composer" /\ PromptOnly /\ KillEnd
    \/ active = "composer" /\ PromptOnly /\ KillWord
    \/ active = "composer" /\ PromptOnly /\ Yank
    \/ active = "composer" /\ PromptOnly /\ Undo
    \/ active = "composer" /\ PromptOnly /\ Redo
    \/ active = "composer" /\ PromptOnly /\ Dismiss
    \/ active = "composer" /\ PromptOnly /\ Tab
    \/ active = "composer" /\ PromptOnly /\ Navigate(1)
    \/ active = "composer" /\ PromptOnly /\ Navigate(-1)
    \/ active = "composer" /\ PromptOnly /\ Up
    \/ active = "composer" /\ PromptOnly /\ Down
    \/ active = "composer" /\ PromptOnly /\ Submit
    \/ active = "composer" /\ PromptOnly /\ Cancel
    \/ active = "composer" /\ PromptOnly /\ WordFails
    \/ active = "inspection" /\ InspectOnly /\ Decide
    \/ active = "inspection" /\ InspectOnly /\ Exhausted
    \/ active = "inspection" /\ InspectOnly /\ \E S \in SUBSET SourceFiles : Search(S)
    \/ active = "inspection" /\ InspectOnly /\ \E S \in SUBSET SourceFiles :
       AnswersUnobserved(S)
    \/ active = "inspection" /\ InspectOnly /\ \E S \in SUBSET SourceFiles : Answers(S)
    \/ active = "inspection" /\ InspectOnly /\ \E S \in SUBSET SourceFiles, n \in 1..MaxPackages,
       cut \in BOOLEAN : Overview(S, n, cut)
    \/ active = "inspection" /\ InspectOnly /\ \E S \in SUBSET SourceFiles, n \in 1..MaxPackages,
       cut \in BOOLEAN : List(S, n, cut)
    \/ active = "inspection" /\ InspectOnly /\ \E f \in SourceFiles : Read(f)
    \/ active = "inspection" /\ InspectOnly /\ \E f \in SourceFiles, got \in Probes : Probe(f, got)
    \/ active = "inspection" /\ InspectOnly /\ \E f \in SourceFiles : GroundRead(f)
    \/ active = "inspection" /\ InspectOnly /\ \E f \in SourceFiles, got \in Probes : GroundProbe(f, got)
    \/ active = "inspection" /\ InspectOnly /\ CallFails
    \/ active = "inspection" /\ InspectOnly /\ CallBlocked
    \/ active = "inspection" /\ InspectOnly /\ CallDenied
    \/ active = "inspection" /\ InspectOnly /\ GroundNothing
    \/ active = "inspection" /\ InspectOnly /\ GroundRefused
    \/ active = "inspection" /\ InspectOnly /\ AnswersEarly
    \/ active = "inspection" /\ InspectOnly /\ AnswersDependency
    \/ active = "inspection" /\ InspectOnly /\ AnswersBeyondScope

vars ==
    <<active, workflowVars, streamVars, routesVars, plansVars, inspectVars, composerVars>>

Spec == Init /\ [][Next]_vars

-----------------------------------------------------------------------------
TypeOK ==
    /\ WorkflowTypeOK /\ StreamTypeOK /\ RouteTypeOK /\ PlansTypeOK /\ InspectTypeOK
    /\ ComposerTypeOK
=============================================================================
