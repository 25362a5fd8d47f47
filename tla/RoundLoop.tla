----------------------------- MODULE RoundLoop -----------------------------
(***************************************************************************)
(* One turn of the agent (agent/loop.py and agent/round_*.py): rounds of   *)
(* one model call each, with the validation and repair control of          *)
(* validation_controller.py before the call, the tools it may use chosen   *)
(* by phase_gate.py and tool_schema_filter.py, and the completion gate     *)
(* after the last round.                                                   *)
(*                                                                         *)
(* The model's replies and the tools' results are the environment: any of  *)
(* them may come.  Tools are known by family, files by the obligation they *)
(* meet.  The tool policy is the default one (unified loop).               *)
(***************************************************************************)
EXTENDS Integers, FiniteSets

CONSTANTS
    Tasks,               \* what the router may have decided
    MaxRounds,           \* max_model_rounds
    MaxMutationRequests, \* can_request_mutation_action(), and the lock on edits
    MaxArtifactRequests, \* the same counter's limit while an artifact is missing
    MaxMalformed,        \* retries of a malformed tool call
    MaxRepairRequests,   \* can_request_validation_repair()
    MaxRepairAttempts,   \* the controller's max_repair_attempts
    MaxPhaseBlocks,      \* can_retry_phase_block()
    MaxCalls,            \* bound: tool calls in one reply
    BatchRounds          \* bound: the first rounds, whose replies may hold more than one call

\* "rewrite": replace_symbol, apply_edits and delegate_task.
Family == {"read", "discover", "web", "edit", "delete", "rewrite", "test"}
ReadOnlyFamily == {"read", "discover", "web", "test"}  \* read_only definitions
MutationFamily == {"edit", "delete"}                   \* MUTATION_TOOL_NAMES
Task == [kind : {"answer", "inspect", "modify", "operate"}, validation : BOOLEAN,
         readOnly : BOOLEAN, web : BOOLEAN, plan : BOOLEAN,
         wants : SUBSET {"source", "test"}, related : BOOLEAN, openScope : BOOLEAN]

\* route_validator.py: what a decision may combine; _plan_mode_prompt makes the
\* turn a read-only one.
ASSUME TaskAssumption ==
    /\ Tasks \subseteq Task
    /\ \A t \in Tasks : t.plan => t.readOnly
    /\ \A t \in Tasks : /\ t.readOnly => t.kind \in {"answer", "inspect"}
                        /\ t.validation => t.kind \in {"modify", "operate"}
                        /\ t.wants # {} => t.kind = "modify"
ASSUME LimitAssumption ==
    /\ MaxRounds \in Nat \ {0, 1} /\ MaxMutationRequests \in Nat
    /\ MaxArtifactRequests \in Nat /\ MaxMalformed \in Nat /\ MaxRepairRequests \in Nat
    /\ MaxRepairAttempts \in Nat /\ MaxPhaseBlocks \in Nat /\ MaxCalls \in Nat \ {0}
    /\ BatchRounds \in Nat

VARIABLES
    task,       \* the routing decision and what the prompt asks for
    pc,         \* where the turn is
    round,      \* round_index
    runtime,    \* RoundRuntime
    recovery,   \* RecoveryTracker
    evidence,   \* CompletionEvidence
    phase,      \* phase_gate.phase of this round
    tools,      \* the families whose schemas this round's model call offers
    batch,      \* the tool calls of this round's reply and their results
    origin,     \* who injected run_tests
    outcome,    \* LoopOutcome
    status,     \* TurnResult.status
    \* history
    stale,      \* a file changed after the last validation verdict
    tried,      \* run_tests was asked of the executor
    unseen      \* files were rewritten since the last control, which will see it

local == <<phase, tools, batch>>
history == <<stale, tried, unseen>>
vars == <<task, pc, round, runtime, recovery, evidence, local, origin, outcome, status, history>>

-----------------------------------------------------------------------------
Mutation == task.kind = "modify"                          \* requires_mutation
Validated == Mutation /\ task.validation
Resolved == evidence.changed \/ evidence.safe_noop       \* has_resolution_evidence
\* Mutant: the obligation is forgotten for modify tasks.
MoreToOperate == task.kind = "operate" /\ evidence.missing # {}
More == task.kind \in {"modify", "operate"} /\ evidence.missing # {}  \* mutation_artifact_required
\* Mutant: an off-by-two.
NoLastRounds == round >= MaxRounds
LastRounds == round >= MaxRounds - 2

\* Mutant: a passing run_tests completes the change, made or not.
PassedIsComplete == Validated /\ evidence.passed = "yes" /\ evidence.missing = {}

\* validated_change_complete and mutation_change_complete.
ValidatedComplete ==
    Validated /\ evidence.changed /\ evidence.passed = "yes" /\ evidence.missing = {}
MutationComplete ==
    Mutation /\ ~task.validation /\ evidence.changed /\ evidence.missing = {}

DiscoveryNeeded(e) ==
    Validated /\ ~e.commands /\ e.sourceChanged /\ ~e.discovered

\* RevalidationOrchestrator.should_inject
ShouldInject(rt) ==
    /\ rt.validation_action_pending \/ rt.awaiting_revalidation
    /\ task.validation /\ evidence.passed # "yes"
    /\ evidence.changed
    /\ ~DiscoveryNeeded(evidence)
    /\ evidence.passed = "no" => rt.awaiting_revalidation
    /\ recovery.validation_action \/ LastRounds

\* What the executor and the recorders make of a run_tests result: a verdict,
\* a stale pass withdrawn, or, when the call was refused, nothing.
TestEvidence(e, k) ==
    CASE k = "ok" -> [e EXCEPT !.passed = "yes", !.commands = TRUE]
      [] k \in {"fail", "timeout"} -> [e EXCEPT !.passed = "no", !.commands = TRUE]
      [] k = "error" -> [e EXCEPT !.passed = IF @ = "yes" THEN "none" ELSE @]
      [] OTHER -> e
Verdict == {"ok", "fail", "timeout"}
TestResult == Verdict \cup {"error", "refused"}

\* A failure that names a missing module asks for that source file.
MissingModule(e, k) == {e} \cup {[e EXCEPT !.missing = @ \cup {"source"}] : x \in {k} \cap {"fail"}}

RunTests(k) ==
    /\ evidence' \in MissingModule(TestEvidence(evidence, k), k)
    /\ stale' = (stale /\ k \notin Verdict)
    /\ tried' = TRUE
    /\ UNCHANGED unseen

\* A failed run whose result says so; a timeout carries no validation_passed.
RepairNext(rt) == [rt EXCEPT !.validation_repair_pending = TRUE, !.mutation_action_pending = TRUE]

-----------------------------------------------------------------------------
\* What the handlers look at in the results of a batch: an edit that succeeded,
\* run_tests called, failed or passed, a file read, a call outside the schema, any
\* other call, and two error types.
Fact == {"edited", "tested", "failed", "passed", "read", "denied", "ran", "blocked", "strategy"}
NoBatch == [facts |-> {}, count |-> 0, prefetched |-> FALSE]
GatePhase == {"normal", "mutation_required", "test_authoring_required",
              "related_test_discovery_required", "validation_required", "validation_failed"}
BlockedPhase == GatePhase \ {"normal", "validation_required"}
BlockReason == {"schema_denied", "patch_strategy_required"}

NewRuntime ==
    [validation_repair_pending |-> FALSE, validation_action_pending |-> FALSE,
     mutation_action_pending |-> FALSE, awaiting_revalidation |-> FALSE,
     malformed |-> 0, pseudo |-> FALSE, blocks |-> [b \in BlockReason |-> [p \in GatePhase |-> 0]],
     change_final |-> FALSE, inspect_final |-> FALSE, external_final |-> FALSE]
NewRecovery ==
    [empty |-> FALSE, timeout |-> FALSE, final_answer |-> FALSE,
     mutation_requests |-> 0, validation_action |-> FALSE, repair_requests |-> 0]

\* Mutant: `continue` in a loop that counts the rounds by itself.
SameRound ==
    /\ pc' = "control"
    /\ phase' = "normal" /\ tools' = {} /\ batch' = NoBatch /\ origin' = "control"
    /\ UNCHANGED <<round, outcome>>

NextRound ==
    /\ round' = round + 1
    /\ pc' = IF round + 1 = MaxRounds THEN "over" ELSE "control"
    /\ phase' = "normal" /\ tools' = {} /\ batch' = NoBatch /\ origin' = "control"
    /\ UNCHANGED outcome

\* What the rounds kept for themselves is gone.
LeaveRounds ==
    /\ phase' = "normal" /\ tools' = {} /\ batch' = NoBatch /\ origin' = "control"
    /\ round' = MaxRounds /\ runtime' = NewRuntime /\ recovery' = NewRecovery

\* The rounds end with a LoopOutcome.
Return(s, error, answer) ==
    /\ outcome' = [status |-> s, error |-> error, answer |-> answer]
    /\ pc' = "validate"
    /\ LeaveRounds

Init ==
    /\ task \in Tasks
    /\ pc = "preflight" /\ round = 0
    /\ runtime = NewRuntime /\ recovery = NewRecovery
    /\ evidence = [changed |-> FALSE, sourceChanged |-> FALSE, safe_noop |-> FALSE,
                   passed |-> "none", commands |-> FALSE, discovered |-> FALSE,
                   missing |-> task.wants]
    /\ phase = "normal" /\ tools = {} /\ batch = NoBatch
    /\ origin = "control"
    /\ outcome = [status |-> "none", error |-> "none", answer |-> FALSE]
    /\ status = "running"
    /\ stale = FALSE /\ tried = FALSE /\ unseen = FALSE

-----------------------------------------------------------------------------
\* loop.py before the rounds: ask which target is meant, or read it first.
Preflight ==
    /\ pc = "preflight"
    /\ \/ Return("partial", "other", TRUE)
       \/ \E force \in BOOLEAN :
            /\ force => Mutation
            /\ runtime' = [runtime EXCEPT !.mutation_action_pending = force]
            /\ pc' = "control"
            /\ UNCHANGED <<round, recovery, local, origin, outcome>>
    /\ UNCHANGED <<task, evidence, status, history>>

\* update_repair_flags and ValidationRepairController.decide.
Decision ==
    CASE ~Validated -> "off"
      [] Validated /\ evidence.passed = "yes" -> "passed"
      [] Validated /\ evidence.passed = "no" /\ ~runtime.awaiting_revalidation ->
           IF recovery.repair_requests >= MaxRepairAttempts THEN "exhausted" ELSE "repair"
      [] Validated /\ (evidence.passed = "none" \/ runtime.awaiting_revalidation) ->
           IF \/ runtime.validation_action_pending \/ runtime.awaiting_revalidation
              \/ evidence.changed /\ ~More
           THEN "validate"
           ELSE IF More THEN "artifact" ELSE "idle"

\* Mutant: the repair flag is left to those who recorded the failure.
ControlledWithoutRepair(d) ==
    [runtime EXCEPT
        !.validation_action_pending = d = "validate",
        !.mutation_action_pending = @ \/ d \in {"repair", "artifact"},
        !.awaiting_revalidation = d = "validate" /\ @]

\* apply_validation_control
Controlled(d) ==
    [runtime EXCEPT
        !.validation_action_pending = d = "validate",
        !.validation_repair_pending = d = "repair" \/ (d = "idle" /\ @),
        !.mutation_action_pending = @ \/ d \in {"repair", "artifact"},
        !.awaiting_revalidation = d = "validate" /\ @]

\* The part of validation_repair_gate that picks what may be done next.
RepairTools == {{"read"}, {"edit"}, {"read", "edit"}, {"read", "discover", "edit"}}

\* build_phase_tool_gate: the phase and the families it allows.
Gates(rt, lock, spent, e) ==
    CASE ~(task.kind \in {"modify", "operate"}) \/ task.web -> {<<"normal", Family>>}
      [] OTHER ->
         IF Mutation /\ More
         THEN {<<IF "test" \in e.missing THEN "test_authoring_required" ELSE "mutation_required", S>> :
                   S \in {{"edit"}} \cup IF spent THEN {} ELSE {{"read", "discover", "edit"}}}
         ELSE IF rt.validation_action_pending \/ rt.awaiting_revalidation
         THEN IF DiscoveryNeeded(e)
              THEN {<<"related_test_discovery_required", {"discover"}>>}
              ELSE {<<"validation_required", {"test"}>>}
         ELSE IF rt.validation_repair_pending
         THEN {<<"validation_failed", S>> : S \in RepairTools}
         ELSE IF lock
         THEN {<<"mutation_required", {"edit"} \cup IF spent THEN {} ELSE {"read", "discover"}>>}
         ELSE {<<"normal", Family>>}

\* schemas_for_routing and what run_rounds passes to it.
Offered(rt, lock, gate) ==
    LET final == rt.inspect_final \/ rt.external_final \/ rt.change_final
        offer == {f \in Family :
                    /\ task.readOnly => f \in {"read", "discover", "web"}
                    /\ rt.validation_repair_pending => f # "test"
                    /\ lock => \/ f = "edit"
                               \/ f = "test" /\ task.validation /\ ~evidence.commands
                    /\ rt.validation_action_pending => f = "test"
                    /\ ~final /\ f \in gate[2]}
    IN IF offer = {} /\ gate = <<"validation_failed", {"read"}>> THEN {"edit"} ELSE offer

Control ==
    /\ pc = "control"
    /\ LET d == Decision
           rt == Controlled(d)
           waiting == rt.validation_action_pending \/ rt.awaiting_revalidation
           seeded == [evidence EXCEPT !.discovered =
                        @ \/ (waiting /\ ~More /\ ~task.web /\ DiscoveryNeeded(evidence) /\ task.related)]
       IN \/ /\ d = "exhausted"
             /\ Return("partial", "other", TRUE)
             /\ UNCHANGED evidence
          \/ /\ d = "validate" /\ (recovery.validation_action \/ LastRounds)
             /\ pc' = "inject" /\ origin' = "control"
             /\ runtime' = rt /\ evidence' = seeded
             /\ UNCHANGED <<round, recovery, local, outcome>>
          \/ /\ d # "exhausted" /\ ~(d = "validate" /\ (recovery.validation_action \/ LastRounds))
             /\ \E spent, ready \in BOOLEAN :
                  LET lock == /\ rt.mutation_action_pending /\ ~rt.validation_repair_pending
                              /\ spent \/ recovery.mutation_requests >= MaxMutationRequests
                      asked == [rt EXCEPT
                                  !.inspect_final = @ \/ (ready /\ task.kind = "inspect"),
                                  !.external_final = @ \/ (ready /\ task.web /\ round > 0)]
                  IN /\ spent => round > 0
                     /\ \E gate \in Gates(asked, lock, spent, seeded) :
                          /\ phase' = gate[1]
                          /\ tools' = Offered(asked, lock, gate)
                     /\ runtime' = asked
             /\ evidence' = seeded
             /\ pc' = "model"
             /\ UNCHANGED <<round, recovery, batch, origin, outcome>>
    /\ unseen' = FALSE
    /\ UNCHANGED <<task, status, stale, tried>>

-----------------------------------------------------------------------------
\* The end of _record_mutation_and_validation_state: it knows the reply's own
\* run_tests only, and only whether some of them failed.
AfterTests(rt) ==
    LET asked == [rt EXCEPT !.validation_action_pending = @ /\ "tested" \notin batch.facts,
                            !.awaiting_revalidation = @ /\ "tested" \notin batch.facts]
    IN IF "failed" \in batch.facts THEN RepairNext(asked) ELSE asked

\* run_tests injected by the loop: before the model call (maybe_inject_validation),
\* after an edit (_inject_validation), or for a reply that cannot be parsed.
Inject(k) ==
    /\ pc = "inject"
    /\ UNCHANGED <<task, status>>
    /\ RunTests(k)
    /\ LET rt == [runtime EXCEPT !.validation_action_pending = FALSE,
                                 !.awaiting_revalidation = @ /\ origin = "edit",
                                 !.malformed = IF origin = "malformed" /\ k = "fail" THEN 0 ELSE @]
           told == IF k = "fail" THEN RepairNext(rt) ELSE rt
       IN IF origin = "edit"
          THEN /\ runtime' = AfterTests(told)
               /\ pc' = "conclude"
               /\ UNCHANGED <<round, recovery, local, origin, outcome>>
          ELSE IF ValidatedComplete'
               THEN Return("success", "none", TRUE)
               ELSE runtime' = told /\ NextRound /\ UNCHANGED recovery

-----------------------------------------------------------------------------
\* The model call ends without a reply.
StreamTimeout ==
    /\ pc = "model"
    /\ IF recovery.timeout
       THEN Return("failed", "other", FALSE)
       ELSE /\ recovery' = [recovery EXCEPT !.timeout = TRUE]
            /\ NextRound
            /\ UNCHANGED runtime
    /\ UNCHANGED <<task, evidence, status, history>>

\* A reply with native tool calls.
ToolCalls ==
    /\ pc = "model"
    /\ CASE runtime.external_final -> Return("partial", "other", TRUE)
         [] ~runtime.external_final /\ runtime.change_final /\ MutationComplete ->
              Return("success", "none", TRUE)
         [] OTHER -> /\ \E p \in BOOLEAN : /\ p => MaxCalls > 1 /\ round < BatchRounds
                                         /\ batch' = [NoBatch EXCEPT !.prefetched = p]
                     /\ pc' = "tools"
                     /\ UNCHANGED <<round, runtime, recovery, phase, tools, origin, outcome>>
    /\ UNCHANGED <<task, evidence, status, history>>

EmptyResponse ==
    /\ pc = "model"
    /\ IF recovery.empty
       THEN Return("failed", "other", FALSE)
       ELSE /\ recovery' = [recovery EXCEPT !.empty = TRUE]
            /\ NextRound
            /\ UNCHANGED runtime
    /\ UNCHANGED <<task, evidence, status, history>>

PseudoToolCall ==
    /\ pc = "model"
    /\ IF runtime.pseudo
       THEN \E e \in {"recoverable", "other"} : Return("failed", e, TRUE)
       ELSE /\ runtime' = [runtime EXCEPT !.pseudo = TRUE]
            /\ NextRound
            /\ UNCHANGED recovery
    /\ UNCHANGED <<task, evidence, status, history>>

LengthCutoff ==
    /\ pc = "model"
    /\ \E a \in BOOLEAN : Return("partial", "other", a)
    /\ UNCHANGED <<task, evidence, status, history>>

\* _reasoning_only, _malformed_tool_call and the text handler ask for an edit.
AskForEdit(rt) ==
    /\ recovery' = [recovery EXCEPT !.mutation_requests = @ + 1]
    /\ runtime' = [rt EXCEPT !.mutation_action_pending = TRUE]
    /\ NextRound
    /\ UNCHANGED <<evidence, history>>

MayAskForEdit(limit) == recovery.mutation_requests < limit

\* A reply that cannot be parsed.
MalformedToolCall ==
    /\ pc = "model"
    /\ LET write == Mutation /\ More /\ MayAskForEdit(MaxArtifactRequests)
           retry == /\ task.kind # "answer" \/ task.web       \* allows_tool_use
                    /\ runtime.malformed < MaxMalformed
           validate == /\ task.validation /\ evidence.changed
                       /\ ~recovery.validation_action \/ LastRounds
       IN \/ /\ write
             /\ AskForEdit([runtime EXCEPT !.malformed = 0])
          \/ /\ ~write /\ retry
             /\ runtime' = [runtime EXCEPT !.malformed = @ + 1]
             /\ NextRound
             /\ UNCHANGED <<recovery, evidence, history>>
          \/ /\ ~write /\ ~retry /\ validate
             /\ recovery' = [recovery EXCEPT !.validation_action = TRUE]
             /\ pc' = "inject" /\ origin' = "malformed"
             /\ UNCHANGED <<round, runtime, evidence, local, outcome, history>>
          \/ /\ ~write /\ ~retry /\ ~validate
             /\ Return("failed", "recoverable", TRUE)
             /\ UNCHANGED <<evidence, history>>
    /\ UNCHANGED <<task, status>>

\* What both handlers ask for before they accept the end of the turn.
NeedsDiscovery == phase = "related_test_discovery_required"
\* Mutant: a validation that is due does not keep an answer from being accepted.
ValidationIsOptional == FALSE
NeedsValidation == runtime.validation_action_pending /\ evidence.passed # "yes"
NeedsRepair ==                 \* needs_validation_repair or validation_repair_needed
    /\ task.validation /\ evidence.passed = "no"
    /\ evidence.changed \/ Mutation
    /\ recovery.repair_requests < MaxRepairRequests

AskForValidation ==
    IF recovery.validation_action
    THEN /\ Return("partial", "other", TRUE)
         /\ UNCHANGED <<evidence, history>>
    ELSE /\ recovery' = [recovery EXCEPT !.validation_action = TRUE]
         /\ NextRound
         /\ UNCHANGED <<runtime, evidence, history>>

AskForRepair ==
    /\ recovery' = [recovery EXCEPT !.repair_requests = @ + 1]
    /\ runtime' = RepairNext(runtime)
    /\ NextRound
    /\ UNCHANGED <<evidence, history>>

AskAgain == NextRound /\ UNCHANGED <<runtime, recovery, evidence, history>>

\* Reasoning without an answer.
ReasoningOnly ==
    /\ pc = "model"
    /\ LET edit == \/ Mutation /\ ~Resolved /\ MayAskForEdit(MaxMutationRequests)
                   \/ More /\ MayAskForEdit(MaxArtifactRequests)
       IN CASE NeedsDiscovery -> AskAgain
            [] ~NeedsDiscovery /\ edit -> AskForEdit(runtime)
            [] ~NeedsDiscovery /\ ~edit /\ NeedsValidation -> AskForValidation
            [] ~NeedsDiscovery /\ ~edit /\ ~NeedsValidation /\ NeedsRepair -> AskForRepair
            [] OTHER ->
                 IF recovery.final_answer
                 THEN /\ Return("partial", "recoverable", TRUE)
                      /\ UNCHANGED <<evidence, history>>
                 ELSE /\ recovery' = [recovery EXCEPT !.final_answer = TRUE]
                      /\ NextRound
                      /\ UNCHANGED <<runtime, evidence, history>>
    /\ UNCHANGED <<task, status>>

\* A visible answer.  Whether the answer itself is refused (premature, badly
\* grounded, out of scope) is up to its wording.
TextAnswer ==
    /\ pc = "model"
    /\ LET edit == \/ Mutation /\ ~Resolved /\ MayAskForEdit(MaxMutationRequests)
                   \/ More /\ MayAskForEdit(MaxArtifactRequests)
       IN CASE edit -> AskForEdit(runtime)
            [] ~edit /\ More ->
                 /\ Return("partial", "other", TRUE)
                 /\ UNCHANGED <<evidence, history>>
            [] ~edit /\ ~More /\ NeedsDiscovery -> AskAgain
            [] ~edit /\ ~More /\ ~NeedsDiscovery /\ NeedsValidation -> AskForValidation
            [] ~edit /\ ~More /\ ~NeedsDiscovery /\ ~NeedsValidation /\ NeedsRepair -> AskForRepair
            [] OTHER ->
                 \/ AskAgain
                 \/ /\ \E s \in {"success", "partial"} :
                         Return(s, IF s = "success" THEN "none" ELSE "other", TRUE)
                    /\ UNCHANGED <<evidence, history>>
    /\ UNCHANGED <<task, status>>

-----------------------------------------------------------------------------
\* tool_call_processor.py, one call at a time.  A batch of two or more read-only
\* calls has been run by _prefetch_read_only before its calls are gated.
Called(f, facts) ==
    /\ pc = "tools"
    /\ batch.count < MaxCalls
    /\ batch.count > 0 => round < BatchRounds
    /\ batch.prefetched => f \in ReadOnlyFamily
    /\ batch' = [batch EXCEPT !.count = @ + 1, !.facts = @ \cup facts \cup IF f = "test" THEN {"tested"} ELSE {}]
    /\ UNCHANGED <<task, pc, round, runtime, recovery, phase, tools, origin, outcome, status>>

\* The loop guard may add that nothing new was observed.
Observed(facts) == {facts \cup {"ran"}, facts \cup {"ran", "blocked"}}

CallReads(f, k) ==
    /\ f \in {"read", "discover", "web"} \cap tools /\ k \in {"ok", "fail"}
    /\ \E facts \in Observed(IF f = "read" /\ k = "ok" THEN {"read"} ELSE {}) : Called(f, facts)
    /\ evidence' = [evidence EXCEPT !.discovered = @ \/ (f = "discover" /\ k = "ok")]
    /\ UNCHANGED history

\* write_file and patch_file on a source file, a test or another one; or
\* nothing to change (safe_noop).
CallEdits(what) ==
    /\ "edit" \in tools
    /\ what \in {"source", "test", "other", "noop"}
    /\ Called("edit", {"edited", "ran"})
    /\ \E met \in SUBSET (evidence.missing \cap {what}) :
         evidence' = [evidence EXCEPT
                        !.changed = @ \/ what # "noop",
                        !.sourceChanged = @ \/ what = "source",
                        !.safe_noop = @ \/ what = "noop",
                        !.discovered = @ \/ what = "test",
                        !.missing = @ \ met]
    /\ stale' = (stale \/ what # "noop")
    /\ UNCHANGED <<tried, unseen>>

CallDeletes ==
    /\ "delete" \in tools
    /\ Called("delete", {"edited", "ran"})
    /\ evidence' = [evidence EXCEPT !.changed = TRUE]
    /\ stale' = TRUE
    /\ UNCHANGED <<tried, unseen>>

\* replace_symbol, apply_edits and delegate_task change files and report them as
\* evidence, but are not in MUTATION_TOOL_NAMES: the round does not notice.
CallRewrites(what) ==
    /\ "rewrite" \in tools
    /\ what \in {"source", "test", "other"}
    /\ \E facts \in Observed({}) : Called("rewrite", facts)
    /\ \E met \in SUBSET (evidence.missing \cap {what}) :
         evidence' = [evidence EXCEPT
                        !.changed = TRUE,
                        !.sourceChanged = @ \/ what = "source",
                        !.missing = @ \ met]
    /\ stale' = TRUE /\ unseen' = TRUE
    /\ UNCHANGED tried

CallTests(k) ==
    /\ "test" \in tools /\ k \in TestResult \ {"refused"}
    /\ \E facts \in Observed(CASE k = "ok" -> {"passed"} [] k = "fail" -> {"failed"} [] OTHER -> {}) :
         Called("test", facts)
    /\ RunTests(k)

\* A call whose result is thrown away; in a prefetched batch the executor has
\* run it all the same and written its evidence.
Discarded(f, k) ==
    IF batch.prefetched /\ f = "test"
    THEN /\ k \in TestResult
         /\ evidence' = TestEvidence(evidence, k)
         /\ stale' = (stale /\ k \notin Verdict)
         /\ tried' = TRUE
         /\ UNCHANGED unseen
    ELSE /\ k = "refused"
         /\ UNCHANGED <<evidence, history>>

\* The call is not in this round's schema.
CallDenied(f, k) ==
    /\ f \in Family \ tools
    /\ Called(f, {"denied"})
    /\ Discarded(f, k)

\* Arguments, policy, approval, budget, loop guard, or a patch that failed before.
CallRefused(f, k, why) ==
    /\ f \in tools
    /\ why \in {"denied", "refused", "blocked"} \cup IF f \in MutationFamily THEN {"strategy"} ELSE {}
    /\ Called(f, IF why = "denied" THEN {why} ELSE {why, "ran"} \cap Fact)
    /\ Discarded(f, k)

\* RoundToolHandler._record_mutation_and_validation_state
RecordBatch ==
    /\ pc = "tools"
    /\ batch.count > IF batch.prefetched THEN 1 ELSE 0
    /\ LET edited == "edited" \in batch.facts
           clear == {"edited", "passed"} \cap batch.facts # {}
           again == evidence.passed = "no" /\ task.validation /\ ~More
           kept == IF clear THEN [runtime EXCEPT !.blocks = [b \in BlockReason |-> [p \in GatePhase |-> 0]]] ELSE runtime
           rt == IF edited
                 THEN [kept EXCEPT
                         !.mutation_action_pending = More,
                         !.validation_repair_pending = FALSE,
                         !.awaiting_revalidation = again,
                         !.validation_action_pending =
                             task.validation /\ evidence.passed # "yes" /\ ~More /\ ~again]
                 ELSE kept
       IN IF edited /\ ShouldInject(rt)
          THEN pc' = "inject" /\ origin' = "edit" /\ runtime' = rt
          ELSE pc' = "conclude" /\ runtime' = AfterTests(rt) /\ UNCHANGED origin
    /\ UNCHANGED <<task, round, recovery, evidence, local, outcome, status, history>>

AllDenied == "denied" \in batch.facts /\ "ran" \notin batch.facts
Tried(reason) == runtime.blocks[reason][phase]
CountBlock(reason) == [runtime EXCEPT !.blocks[reason][phase] = @ + 1]

\* RoundToolHandler.handle after the batch: a finished change gets one round
\* without tools for its answer.
ChangeComplete ==
    /\ pc = "conclude"
    /\ ValidatedComplete \/ MutationComplete
    /\ IF runtime.change_final
       THEN Return("success", "none", TRUE)
       ELSE /\ runtime' = [runtime EXCEPT !.change_final = TRUE]
            /\ NextRound
            /\ UNCHANGED recovery
    /\ UNCHANGED <<task, evidence, status, history>>

\* _handle_phase_block: every call of the batch was outside the phase.
PhaseBlocked ==
    /\ pc = "conclude"
    /\ ~(ValidatedComplete \/ MutationComplete)
    /\ AllDenied /\ phase \in BlockedPhase
    /\ LET again == /\ Tried("schema_denied") < MaxPhaseBlocks
                    /\ phase = "mutation_required" => MayAskForEdit(MaxArtifactRequests)
           rt == [CountBlock("schema_denied") EXCEPT !.mutation_action_pending = TRUE]
       IN IF again
          THEN /\ runtime' = [rt EXCEPT !.validation_repair_pending = @ \/ phase = "validation_failed"]
               /\ recovery' = [recovery EXCEPT !.mutation_requests =
                                  IF phase = "mutation_required" THEN @ + 1 ELSE @]
               /\ NextRound
          ELSE Return("partial", "other", TRUE)
    /\ UNCHANGED <<task, evidence, status, history>>

\* _handle_patch_strategy, then the loop guard's verdict, then the next round.
Proceed ==
    /\ pc = "conclude"
    /\ ~(ValidatedComplete \/ MutationComplete)
    /\ ~(AllDenied /\ phase \in BlockedPhase)
    /\ LET strategy == "strategy" \in batch.facts
           rt == IF strategy THEN RepairNext(CountBlock("patch_strategy_required")) ELSE runtime
           stuck == strategy /\ Tried("patch_strategy_required") >= MaxPhaseBlocks
           blocked == "blocked" \in batch.facts
           answer == ~Mutation /\ ~runtime.inspect_final
           nudge == /\ Mutation /\ ~Resolved /\ "read" \in batch.facts
                    /\ MayAskForEdit(MaxMutationRequests)
       IN \/ /\ stuck \/ (blocked /\ ~answer)
             /\ Return("partial", "other", TRUE)
             /\ UNCHANGED <<evidence, history>>
          \/ /\ ~stuck /\ blocked /\ answer
             /\ runtime' = [rt EXCEPT !.inspect_final = TRUE]
             /\ NextRound
             /\ UNCHANGED <<recovery, evidence, history>>
          \/ /\ ~stuck /\ ~blocked /\ nudge
             /\ AskForEdit(rt)
          \/ /\ ~stuck /\ ~blocked /\ ~nudge
             /\ runtime' = rt
             /\ NextRound
             /\ UNCHANGED <<recovery, evidence, history>>
    /\ UNCHANGED <<task, status>>

-----------------------------------------------------------------------------
\* No round left: a plan in plan mode, otherwise a partial answer.
RoundsExhausted ==
    /\ pc = "over"
    /\ \/ task.plan /\ Return("success", "none", TRUE)
       \/ Return("partial", "other", TRUE)
    /\ UNCHANGED <<task, evidence, status, history>>

\* loop.py after the rounds: an edit nobody validated is validated once.
AutoValidate(k) ==
    /\ pc = "validate"
    /\ pc' = "finalize"
    /\ IF Mutation /\ outcome.status # "success" /\ evidence.changed /\ evidence.passed # "yes"
       THEN /\ k \in TestResult
            /\ evidence' = TestEvidence(evidence, k)
            /\ stale' = (stale /\ k \notin Verdict)
            /\ tried' = TRUE
            /\ UNCHANGED unseen
            /\ outcome' = IF k = "ok" THEN [status |-> "success", error |-> "none", answer |-> TRUE] ELSE outcome
       ELSE /\ k = "refused"
            /\ UNCHANGED <<evidence, history, outcome>>
    /\ UNCHANGED <<task, round, runtime, recovery, local, origin, status>>

\* Mutant: the outcome of the rounds is reported as it is.
FinalizedUngated(observed) ==
    IF outcome.status = "failed" /\ outcome.error = "recoverable" /\ observed
    THEN "partial" ELSE outcome.status

\* finalize_completion and the validator of TurnResult: a success that lacks its
\* evidence raises, and the turn is reported as failed.
Finalized(observed) ==
    LET unvalidated == Validated /\ evidence.passed # "yes"
        reportable == /\ evidence.passed = "no" /\ evidence.commands
                      /\ evidence.changed /\ outcome.answer
        noChange == Mutation /\ ~Resolved
        missing == evidence.missing # {} \/ (unvalidated /\ ~reportable)
        backed == /\ outcome.status = "success"
                  /\ noChange => task.openScope
                  /\ ~missing
        kept == CASE outcome.status = "success" /\ backed -> "success"
                  [] outcome.status = "success" /\ ~backed -> "failed"
                  [] outcome.status = "failed" /\ outcome.error = "recoverable" /\ observed -> "partial"
                  [] OTHER -> outcome.status
        gated == IF kept \in {"success", "partial"} /\ unvalidated
                 THEN IF reportable THEN "partial" ELSE "failed"
                 ELSE kept
    IN IF gated = "success" /\ (~outcome.answer \/ noChange) THEN "failed" ELSE gated

Finalize ==
    /\ pc = "finalize"
    /\ \E observed \in BOOLEAN : status' = Finalized(observed)
    /\ pc' = "ended"
    /\ UNCHANGED <<task, round, runtime, recovery, evidence, local, origin, outcome, history>>

\* CancelledError at an await, and any other exception inside the try.
Abort(s) ==
    /\ pc # "ended"
    /\ s \in {"cancelled", "failed"}
    /\ status' = s
    /\ outcome' = [status |-> "raised", error |-> "other", answer |-> FALSE]
    /\ pc' = "ended"
    /\ LeaveRounds
    /\ UNCHANGED <<task, evidence, history>>

Ended == pc = "ended" /\ UNCHANGED vars

-----------------------------------------------------------------------------
ToolCall ==
    \/ \E f \in Family, k \in {"ok", "fail"} : CallReads(f, k)
    \/ \E w \in {"source", "test", "other", "noop"} : CallEdits(w)
    \/ CallDeletes
    \/ \E w \in {"source", "test", "other"} : CallRewrites(w)
    \/ \E k \in TestResult : CallTests(k)
    \/ \E f \in Family \ tools, k \in TestResult : CallDenied(f, k)
    \/ \E f \in tools, k \in TestResult, why \in {"denied", "refused", "blocked", "strategy"} : CallRefused(f, k, why)

Response ==
    \/ StreamTimeout \/ ToolCalls \/ EmptyResponse \/ PseudoToolCall
    \/ LengthCutoff \/ MalformedToolCall \/ ReasoningOnly \/ TextAnswer

Step ==
    \/ Preflight \/ Control \/ RecordBatch
    \/ \E k \in TestResult : Inject(k)
    \/ ChangeComplete \/ PhaseBlocked \/ Proceed \/ RoundsExhausted
    \/ \E k \in TestResult : AutoValidate(k)
    \/ Finalize \/ Response \/ ToolCall

Next == (\E s \in {"cancelled", "failed"} : Abort(s)) \/ Step \/ Ended

Spec == Init /\ [][Next]_vars

\* The turn is one asyncio task that no await blocks for ever: the model stream and
\* every tool have a timeout, and what is left then raises.
Fairness == WF_vars(Next)
FairSpec == Spec /\ Fairness

-----------------------------------------------------------------------------
TypeOK ==
    /\ task \in Tasks
    /\ pc \in {"preflight", "control", "inject", "model", "tools", "conclude",
               "over", "validate", "finalize", "ended"}
    /\ round \in 0..MaxRounds
    /\ runtime \in [validation_repair_pending : BOOLEAN, validation_action_pending : BOOLEAN,
                    mutation_action_pending : BOOLEAN, awaiting_revalidation : BOOLEAN,
                    malformed : 0..MaxMalformed, pseudo : BOOLEAN,
                    blocks : [BlockReason -> [GatePhase -> 0..MaxPhaseBlocks]],
                    change_final : BOOLEAN, inspect_final : BOOLEAN, external_final : BOOLEAN]
    /\ recovery \in [empty : BOOLEAN, timeout : BOOLEAN, final_answer : BOOLEAN,
                     mutation_requests : Nat, validation_action : BOOLEAN,
                     repair_requests : 0..MaxRepairRequests]
    /\ evidence \in [changed : BOOLEAN, sourceChanged : BOOLEAN, safe_noop : BOOLEAN,
                     passed : {"none", "yes", "no"}, commands : BOOLEAN, discovered : BOOLEAN,
                     missing : SUBSET {"source", "test"}]
    /\ phase \in GatePhase /\ tools \subseteq Family
    /\ batch \in [facts : SUBSET Fact, count : 0..MaxCalls, prefetched : BOOLEAN]
    /\ origin \in {"control", "edit", "malformed"}
    /\ outcome \in [status : {"none", "success", "partial", "failed", "raised"},
                    error : {"none", "recoverable", "other"}, answer : BOOLEAN]
    /\ status \in {"running", "success", "partial", "failed", "cancelled"}
    /\ stale \in BOOLEAN /\ tried \in BOOLEAN /\ unseen \in BOOLEAN

\* A turn that reports success has what finalize_completion and TurnResult ask
\* for: a change where one was requested and, where validation was requested,
\* a validation that ran and whose latest verdict is a pass, with no requested
\* artifact missing.
SuccessIsBacked ==
    pc = "ended" /\ status = "success" =>
        /\ Mutation => Resolved
        /\ Validated => evidence.passed = "yes" /\ evidence.commands /\ evidence.missing = {}

\* Unless it is cancelled or raises, a turn that must be validated and has
\* changed a file does not end before run_tests was asked for: by the model, by
\* an injected action, or by the automatic validation after the rounds.
EditsAreValidated ==
    pc = "ended" /\ outcome.status # "raised" /\ Validated /\ evidence.changed => tried

\* The rounds do not run out on a change that could have been validated: the
\* actions injected in the last two rounds see to it before loop.py has to.  Only
\* what the last round itself rewrites with a tool it does not take for an edit
\* comes too late.
RoundsValidateEdits ==
    pc = "over" /\ Validated /\ evidence.changed /\ ~unseen /\ evidence.missing = {} /\ ~DiscoveryNeeded(evidence) => tried

\* After a failed validation run_tests is not offered again until an edit has
\* succeeded: the repair phase comes first.  An edit that found nothing to change
\* (safe_noop) counts as the repair, although no file has changed.
RepairBeforeRetest ==
    pc = "model" /\ Validated /\ evidence.passed = "no" /\ ~stale /\ ~evidence.safe_noop
        => "test" \notin tools

\* A missing artifact comes before validation: run_tests is not offered while one
\* is missing, and neither the validation control nor an edit injects it.  A source
\* file that a failed validation found missing does not stop the control:
\* awaiting_revalidation outlives the run.
ValidationWaitsForArtifacts ==
    Validated /\ ~task.web /\ evidence.missing # {} =>
        /\ pc = "model" => "test" \notin tools
        /\ pc = "inject" => \/ origin = "malformed"
                            \/ evidence.missing = {"source"} /\ evidence.passed = "no"

\* A turn that has to change a file and has not done so can always do it, unless
\* a failed validation sent it to read first or its final answer is due.
NotLockedOut ==
    pc = "model" /\ Mutation /\ ~Resolved /\ phase # "validation_failed" /\ ~runtime.external_final
        => "edit" \in tools

\* Every turn ends, whatever the model replies and the tools return.
EveryTurnEnds == <>(pc = "ended")

\* plan/01_open_source_alignment_contracts.md:28: validation is run after a file
\* change.  It is not always: an edit leaves validation_passed as it was.
FreshValidation ==
    pc = "ended" /\ status = "success" /\ Validated => ~stale

\* phase_gate.py:130-136: in this phase the discovery tools are allowed and
\* preferred.  But only_validation leaves run_tests alone in the schema, and of
\* the two filters nothing is left.
DiscoveryHasTools ==
    pc = "model" /\ phase = "related_test_discovery_required" => tools # {}

\* turn_completion.py:50-58: an answer that proposes instead of changing is the
\* success of an open-scope request.  The validator of TurnResult refuses it.
OpenScopeProposalSucceeds ==
    [][pc = "finalize" /\ pc' = "ended" /\ outcome.status = "success" /\ outcome'.status # "raised"
         /\ task.openScope /\ Mutation /\ ~task.validation /\ ~Resolved /\ evidence.missing = {}
         => status' = "success"]_vars
============================================================================
