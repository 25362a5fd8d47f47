------------------------- MODULE GenerationWorkflow -------------------------
(***************************************************************************)
(* GenerationWorkflow.run (agent/workflow.py): a plan from the model or a   *)
(* language strategy, its files written stage by stage, tests first, the    *)
(* validation, the two repair loops (workflow_repair.py) and the completion *)
(* check (completion_checker.py).                                           *)
(*                                                                         *)
(* The plan has a source file, a test file and a document.  Of a source     *)
(* the model keeps what it defines, of a test what it uses and whether it   *)
(* has test functions, of a document whether all that it names is there.    *)
(* What the language model answers is arbitrary, and a validation that      *)
(* could pass may fail.  What others do to the files is not modelled.       *)
(***************************************************************************)
EXTENDS Integers, Sequences, FiniteSets, SequencesExt

CONSTANTS
    Symbols,          \* public names of the source
    Obligations,      \* those that the plan obliges
    PlanAttempts,     \* ModelProjectPlanner._PLAN_ATTEMPTS
    PlannerAttempts,  \* planner_attempts
    MaxRepairs,       \* max_repair_attempts
    Errors,           \* hashes of the log of a failed validation
    NoError,
    RepairFiles       \* bound: files that a repair changes

ASSUME WorkflowAssumption == {PlanAttempts, PlannerAttempts, MaxRepairs} \subseteq Nat

VARIABLES
    pc,
    asked,            \* create_plan calls, and attempts of the current one
    kept,             \* last_plan, by what project_plan_quality_errors says of it
    plan,             \* the class of the plan that is used
    contract,         \* the names that the plan's content of the source defines
    disk,
    evidence,         \* completion_evidence: files changed, validation_passed
    last,             \* the last of validation_results
    attempts,         \* repair_attempts, of both loops
    signature,        \* previous_signature
    blocked,          \* the last of recovery_states is blocked
    steps,            \* step_history, by the steps that are running
    result,           \* the status of the TurnResult
    finished,         \* GenerationWorkflowFinished was published
    \* history
    fresh,            \* no file was written since the last validation began
    repeats           \* validations in a row, each after a repair, that failed alike

workflowVars == <<pc, asked, kept, plan, contract, disk, evidence, last, attempts, signature, blocked,
          steps, result, finished, fresh, repeats>>

Files == {"source", "test", "document"}
Absent == [is |-> "absent"]
Broken == [is |-> "broken"]                     \* not the Python that its name promises
Sources == {Broken} \cup [is : {"source"}, defs : SUBSET Symbols]
Tests == {Broken} \cup [is : {"test"}, uses : SUBSET Symbols, functions : BOOLEAN]
Documents == [is : {"document"}, right : BOOLEAN]
Contents(f) == CASE f = "source" -> Sources [] f = "test" -> Tests [] OTHER -> Documents
Written(fs) == {c \in [fs -> Sources \cup Tests \cup Documents] : \A f \in fs : c[f] \in Contents(f)}
Stage(f) == CASE f = "source" -> "implementation" [] f = "test" -> "tests" [] OTHER -> "skeleton"

NoResult == [ok |-> FALSE, error |-> NoError]

WorkflowInit ==
    /\ pc = "planning" /\ asked = <<0, 0>> /\ kept = "none" /\ plan = "none"
    /\ contract \in SUBSET Symbols /\ disk = [f \in Files |-> Absent]
    /\ evidence = [changed |-> FALSE, passed |-> "none"] /\ last = NoResult
    /\ attempts = 0 /\ signature = {} /\ blocked = FALSE
    /\ steps = <<>> /\ result = "none" /\ finished = FALSE
    /\ fresh = FALSE /\ repeats = 0

Planning == <<asked, kept, plan>>
Outcome == <<result, finished>>
Repairing == <<attempts, signature, blocked, repeats>>
Disk == <<contract, disk, evidence, last, fresh>>

-----------------------------------------------------------------------------
\* _attempt_plan: no JSON, a payload that is no plan, and one that _sanitize_plan
\* refuses are all no plan; create_plan asks again.
AttemptFails ==
    /\ pc = "planning" /\ asked[1] < PlannerAttempts
    /\ asked' = IF asked[2] + 1 < PlanAttempts THEN <<asked[1], asked[2] + 1>> ELSE <<asked[1] + 1, 0>>
    /\ UNCHANGED <<pc, kept, plan, Disk, steps, Repairing, Outcome>>

\* A plan that _model_plan_acceptable refuses is kept; "sound" has no quality errors.
AttemptKept ==
    /\ pc = "planning" /\ asked[1] < PlannerAttempts
    /\ asked' = <<asked[1] + 1, 0>> /\ kept' \in {"sound", "unsound"}
    /\ UNCHANGED <<pc, plan, Disk, steps, Repairing, Outcome>>

AttemptAccepted ==
    /\ pc = "planning" /\ asked[1] < PlannerAttempts
    /\ plan' = "accepted" /\ pc' = "planned" /\ asked' = <<0, 0>> /\ kept' = "none"
    /\ UNCHANGED <<Disk, steps, Repairing, Outcome>>

\* The last plan when it is sound, and else the plan of the strategy.
FallsBack ==
    /\ pc = "planning" /\ asked[1] = PlannerAttempts
    /\ plan' = (IF kept = "sound" THEN "sound" ELSE "strategy") /\ pc' = "planned"
    /\ asked' = <<0, 0>> /\ kept' = "none"
    /\ UNCHANGED <<Disk, steps, Repairing, Outcome>>

\* _plan_approval, when plan mode has one; GenerationWorkflowStarted was published.
Approved ==
    /\ pc = "planned" /\ pc' = "skeleton"
    /\ UNCHANGED <<Planning, Disk, steps, Repairing, Outcome>>
Rejected ==
    /\ pc = "planned" /\ pc' = "done" /\ result' = "cancelled"
    /\ UNCHANGED <<Planning, Disk, steps, Repairing, finished>>

-----------------------------------------------------------------------------
Symbol(c) == IF c.is = "source" THEN c.defs ELSE {}
Uses(c) == IF c.is = "test" THEN c.uses ELSE {}

\* _preserves_planned_public_contract: every obligation, and of three or more names at
\* least so many.
Least(n) == IF n \div 2 < 2 THEN 2 ELSE IF n \div 2 > 4 THEN 4 ELSE n \div 2
Preserves(c) ==
    LET names == contract \cup Obligations IN
    /\ Obligations \subseteq Symbol(c)
    /\ Cardinality(names) >= 3 => Cardinality(names \cap Symbol(c)) >= Least(Cardinality(names))
\* What generate_file returns for the source: an answer that parses and preserves the
\* contract, or else what the plan says.
Generated == {c \in Sources : (c # Broken /\ Preserves(c)) \/ Symbol(c) = contract}

\* The files of the plan after some were written.
Over(made) == [f \in Files |-> IF f \in DOMAIN made THEN made[f] ELSE disk[f]]

Order == <<"skeleton", "tests", "implementation", "validation">>
Following(step) == Order[CHOOSE i \in 2..Len(Order) : Order[i - 1] = step]
\* The plans of the strategies have a skeleton of the source as well.
StageFiles(step) ==
    {f \in Files : Stage(f) = step} \cup IF step = "skeleton" /\ plan = "strategy" THEN {"source"} ELSE {}

\* The files of a stage, as the editor makes them of the plan's; what it makes of the
\* source becomes the plan's, and with it the contract that the check will read.
WriteStage ==
    /\ pc \in {"skeleton", "tests", "implementation"}
    /\ \E made \in Written(StageFiles(pc)) :
         /\ IF pc = "implementation"
              THEN made["source"] \in Generated /\ contract' = Symbol(made["source"])
              ELSE UNCHANGED contract
         /\ disk' = Over(made)
    /\ evidence' = [evidence EXCEPT !.changed = @ \/ StageFiles(pc) # {}]
    /\ fresh' = FALSE /\ pc' = Following(pc)
    /\ UNCHANGED <<Planning, last, steps, Repairing, Outcome>>

\* The editor, or write_file, raises: files before it are written, and the step is left
\* running when it was started.
Fails(running) ==
    /\ pc' = "done" /\ result' = "failed" /\ steps' = running
    /\ UNCHANGED <<Planning, last, Repairing, finished>>
StageFails ==
    /\ pc \in {"skeleton", "tests", "implementation"}
    /\ \E running \in {<<>>, <<pc>>} : Fails(running)
    /\ UNCHANGED <<contract, disk, evidence, fresh>>

-----------------------------------------------------------------------------
\* What the commands of ValidationRunner.candidates find: compileall (unless it is left
\* out, target_root being looked up in the directory of the process), then the tests.
MayPass ==
    /\ disk["source"] # Absent /\ disk["test"] # Absent
    /\ Uses(disk["test"]) \subseteq Symbol(disk["source"])
\* A command may fail for other reasons.
Outcomes == [ok : {FALSE}, error : Errors] \cup (IF MayPass THEN {[ok |-> TRUE, error |-> NoError]} ELSE {})

\* run_all stops at the first failure; the evidence has the outcome of the last command.
Validated(r) ==
    /\ r \in Outcomes
    /\ last' = r /\ evidence' = [evidence EXCEPT !.passed = IF r.ok THEN "yes" ELSE "no"]
    /\ fresh' = TRUE

\* The first validation; one that passes skips the repair, and one that fails starts it.
Validate(r) ==
    /\ pc = "validation" /\ Validated(r)
    /\ IF r.ok THEN pc' = "check" /\ steps' = steps ELSE pc' = "repair" /\ steps' = <<"repair">>
    /\ UNCHANGED <<Planning, contract, disk, Repairing, Outcome>>

-----------------------------------------------------------------------------
Repaired == UNION {Written(fs) : fs \in {fs \in (SUBSET Files) : Cardinality(fs) <= RepairFiles}}

\* repair_until_valid.  A repair has contents for files of the plan, or is the strategy's
\* and has a file that the plan does not know; no repair ends the loop.
Repair ==
    /\ pc = "repair" /\ ~last.ok /\ attempts < MaxRepairs
    /\ attempts' = attempts + 1
    /\ \E files \in Repaired : disk' = Over(files)
    /\ fresh' = FALSE /\ pc' = "revalidate" /\ blocked' = FALSE
    /\ UNCHANGED <<Planning, contract, evidence, last, signature, steps, Outcome, repeats>>

NoRepair ==
    /\ pc = "repair" /\ ~last.ok /\ attempts < MaxRepairs
    /\ attempts' = attempts + 1 /\ blocked' = TRUE
    /\ pc' = "check" /\ steps' = <<>>
    /\ UNCHANGED <<Planning, Disk, signature, Outcome, repeats>>

\* The validation after a repair: success, the same failure again, and the end of the
\* attempts leave the loop.
Revalidate(r) ==
    /\ pc = "revalidate" /\ Validated(r)
    /\ repeats' = IF ~r.ok /\ r = last THEN repeats + 1 ELSE 0
    /\ blocked' = (~r.ok /\ (r = last \/ attempts = MaxRepairs))
    /\ IF r.ok \/ r = last \/ attempts = MaxRepairs
         THEN pc' = "check" /\ steps' = <<>>
         ELSE pc' = "repair" /\ steps' = steps
    /\ UNCHANGED <<Planning, contract, disk, attempts, signature, Outcome>>

-----------------------------------------------------------------------------
Expected == contract \cup Obligations

\* api_obligation_errors: what the plan's source says now, and the obligations.
ApiMissing == ~(Expected \subseteq Symbol(disk["source"]))
Required ==
    IF evidence.passed = "yes" /\ Obligations # {} THEN 1
    ELSE IF Cardinality(Expected) <= 2 THEN 1
    ELSE IF Cardinality(Expected) >= 9 THEN 3 ELSE 2
\* _test_coverage_errors: none when the test file is not there.
CoverageMissing ==
    /\ disk["test"] # Absent /\ Cardinality(Expected) >= 2
    /\ Cardinality(Expected \cap Uses(disk["test"])) < Required
\* _test_function_errors: a file that does not parse is told of as a syntax error.
Hollow == disk["test"].is = "test" /\ ~disk["test"].functions
\* _documentation_reference_errors, cli_documentation_reference_errors
DocumentWrong == disk["document"] # Absent /\ ~disk["document"].right

\* CompletionChecker.check
CheckErrors ==
    {e \in {"missing", "no_change", "not_validated", "syntax", "api", "coverage", "hollow", "document"} :
        CASE e = "missing" -> \E f \in Files : disk[f] = Absent
          [] e = "no_change" -> ~evidence.changed
          [] e = "not_validated" -> evidence.passed # "yes"
          [] e = "syntax" -> \E f \in Files : disk[f] = Broken
          [] e = "api" -> ApiMissing
          [] e = "coverage" -> CoverageMissing
          [] e = "hollow" -> Hollow
          [] e = "document" -> DocumentWrong}

\* completion_check_repairable
Repairable ==
    /\ evidence.passed = "yes" /\ last.ok
    /\ CheckErrors \cap {"api", "syntax", "coverage", "document"} # {}

\* repair_completion_check: the errors are repaired within what the first loop left of
\* the attempts, unless the same ones come back.
CompletionRepair ==
    /\ pc \in {"check", "completion"} /\ Repairable
    /\ attempts < MaxRepairs /\ CheckErrors # signature
    /\ attempts' = attempts + 1 /\ signature' = CheckErrors
    /\ \E files \in Repaired : disk' = Over(files)
    /\ fresh' = FALSE /\ pc' = "completion_validation" /\ steps' = <<"repair">> /\ blocked' = FALSE
    /\ UNCHANGED <<Planning, contract, evidence, last, Outcome, repeats>>

NoCompletionRepair ==
    /\ pc \in {"check", "completion"} /\ Repairable
    /\ attempts < MaxRepairs /\ CheckErrors # signature
    /\ attempts' = attempts + 1 /\ signature' = CheckErrors /\ blocked' = TRUE
    /\ pc' = "report"
    /\ UNCHANGED <<Planning, Disk, steps, Outcome, repeats>>

\* Mutant: a repair of what the check found is not validated.
CompletionUnvalidated(r) ==
    /\ pc = "completion_validation" /\ r = last
    /\ steps' = <<>> /\ pc' = "completion"
    /\ UNCHANGED <<Planning, Disk, Repairing, Outcome>>
CompletionValidate(r) ==
    /\ pc = "completion_validation" /\ Validated(r)
    /\ steps' = <<>> /\ pc' = "completion"
    /\ UNCHANGED <<Planning, contract, disk, Repairing, Outcome>>

CompletionEnds ==
    /\ pc \in {"check", "completion"}
    /\ ~Repairable \/ attempts >= MaxRepairs \/ CheckErrors = signature
    /\ pc' = "report"
    /\ blocked' = (blocked \/ (Repairable /\ attempts < MaxRepairs))
    /\ UNCHANGED <<Planning, Disk, attempts, signature, steps, Outcome, repeats>>

\* write_file refuses or fails in a repair, or a validation raises: what was written
\* stays written.
RepairFails ==
    /\ pc \in {"repair", "revalidate", "completion_validation", "validation"}
    /\ \E files \in (IF pc = "repair" THEN Repaired ELSE {<<>>}) :
         disk' = Over(files) /\ fresh' = (fresh /\ DOMAIN files = {})
    /\ Fails(Append(steps, "validation"))
    /\ UNCHANGED <<contract, evidence>>

\* The manifest, the report with its own check, and the result: a success needs both.
Report(reported) ==
    /\ pc = "report" /\ pc' = "done" /\ finished' = TRUE
    /\ result' = IF CheckErrors = {} /\ reported THEN "success" ELSE "failed"
    /\ UNCHANGED <<Planning, Disk, steps, Repairing>>

WorkflowNext ==
    \/ AttemptFails \/ AttemptKept \/ AttemptAccepted \/ FallsBack
    \/ Approved \/ Rejected
    \/ WriteStage \/ StageFails
    \/ \E r \in Outcomes : Validate(r)
    \/ Repair \/ NoRepair
    \/ \E r \in Outcomes : Revalidate(r)
    \/ CompletionRepair \/ NoCompletionRepair
    \/ \E r \in Outcomes : CompletionValidate(r)
    \/ CompletionEnds \/ RepairFails
    \/ \E reported \in BOOLEAN : Report(reported)

WorkflowSpec == WorkflowInit /\ [][WorkflowNext]_workflowVars

-----------------------------------------------------------------------------
WorkflowTypeOK ==
    /\ pc \in {"planning", "planned", "repair", "revalidate", "check", "completion",
               "completion_validation", "report", "done"} \cup ToSet(Order)
    /\ asked \in (0..PlannerAttempts) \X (0..PlanAttempts)
    /\ kept \in {"none", "sound", "unsound"} /\ plan \in {"none", "accepted", "sound", "strategy"}
    /\ contract \subseteq Symbols
    /\ \A f \in Files : disk[f] \in Contents(f) \cup {Absent}
    /\ evidence \in [changed : BOOLEAN, passed : {"none", "yes", "no"}]
    /\ last \in [ok : BOOLEAN, error : Errors \cup {NoError}]
    /\ attempts \in 0..MaxRepairs
    /\ blocked \in BOOLEAN /\ finished \in BOOLEAN /\ fresh \in BOOLEAN
    /\ result \in {"none", "success", "failed", "cancelled"}

\* A workflow that reports success has validated the files as they are now, after its
\* last repair, and the completion check finds nothing wrong with them (run,
\* repair_completion_check, build_workflow_turn_result).
SuccessIsTested ==
    result = "success" => fresh /\ last.ok /\ evidence.passed = "yes" /\ CheckErrors = {}

\* A first loop whose repair brings the same failure back is left (repair_until_valid); one
\* that alternates with another is repaired for as long as there are attempts, since only
\* the hash of the validation before is compared.
RepeatsEnd == repeats <= 1 /\ (repeats = 1 => pc \notin {"repair", "revalidate"})

\* What is left of both loops: the attempts that they share, and the way to the end of the
\* one that runs.
Remaining(p) ==
    CASE p \in {"revalidate", "completion_validation"} -> 4
      [] p = "repair" -> 3
      [] p \in {"check", "completion"} -> 2
      [] p = "report" -> 1
      [] OTHER -> 0
ToGo == 4 * (MaxRepairs - attempts) + Remaining(pc)

\* Whatever the repairs bring back, in whatever order and in whichever of the two loops,
\* every step brings the end nearer: the repair of a failed validation and that of a failed
\* completion check spend max_repair_attempts together (repair_until_valid,
\* repair_completion_check with current_attempts).
Nearer ==
    pc \in {"repair", "revalidate", "check", "completion", "completion_validation", "report"}
        => ToGo' \in 0..(ToGo - 1)
RepairsEnd == [][Nearer]_workflowVars

\* A plan that the user rejects leaves no file behind, and a workflow that has told that
\* it ended left no step running (run, WorkflowActions).
EndsClean ==
    /\ result = "cancelled" => \A f \in Files : disk[f] = Absent
    /\ finished => steps = <<>>
=============================================================================
