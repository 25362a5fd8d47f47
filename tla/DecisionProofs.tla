---------------------------- MODULE DecisionProofs ----------------------------
(***************************************************************************)
(* Proofs about what the program makes of a prompt and of the model's       *)
(* answers: the text that is sent, a generated project, the parsed reply, a *)
(* plan, a route and an inspection; for all texts, files, paths and words,  *)
(* and any bounds.                                                          *)
(***************************************************************************)
EXTENDS MCDecisions, SequenceTheorems, FiniteSetTheorems, WellFoundedInduction, TLAPS


-----------------------------------------------------------------------------
(* A generated project (GenerationWorkflow): what the completion check     *)
(* reads.                                                                  *)

LEMMA SameErrors ==
    ASSUME UNCHANGED <<disk, contract, evidence>>
    PROVE  CheckErrors' = CheckErrors
BY DEF CheckErrors, ApiMissing, CoverageMissing, Hollow, DocumentWrong, Expected, Required

LEMMA NoErrorIsPass ==
    ASSUME CheckErrors = {}
    PROVE  evidence.passed = "yes"
<1>1. SUFFICES ASSUME evidence.passed # "yes" PROVE "not_validated" \in CheckErrors
      OBVIOUS
<1> QED
    BY <1>1 DEF CheckErrors

-----------------------------------------------------------------------------
(* The part of the invariant that each property rests on.                  *)

\* Where the last validation is one of the files as they are, and what it said.
Validations ==
    /\ pc \in {"repair", "check", "completion", "report"} => fresh
    /\ "passed" \in DOMAIN evidence
    /\ evidence.passed = "yes" => last.ok
Success == result = "success" => pc = "done" /\ fresh /\ CheckErrors = {}

\* A failure that comes back leaves the loop, and it is no pass.
Repeats ==
    /\ attempts \in 0..MaxRepairs /\ repeats \in {0, 1}
    /\ repeats = 1 => pc \in {"check", "report", "done"} /\ ~last.ok /\ evidence.passed # "yes"

\* Before the first stage nothing is written; between the repairs no step is running.
Steps ==
    /\ pc \in {"planning", "planned"} => \A f \in Files : disk[f] = Absent
    /\ result = "cancelled" => pc = "done" /\ \A f \in Files : disk[f] = Absent
    /\ pc \in {"planning", "planned", "skeleton", "tests", "implementation", "validation",
               "check", "completion", "report"} => steps = <<>>
    /\ finished => pc = "done" /\ steps = <<>>

WorkflowInv == Validations /\ Success /\ Repeats /\ Steps

LEMMA WorkflowInvInit == ASSUME MaxRepairs \in Nat, WorkflowInit PROVE WorkflowInv
BY DEF WorkflowInit, WorkflowInv, Validations, Success, Repeats, Steps

-----------------------------------------------------------------------------
LEMMA PlanningSteps ==
    ASSUME WorkflowInv,
           AttemptFails \/ AttemptKept \/ AttemptAccepted \/ FallsBack \/ Approved \/ Rejected
    PROVE  WorkflowInv'
<1>1. /\ pc \in {"planning", "planned"} /\ pc' \in {"planning", "planned", "skeleton", "done"}
      /\ UNCHANGED <<contract, disk, evidence, last, fresh, steps, attempts, signature, blocked, repeats, finished>>
      /\ result' = result \/ (pc' = "done" /\ result' = "cancelled")
      /\ pc' = "done" => result' = "cancelled"
      BY DEF AttemptFails, AttemptKept, AttemptAccepted, FallsBack, Approved, Rejected,
             Disk, Repairing, Outcome
<1> QED
    BY <1>1 DEF WorkflowInv, Validations, Success, Repeats, Steps

LEMMA FollowingStep ==
    /\ Following("skeleton") = "tests" /\ Following("tests") = "implementation"
    /\ Following("implementation") = "validation"
<1>1. /\ Len(Order) = 4 /\ Order[1] = "skeleton" /\ Order[2] = "tests"
      /\ Order[3] = "implementation" /\ Order[4] = "validation"
      BY DEF Order
<1>2. /\ \A i \in 2..Len(Order) : Order[i - 1] = "skeleton" <=> i = 2
      /\ \A i \in 2..Len(Order) : Order[i - 1] = "tests" <=> i = 3
      /\ \A i \in 2..Len(Order) : Order[i - 1] = "implementation" <=> i = 4
      BY <1>1
<1> QED
    BY <1>1, <1>2 DEF Following

LEMMA StageSteps == ASSUME WorkflowInv, WriteStage \/ StageFails PROVE WorkflowInv'
<1>1. CASE WriteStage
  <2>1. /\ pc \in {"skeleton", "tests", "implementation"} /\ pc' = Following(pc)
        /\ UNCHANGED <<last, attempts, repeats, steps, result, finished>>
        BY <1>1 DEF WriteStage, Planning, Repairing, Outcome
  <2>2. pc' \in {"tests", "implementation", "validation"}
        BY <2>1, FollowingStep
  <2>3. "passed" \in DOMAIN evidence' /\ evidence'.passed = evidence.passed
        BY <1>1 DEF WriteStage, WorkflowInv, Validations
  <2> QED
      BY <2>1, <2>2, <2>3 DEF WorkflowInv, Validations, Success, Repeats, Steps
<1>2. CASE StageFails
  <2>1. /\ pc \in {"skeleton", "tests", "implementation"} /\ pc' = "done" /\ result' = "failed"
        /\ UNCHANGED <<last, attempts, repeats, finished, contract, disk, evidence, fresh>>
        BY <1>2 DEF StageFails, Fails, Planning, Repairing
  <2> QED
      BY <2>1 DEF WorkflowInv, Validations, Success, Repeats, Steps
<1> QED
    BY <1>1, <1>2

\* A validation tells of the files as they are.
LEMMA ValidatedKeeps ==
    ASSUME Validations, NEW r, Validated(r)
    PROVE  /\ fresh' /\ last' = r /\ "passed" \in DOMAIN evidence'
           /\ r.ok <=> evidence'.passed = "yes"
           /\ Validations'
<1>1. last' = r /\ evidence' = [evidence EXCEPT !.passed = IF r.ok THEN "yes" ELSE "no"] /\ fresh'
      BY DEF Validated
<1>2. "passed" \in DOMAIN evidence' /\ evidence'.passed = IF r.ok THEN "yes" ELSE "no"
      BY <1>1 DEF Validations
<1>3. r.ok <=> evidence'.passed = "yes"
      BY <1>2
<1> QED
    BY <1>1, <1>2, <1>3 DEF Validations

LEMMA ValidateSteps ==
    ASSUME MaxRepairs \in Nat, WorkflowInv,
           \E r \in Outcomes : Validate(r) \/ Revalidate(r) \/ CompletionValidate(r)
    PROVE  WorkflowInv'
<1>1. ASSUME NEW r \in Outcomes, Validate(r) PROVE WorkflowInv'
  <2>1. /\ fresh' /\ last' = r /\ (r.ok <=> evidence'.passed = "yes") /\ Validations'
        BY <1>1, ValidatedKeeps DEF Validate, WorkflowInv
  <2>2. /\ pc = "validation" /\ (pc' = "check" \/ pc' = "repair")
        /\ pc' = "check" => steps' = steps
        /\ UNCHANGED <<disk, attempts, repeats, result, finished>>
        BY <1>1 DEF Validate, Repairing, Outcome
  <2> QED
      BY <2>1, <2>2 DEF WorkflowInv, Success, Repeats, Steps
<1>2. ASSUME NEW r \in Outcomes, Revalidate(r) PROVE WorkflowInv'
  <2>1. /\ fresh' /\ last' = r /\ (r.ok <=> evidence'.passed = "yes") /\ Validations'
        BY <1>2, ValidatedKeeps DEF Revalidate, WorkflowInv
  <2>2. /\ pc = "revalidate" /\ (pc' = "check" \/ pc' = "repair")
        /\ pc' = "check" => steps' = <<>>
        /\ r = last => pc' = "check"
        /\ UNCHANGED <<disk, attempts, result, finished>>
        BY <1>2 DEF Revalidate, Outcome
  <2>3. repeats = 0
        BY <2>2 DEF WorkflowInv, Repeats
  <2>4. (repeats' = 1 /\ ~r.ok /\ r = last) \/ repeats' = 0
        BY <1>2, <2>3 DEF Revalidate
  <2>5. Repeats'
        BY <2>1, <2>2, <2>4 DEF WorkflowInv, Repeats
  <2> QED
      BY <2>1, <2>2, <2>5 DEF WorkflowInv, Success, Steps
<1>3. ASSUME NEW r \in Outcomes, CompletionValidate(r) PROVE WorkflowInv'
  <2>1. /\ fresh' /\ last' = r /\ (r.ok <=> evidence'.passed = "yes") /\ Validations'
        BY <1>3, ValidatedKeeps DEF CompletionValidate, WorkflowInv
  <2>2. /\ pc = "completion_validation" /\ pc' = "completion" /\ steps' = <<>>
        /\ UNCHANGED <<disk, attempts, repeats, result, finished>>
        BY <1>3 DEF CompletionValidate, Repairing, Outcome
  <2> QED
      BY <2>1, <2>2 DEF WorkflowInv, Success, Repeats, Steps
<1> QED
    BY <1>1, <1>2, <1>3

\* The two loops start a repair only within the attempts; the second one only of what
\* has passed.
LEMMA RepairSteps ==
    ASSUME MaxRepairs \in Nat, WorkflowInv, Repair \/ CompletionRepair
    PROVE  WorkflowInv'
<1>1. /\ pc \in {"repair", "check", "completion"}
      /\ pc' \in {"revalidate", "completion_validation"}
      /\ pc # "repair" => evidence.passed = "yes"
      /\ attempts < MaxRepairs /\ attempts' = attempts + 1
      /\ UNCHANGED <<evidence, last, result, finished, repeats>>
  <2>1. CASE Repair
        BY <2>1 DEF Repair, Outcome
  <2>2. CASE CompletionRepair
        BY <2>2 DEF CompletionRepair, Repairable, Outcome
  <2> QED
      BY <2>1, <2>2
<1>2. repeats = 0
      BY <1>1 DEF WorkflowInv, Repeats
<1> QED
    BY <1>1, <1>2 DEF WorkflowInv, Validations, Success, Repeats, Steps

LEMMA NoRepairSteps ==
    ASSUME MaxRepairs \in Nat, WorkflowInv, NoRepair \/ NoCompletionRepair \/ CompletionEnds
    PROVE  WorkflowInv'
<1>1. /\ pc \in {"repair", "check", "completion"} /\ pc' \in {"check", "report"}
      /\ (attempts < MaxRepairs /\ attempts' = attempts + 1) \/ attempts' = attempts
      /\ steps' = <<>> \/ (pc # "repair" /\ steps' = steps)
      /\ UNCHANGED <<contract, disk, evidence, last, fresh, result, finished, repeats>>
  <2>1. CASE NoRepair
        BY <2>1 DEF NoRepair, Outcome, Disk
  <2>2. CASE NoCompletionRepair
        BY <2>2 DEF NoCompletionRepair, Outcome, Disk
  <2>3. CASE CompletionEnds
        BY <2>3 DEF CompletionEnds, Outcome, Disk
  <2> QED
      BY <2>1, <2>2, <2>3
<1>2. Repeats'
      BY <1>1 DEF WorkflowInv, Repeats
<1> QED
    BY <1>1, <1>2 DEF WorkflowInv, Validations, Success, Steps

LEMMA EndSteps ==
    ASSUME WorkflowInv, RepairFails \/ \E told \in BOOLEAN : Report(told)
    PROVE  WorkflowInv'
<1>1. CASE RepairFails
  <2>1. /\ pc \in {"repair", "revalidate", "completion_validation", "validation"}
        /\ pc' = "done" /\ result' = "failed"
        /\ UNCHANGED <<evidence, last, attempts, repeats, finished>>
        BY <1>1 DEF RepairFails, Fails, Planning, Repairing
  <2>2. repeats = 0 /\ ~finished
        BY <2>1 DEF WorkflowInv, Repeats, Steps
  <2> QED
      BY <2>1, <2>2 DEF WorkflowInv, Validations, Success, Repeats, Steps
<1>2. ASSUME NEW told \in BOOLEAN, Report(told) PROVE WorkflowInv'
  <2>1. /\ pc = "report" /\ pc' = "done"
        /\ result' \in {"success", "failed"} /\ (result' = "success" => CheckErrors = {})
        /\ UNCHANGED <<contract, disk, evidence, last, fresh, steps, attempts, repeats>>
        BY <1>2 DEF Report, Disk, Repairing
  <2>2. CheckErrors' = CheckErrors
        BY <2>1, SameErrors
  <2>3. fresh /\ steps = <<>>
        BY <2>1 DEF WorkflowInv, Validations, Steps
  <2> QED
      BY <2>1, <2>2, <2>3 DEF WorkflowInv, Validations, Success, Repeats, Steps
<1> QED
    BY <1>1, <1>2

LEMMA WorkflowStep ==
    ASSUME MaxRepairs \in Nat, WorkflowInv, [WorkflowNext]_workflowVars
    PROVE  WorkflowInv'
<1>1. CASE UNCHANGED workflowVars
  <2>1. CheckErrors' = CheckErrors
        BY <1>1, SameErrors DEF workflowVars
  <2> QED
      BY <1>1, <2>1 DEF workflowVars, WorkflowInv, Validations, Success, Repeats, Steps
<1> QED
    BY <1>1, PlanningSteps, StageSteps, ValidateSteps, RepairSteps, NoRepairSteps, EndSteps DEF WorkflowNext

LEMMA WorkflowInvariant == WorkflowSpec => []WorkflowInv
<1>0. MaxRepairs \in Nat
      BY WorkflowAssumption
<1>1. WorkflowInit => WorkflowInv
      BY <1>0, WorkflowInvInit
<1>2. WorkflowInv /\ [WorkflowNext]_workflowVars => WorkflowInv'
      BY <1>0, WorkflowStep
<1> QED
    BY <1>1, <1>2, PTL DEF WorkflowSpec

\* Whatever the model writes and however its repairs go, a success is one of files that
\* have passed the validation as they are.
THEOREM SuccessIsTestedCorrect == WorkflowSpec => []SuccessIsTested
<1>1. WorkflowInv => SuccessIsTested
      BY NoErrorIsPass DEF WorkflowInv, Validations, Success, SuccessIsTested
<1> QED
    BY <1>1, WorkflowInvariant, PTL

LEMMA EveryRepairStepIsNearer ==
    ASSUME MaxRepairs \in Nat, WorkflowInv, WorkflowNext,
           pc \in {"repair", "revalidate", "check", "completion", "completion_validation", "report"}
    PROVE  ToGo' \in 0..(ToGo - 1)
<1>1. attempts \in 0..MaxRepairs
      BY DEF WorkflowInv, Repeats
\* To end there is always something left, and a repair gives one of its attempts for it.
<1>2. /\ Remaining("done") = 0 /\ Remaining("report") = 1 /\ Remaining("repair") = 3
      /\ Remaining("check") = 2 /\ Remaining("completion") = 2
      /\ Remaining("revalidate") = 4 /\ Remaining("completion_validation") = 4
      BY DEF Remaining
<1>3. CASE Repair
      BY <1>1, <1>2, <1>3 DEF Repair, ToGo
<1>4. CASE NoRepair
      BY <1>1, <1>2, <1>4 DEF NoRepair, ToGo
<1>5. ASSUME NEW r \in Outcomes, Revalidate(r) PROVE ToGo' \in 0..(ToGo - 1)
  <2>1. pc = "revalidate" /\ pc' \in {"repair", "check"} /\ attempts' = attempts
        BY <1>5 DEF Revalidate
  <2> QED
      BY <1>1, <1>2, <2>1 DEF ToGo
<1>6. CASE CompletionRepair
  <2>1. pc \in {"check", "completion"} /\ pc' = "completion_validation"
        /\ attempts < MaxRepairs /\ attempts' = attempts + 1
        BY <1>6 DEF CompletionRepair
  <2> QED
      BY <1>1, <1>2, <2>1 DEF ToGo
<1>7. CASE NoCompletionRepair
  <2>1. pc \in {"check", "completion"} /\ pc' = "report"
        /\ attempts < MaxRepairs /\ attempts' = attempts + 1
        BY <1>7 DEF NoCompletionRepair
  <2> QED
      BY <1>1, <1>2, <2>1 DEF ToGo
<1>8. ASSUME NEW r \in Outcomes, CompletionValidate(r) PROVE ToGo' \in 0..(ToGo - 1)
  <2>1. pc = "completion_validation" /\ pc' = "completion" /\ attempts' = attempts
        BY <1>8 DEF CompletionValidate, Repairing
  <2> QED
      BY <1>1, <1>2, <2>1 DEF ToGo
<1>9. CASE CompletionEnds
  <2>1. pc \in {"check", "completion"} /\ pc' = "report" /\ attempts' = attempts
        BY <1>9 DEF CompletionEnds
  <2> QED
      BY <1>1, <1>2, <2>1 DEF ToGo
<1>10. CASE RepairFails
  <2>1. pc \in {"repair", "revalidate", "completion_validation"} /\ pc' = "done" /\ attempts' = attempts
        BY <1>10 DEF RepairFails, Fails, Repairing
  <2> QED
      BY <1>1, <1>2, <2>1 DEF ToGo
<1>11. ASSUME NEW told \in BOOLEAN, Report(told) PROVE ToGo' \in 0..(ToGo - 1)
  <2>1. pc = "report" /\ pc' = "done" /\ attempts' = attempts
        BY <1>11 DEF Report, Repairing
  <2> QED
      BY <1>1, <1>2, <2>1 DEF ToGo
\* The steps before the first repair start elsewhere.
<1>12. CASE AttemptFails \/ AttemptKept \/ AttemptAccepted \/ FallsBack \/ Approved \/ Rejected
      BY <1>12 DEF AttemptFails, AttemptKept, AttemptAccepted, FallsBack, Approved, Rejected
<1>13. CASE WriteStage
      BY <1>13 DEF WriteStage
<1>14. CASE StageFails
      BY <1>14 DEF StageFails
<1>15. ASSUME NEW r \in Outcomes, Validate(r) PROVE FALSE
      BY <1>15 DEF Validate
<1> QED
    BY <1>3, <1>4, <1>5, <1>6, <1>7, <1>8, <1>9, <1>10, <1>11, <1>12, <1>13, <1>14, <1>15 DEF WorkflowNext

\* Both loops end within the attempts that they share, whatever failures they meet and in
\* whatever order: every step brings the end nearer; and the first one is left when a repair
\* brings its failure back.
THEOREM RepairsEndCorrect == WorkflowSpec => []RepeatsEnd /\ RepairsEnd
<1>0. MaxRepairs \in Nat
      BY WorkflowAssumption
<1>1. WorkflowInv => RepeatsEnd
      BY DEF WorkflowInv, Repeats, RepeatsEnd
<1>2. WorkflowInv /\ [WorkflowNext]_workflowVars => [Nearer]_workflowVars
      BY <1>0, EveryRepairStepIsNearer DEF Nearer
<1> QED
    BY <1>1, <1>2, WorkflowInvariant, PTL DEF WorkflowSpec, RepairsEnd

\* A plan that was rejected has written nothing, and what has told that it ended has no
\* step left running, whichever repair it ended with.
THEOREM EndsCleanCorrect == WorkflowSpec => []EndsClean
<1>1. WorkflowInv => EndsClean
      BY DEF WorkflowInv, Steps, EndsClean
<1> QED
    BY <1>1, WorkflowInvariant, PTL

-----------------------------------------------------------------------------
(* The reply of the model (ModelStream).                                   *)

\* The id under which the fragments of a call are collected.
IdOf(j) == IF script.named = "never" THEN Unnamed(j) ELSE <<"id", j>>
Calls == DOMAIN script.calls
Begun == {j \in Calls : sent[j] > 0}

\* Each call that has begun has its buffer, with its own fragments in order; a call that has
\* no id in its later fragments is found by its index.
Scripted ==
    /\ script = NoScript \/ script \in Scripts
    /\ sent \in [Calls -> Nat]
    /\ \A j \in Calls : sent[j] <= Len(Fragments(script.calls[j]))
Buffered ==
    /\ DOMAIN buffers = {IdOf(j) : j \in Begun}
    /\ \A j \in Begun : buffers[IdOf(j)] = [n \in 1..sent[j] |-> <<j, n>>]
    /\ ~produced => Begun = {}
Listed ==
    /\ order \in Seq(DOMAIN buffers)
    /\ Len(order) = Cardinality(Begun)
Indexed ==
    /\ script.index = "own" =>
          /\ DOMAIN ids = Begun
          /\ \A j \in Begun : ids[j] = IdOf(j)
    /\ script.index = "zero" =>
          \A j \in Begun :
             /\ InTurn(j)
             /\ sent[j] < Len(Fragments(script.calls[j])) => 0 \in DOMAIN ids /\ ids[0] = IdOf(j)
Idle == phase = "idle" => ~produced /\ DOMAIN ids = {}
StreamInv == Scripted /\ Buffered /\ Listed /\ Indexed /\ Idle

Places == {"in", "out", "comma", "key", "end"}

LEMMA FragmentsOfTools ==
    ASSUME NEW t \in Tools
    PROVE  /\ Len(Fragments(t)) \in Nat \ {0}
           /\ \A n \in 1..Len(Fragments(t)) : Fragments(t)[n] \in Places
<1>1. CASE t = "write_file"
  <2>1. Fragments(t) = <<"in", "out", "comma", "key", "end">>
    BY <1>1 DEF Fragments
  <2> QED BY <2>1 DEF Places
<1>2. CASE t = "patch_file"
  <2>1. Fragments(t) = <<"in", "out", "in", "out", "end">>
    BY <1>2 DEF Fragments
  <2> QED BY <2>1 DEF Places
<1>3. CASE t = "read_file"
  <2>1. Fragments(t) = <<"in", "end">>
    BY <1>3 DEF Fragments
  <2> QED BY <2>1 DEF Places
<1> QED BY <1>1, <1>2, <1>3 DEF Tools

LEMMA NoScriptFields ==
    /\ NoScript.calls = <<>> /\ NoScript.named = "first" /\ NoScript.index = "own"
BY DEF NoScript

LEMMA ScriptFields ==
    ASSUME NEW p \in Scripts
    PROVE  /\ \E m \in 0..MaxCalls : p.calls \in [1..m -> Tools]
           /\ p.named \in {"always", "first", "never"} /\ p.index \in {"own", "zero"}
           /\ p.index = "zero" => p.named # "never"
<1>1. p.calls \in SeqOf(Tools, MaxCalls)
  BY DEF Scripts
<1>2. \E m \in 0..MaxCalls : p.calls \in [1..m -> Tools]
  BY <1>1 DEF SeqOf
<1>3. p.named \in {"always", "first", "never"} /\ p.index \in {"own", "zero"}
  BY DEF Scripts
<1>4. p.index = "zero" => p.named # "never"
  BY DEF Scripts
<1> QED BY <1>2, <1>3, <1>4

\* What a script is.
LEMMA AnyScript ==
    ASSUME NEW p, p = NoScript \/ p \in Scripts
    PROVE  /\ IsFiniteSet(DOMAIN p.calls)
           /\ DOMAIN p.calls \subseteq Nat \ {0}
           /\ \A j \in DOMAIN p.calls : p.calls[j] \in Tools
           /\ p.named \in {"always", "first", "never"} /\ p.index \in {"own", "zero"}
           /\ p.index = "zero" => p.named # "never"
<1>1. CASE p = NoScript
  <2>1. p.calls = <<>> /\ p.named = "first" /\ p.index = "own"
    BY <1>1, NoScriptFields, Zenon
  <2>2. DOMAIN p.calls = {}
    BY <2>1
  <2>3. IsFiniteSet({})
    BY FS_EmptySet
  <2> QED BY <2>1, <2>2, <2>3
<1>2. CASE p \in Scripts
  <2>1. PICK m \in 0..MaxCalls : p.calls \in [1..m -> Tools]
    BY <1>2, ScriptFields
  <2>2. DOMAIN p.calls = 1..m /\ m \in Nat
    BY <2>1 DEF MaxCalls
  <2>3. IsFiniteSet(1..m)
    BY <2>2, FS_Interval
  <2>4. DOMAIN p.calls \subseteq Nat \ {0} /\ \A j \in DOMAIN p.calls : p.calls[j] \in Tools
    BY <2>1, <2>2
  <2> QED BY <1>2, <2>2, <2>3, <2>4, ScriptFields
<1> QED BY <1>1, <1>2

LEMMA IdsDiffer ==
    ASSUME NEW i, NEW j, IdOf(i) = IdOf(j)
    PROVE  i = j
BY DEF IdOf, Unnamed

LEMMA OneFragmentMore ==
    ASSUME NEW j, NEW k \in Nat
    PROVE  /\ Append([n \in 1..k |-> <<j, n>>], <<j, k + 1>>) = [n \in 1..(k + 1) |-> <<j, n>>]
           /\ [n \in 1..0 |-> <<j, n>>] = <<>>
OBVIOUS

\* A fragment goes to the buffer of its call.
LEMMA FoundById ==
    ASSUME Scripted, Indexed, NEW j \in Calls, sent[j] < Len(Fragments(script.calls[j]))
    PROVE  CallId(Index(j), Given(j)) = IdOf(j)
<1>1. /\ script.named \in {"always", "first", "never"} /\ script.index \in {"own", "zero"}
      /\ script.index = "zero" => script.named # "never"
  BY AnyScript DEF Scripted
<1>2. sent[j] \in Nat
  BY DEF Scripted, Calls
<1>3. <<"id", j>> # NoId
  BY DEF NoId
<1>4. CASE script.named = "always"
  <2>1. Given(j) = <<"id", j>> /\ IdOf(j) = <<"id", j>>
    BY <1>4 DEF Given, IdOf
  <2> QED BY <1>3, <2>1 DEF CallId
<1>5. CASE script.named = "first" /\ sent[j] = 0
  <2>1. Given(j) = <<"id", j>> /\ IdOf(j) = <<"id", j>>
    BY <1>5 DEF Given, IdOf
  <2> QED BY <1>3, <2>1 DEF CallId
<1>6. CASE script.named = "first" /\ sent[j] # 0
  <2>1. Given(j) = NoId
    BY <1>6 DEF Given
  <2>2. j \in Begun
    BY <1>2, <1>6 DEF Begun
  <2>3. Index(j) \in DOMAIN ids /\ ids[Index(j)] = IdOf(j)
    BY <1>1, <2>2 DEF Indexed, Index
  <2> QED BY <2>1, <2>3 DEF CallId
<1>7. CASE script.named = "never"
  <2>1. Given(j) = NoId /\ IdOf(j) = Unnamed(j) /\ script.index = "own" /\ Index(j) = j
    BY <1>1, <1>7 DEF Given, IdOf, Index
  <2>2. j \in DOMAIN ids => ids[j] = IdOf(j)
    BY <2>1 DEF Indexed
  <2> QED BY <2>1, <2>2 DEF CallId
<1> QED BY <1>1, <1>4, <1>5, <1>6, <1>7

-----------------------------------------------------------------------------
(* The steps of the stream.                                                *)

LEMMA StreamInitInv ==
    ASSUME StreamInit
    PROVE  StreamInv
<1>1. /\ script = NoScript /\ sent = <<>> /\ ids = <<>> /\ buffers = <<>> /\ order = <<>> /\ ~produced
  BY DEF StreamInit
<1>2. Calls = {} /\ Begun = {} /\ script.index = "own"
  <2>1. script.calls = <<>> /\ script.index = "own"
    BY <1>1, NoScriptFields, Zenon
  <2> QED BY <2>1 DEF Calls, Begun
<1>3. Cardinality(Begun) = 0
  BY <1>2, FS_EmptySet
<1>4. Scripted
  <2>1. sent \in [Calls -> Nat]
    BY <1>1, <1>2
  <2> QED BY <1>1, <1>2, <2>1, Zenon DEF Scripted
<1>5. Buffered
  BY <1>1, <1>2 DEF Buffered
<1>6. Listed
  BY <1>1, <1>2, <1>3 DEF Listed
<1>7. Indexed
  BY <1>1, <1>2 DEF Indexed
<1>8. Idle
  BY <1>1 DEF Idle
<1> QED BY <1>4, <1>5, <1>6, <1>7, <1>8 DEF StreamInv

\* A step that no fragment comes with.
LEMMA NoFragment ==
    ASSUME StreamInv, UNCHANGED <<script, sent, ids, buffers, order>>,
           produced' = produced \/ produced', phase' # "idle" \/ (phase' = phase /\ produced' = produced)
    PROVE  StreamInv'
<1>1. Calls' = Calls /\ Begun' = Begun
  BY DEF Calls, Begun
<1>2. \A j : IdOf(j)' = IdOf(j)
  BY DEF IdOf, Unnamed
<1>3. \A j : InTurn(j)' = InTurn(j)
  BY DEF InTurn
<1>4. Scripted'
  BY <1>1 DEF StreamInv, Scripted
<1>5. Buffered'
  BY <1>1, <1>2 DEF StreamInv, Buffered
<1>6. Listed'
  BY <1>1 DEF StreamInv, Listed
<1>7. Indexed'
  BY <1>1, <1>2, <1>3 DEF StreamInv, Indexed
<1>8. Idle'
  BY DEF StreamInv, Idle
<1> QED BY <1>4, <1>5, <1>6, <1>7, <1>8 DEF StreamInv

\* Nothing has come yet, and a request is made (again).
LEMMA Anew ==
    ASSUME StreamInv, ~produced, ~produced', phase' # "idle",
           script' = NoScript \/ script' \in Scripts, sent' = [j \in DOMAIN script'.calls |-> 0],
           script' = script \/ DOMAIN ids = {}, UNCHANGED <<ids, buffers, order>>
    PROVE  StreamInv'
<1>1. Begun = {} /\ DOMAIN buffers = {}
  BY DEF StreamInv, Buffered
<1>2. Calls' = DOMAIN script'.calls /\ Begun' = {}
  BY DEF Calls, Begun
<1>3. Len(order) = 0 /\ order \in Seq(DOMAIN buffers) /\ Cardinality(Begun) = 0
  BY <1>1, FS_EmptySet DEF StreamInv, Listed
<1>4. Scripted'
  <2>1. \A j \in Calls' : sent'[j] <= Len(Fragments(script'.calls[j]))
    BY <1>2, AnyScript, FragmentsOfTools
  <2> QED BY <1>2, <2>1 DEF Scripted
<1>5. Buffered'
  BY <1>1, <1>2 DEF Buffered
<1>6. Listed'
  BY <1>1, <1>2, <1>3 DEF Listed
<1>7. Indexed'
  <2>1. script'.index = "own" => DOMAIN ids' = {}
    BY <1>1 DEF StreamInv, Indexed
  <2> QED BY <1>2, <2>1 DEF Indexed
<1>8. Idle'
  BY DEF Idle
<1> QED BY <1>4, <1>5, <1>6, <1>7, <1>8 DEF StreamInv

LEMMA FragmentInv ==
    ASSUME StreamInv, NEW j \in DOMAIN sent, Fragment(j)
    PROVE  StreamInv'
<1> DEFINE id == CallId(Index(j), Given(j))
           so == IF id \in DOMAIN buffers THEN buffers[id] ELSE <<>>
<1>1. /\ sent[j] < Len(Fragments(script.calls[j])) /\ InTurn(j)
      /\ sent' = [sent EXCEPT ![j] = @ + 1] /\ produced' /\ phase' = phase /\ phase = "stream"
      /\ ids' = Put(ids, Index(j), id)
      /\ buffers' = Put(buffers, id, Append(so, <<j, sent[j] + 1>>))
      /\ order' = IF id \in DOMAIN buffers THEN order ELSE Append(order, id)
      /\ script' = script
  BY DEF Fragment
<1>2. Scripted /\ Buffered /\ Listed /\ Indexed
  BY DEF StreamInv
<1>3. j \in Calls /\ sent \in [Calls -> Nat] /\ sent[j] \in Nat
  BY <1>2 DEF Scripted
<1>4. id = IdOf(j)
  BY <1>1, <1>2, <1>3, FoundById
<1> HIDE DEF id
<1>5. /\ Calls' = Calls /\ Begun' = Begun \cup {j} /\ sent' \in [Calls -> Nat]
      /\ sent'[j] = sent[j] + 1 /\ \A i \in Calls \ {j} : sent'[i] = sent[i]
  BY <1>1, <1>3 DEF Calls, Begun
<1>6. \A i : IdOf(i)' = IdOf(i)
  BY <1>1 DEF IdOf, Unnamed
<1>7. id \in DOMAIN buffers <=> j \in Begun
  BY <1>2, <1>3, <1>4, IdsDiffer DEF Buffered
<1>8. Len(Fragments(script.calls[j])) \in Nat
  BY <1>2, <1>3, AnyScript, FragmentsOfTools DEF Scripted, Calls
<1>9. Scripted'
  <2>1. sent'[j] <= Len(Fragments(script.calls[j]))
    BY <1>1, <1>3, <1>5, <1>8
  <2>2. \A i \in Calls : sent'[i] <= Len(Fragments(script.calls[i]))
    BY <1>2, <1>5, <2>1 DEF Scripted
  <2>3. script' = NoScript \/ script' \in Scripts
    BY <1>1, <1>2 DEF Scripted
  <2> QED BY <1>1, <1>5, <2>2, <2>3 DEF Scripted
<1>10. Buffered'
  <2>1. so = [n \in 1..sent[j] |-> <<j, n>>]
    <3>1. CASE j \in Begun
      BY <1>2, <1>4, <1>7, <3>1 DEF Buffered
    <3>2. CASE j \notin Begun
      <4>1. sent[j] = 0
        BY <1>3, <3>2 DEF Begun
      <4> QED BY <1>7, <3>2, <4>1, OneFragmentMore
    <3> QED BY <3>1, <3>2
  <2> HIDE DEF so
  <2>2. Append(so, <<j, sent[j] + 1>>) = [n \in 1..(sent[j] + 1) |-> <<j, n>>]
    BY <1>3, <2>1, OneFragmentMore, Zenon
  <2>3. DOMAIN buffers' = DOMAIN buffers \cup {id}
    BY <1>1 DEF Put
  <2>4. DOMAIN buffers' = {IdOf(i) : i \in Begun'}
    BY <1>2, <1>4, <1>5, <2>3 DEF Buffered
  <2>5. buffers'[IdOf(j)] = [n \in 1..sent'[j] |-> <<j, n>>]
    BY <1>1, <1>4, <1>5, <2>2 DEF Put
  <2>6. ASSUME NEW i \in Begun \ {j} PROVE buffers'[IdOf(i)] = [n \in 1..sent'[i] |-> <<i, n>>]
    <3>1. IdOf(i) \in DOMAIN buffers /\ IdOf(i) # id
      BY <1>2, <1>4, IdsDiffer DEF Buffered
    <3>2. buffers'[IdOf(i)] = buffers[IdOf(i)]
      BY <1>1, <3>1 DEF Put
    <3>3. sent'[i] = sent[i]
      BY <1>5 DEF Begun
    <3> QED BY <1>2, <3>2, <3>3 DEF Buffered
  <2>7. \A i \in Begun' : buffers'[IdOf(i)] = [n \in 1..sent'[i] |-> <<i, n>>]
    BY <1>5, <2>5, <2>6
  <2> QED BY <1>1, <1>6, <2>4, <2>7 DEF Buffered
<1>11. Listed'
  <2>1. DOMAIN buffers' = DOMAIN buffers \cup {id}
    BY <1>1 DEF Put
  <2>2. IsFiniteSet(Begun)
    BY <1>2, AnyScript, FS_Subset DEF Scripted, Begun, Calls
  <2>3. CASE j \in Begun
    <3>1. Begun' = Begun /\ order' = order
      BY <1>1, <1>5, <1>7, <2>3
    <3>2. order \in Seq(DOMAIN buffers) /\ Len(order) = Cardinality(Begun)
      BY <1>2 DEF Listed
    <3>3. order \in Seq(DOMAIN buffers')
      BY <2>1, <3>2
    <3> QED BY <3>1, <3>2, <3>3 DEF Listed
  <2>4. CASE j \notin Begun
    <3>1. order' = Append(order, id)
      BY <1>1, <1>7, <2>4
    <3>2. Cardinality(Begun') = Cardinality(Begun) + 1
      BY <1>5, <2>2, <2>4, FS_AddElement
    <3>3. order \in Seq(DOMAIN buffers) /\ Len(order) = Cardinality(Begun)
      BY <1>2 DEF Listed
    <3>4. order \in Seq(DOMAIN buffers') /\ id \in DOMAIN buffers'
      BY <2>1, <3>3
    <3>5. order' \in Seq(DOMAIN buffers') /\ Len(order') = Len(order) + 1
      BY <3>1, <3>4
    <3> QED BY <3>2, <3>3, <3>5 DEF Listed
  <2> QED BY <2>3, <2>4
<1>12. Indexed'
  <2>1. CASE script.index = "own"
    <3>1. Index(j) = j
      BY <2>1 DEF Index
    <3>2. DOMAIN ids' = Begun' /\ ids'[j] = IdOf(j) /\ \A i \in Begun \ {j} : ids'[i] = ids[i]
      BY <1>1, <1>2, <1>4, <1>5, <2>1, <3>1 DEF Put, Indexed
    <3>3. \A i \in Begun' : ids'[i] = IdOf(i)
      BY <1>2, <1>5, <2>1, <3>2 DEF Indexed
    <3> QED BY <1>1, <1>6, <2>1, <3>2, <3>3 DEF Indexed
  <2>2. CASE script.index = "zero"
    <3>1. 0 \in DOMAIN ids' /\ ids'[0] = IdOf(j)
      BY <1>1, <1>4, <2>2 DEF Put, Index
    <3>2. Calls \subseteq Nat \ {0}
      BY <1>2, AnyScript DEF Scripted, Calls
    <3>3. ASSUME NEW i \in Begun' PROVE \A k \in 1..(i - 1) : sent'[k] = Len(Fragments(script.calls[k]))
      <4>1. \A k \in 1..(i - 1) : sent[k] = Len(Fragments(script.calls[k]))
        BY <1>1, <1>2, <1>5, <2>2, <3>3 DEF Indexed, InTurn
      <4>2. ASSUME NEW k \in 1..(i - 1) PROVE k # j
        BY <1>1, <1>3, <1>8, <4>1, <4>2
      <4>3. DOMAIN sent = Calls /\ \A k : k # j => sent'[k] = sent[k]
        BY <1>1, <1>3
      <4> QED BY <4>1, <4>2, <4>3
    <3>4. \A i \in Begun' : InTurn(i)'
      BY <1>1, <3>3 DEF InTurn
    <3>5. ASSUME NEW i \in Begun', sent'[i] < Len(Fragments(script.calls[i])) PROVE i = j
      <4>1. SUFFICES ASSUME i # j PROVE FALSE
        OBVIOUS
      <4>2. i \in Begun /\ i \in Calls /\ sent[i] < Len(Fragments(script.calls[i])) /\ sent[i] > 0 /\ sent[i] \in Nat
        BY <1>3, <1>5, <3>5, <4>1 DEF Begun
      <4>3. CASE i < j
        <5>1. i \in 1..(j - 1)
          BY <1>3, <3>2, <4>2, <4>3
        <5>2. sent[i] = Len(Fragments(script.calls[i]))
          BY <1>1, <2>2, <5>1 DEF InTurn
        <5> QED BY <4>2, <5>2
      <4>4. CASE j < i
        <5>1. j \in 1..(i - 1)
          BY <1>3, <3>2, <4>2, <4>4
        <5>2. InTurn(i)
          BY <1>2, <2>2, <4>2 DEF Indexed
        <5>3. sent[j] = Len(Fragments(script.calls[j]))
          BY <2>2, <5>1, <5>2 DEF InTurn
        <5> QED BY <1>1, <1>3, <1>8, <5>3
      <4> QED BY <1>3, <3>2, <4>1, <4>2, <4>3, <4>4
    <3>6. \A i \in Begun' : /\ InTurn(i)'
                            /\ sent'[i] < Len(Fragments(script'.calls[i])) => 0 \in DOMAIN ids' /\ ids'[0] = IdOf(i)'
      BY <1>1, <1>6, <3>1, <3>4, <3>5
    <3> QED BY <1>1, <2>2, <3>6 DEF Indexed
  <2> QED BY <1>2, <2>1, <2>2, AnyScript DEF Scripted
<1>13. Idle'
  BY <1>1 DEF Idle
<1> QED BY <1>9, <1>10, <1>11, <1>12, <1>13 DEF StreamInv

LEMMA TransportErrorInv ==
    ASSUME StreamInv, TransportError
    PROVE  StreamInv'
<1>1. phase \in {"connect", "stream"} /\ UNCHANGED <<script, ids, buffers, order>>
  BY DEF TransportError, Heard
<1>2. CASE MayRetry
  <2>1. ~produced /\ ~produced' /\ phase' = "connect" /\ sent' = [j \in DOMAIN sent |-> 0]
    BY <1>2 DEF TransportError, MayRetry
  <2>2. DOMAIN sent = DOMAIN script'.calls /\ (script' = NoScript \/ script' \in Scripts)
    BY <1>1 DEF StreamInv, Scripted, Calls
  <2> QED BY <1>1, <2>1, <2>2, Anew
<1>3. CASE ~MayRetry
  <2>1. phase' = "done" /\ UNCHANGED <<sent, produced>>
    BY <1>3 DEF TransportError
  <2> QED BY <1>1, <2>1, NoFragment
<1> QED BY <1>2, <1>3

LEMMA RequestInv ==
    ASSUME StreamInv, Request
    PROVE  StreamInv'
<1>1. /\ script' \in Scripts /\ sent' = [j \in DOMAIN script'.calls |-> 0]
      /\ phase = "idle" /\ phase' = "connect" /\ UNCHANGED <<ids, buffers, order, produced>>
  BY DEF Request
<1>2. ~produced /\ DOMAIN ids = {}
  BY <1>1 DEF StreamInv, Idle
<1> QED BY <1>1, <1>2, Anew

LEMMA SilentInv ==
    ASSUME StreamInv,
           \/ Refused \/ Connected \/ Text \/ Reasoning \/ Garbled
           \/ \E reason \in {"stop", "length"} : Finish(reason)
           \/ Done \/ Stops \/ TimesOutEmpty \/ Parse
    PROVE  StreamInv'
<1>1. /\ UNCHANGED <<script, sent, ids, buffers, order>>
      /\ produced' = produced \/ produced'
      /\ phase' # "idle"
  BY DEF Refused, Connected, Text, Reasoning, Garbled, Finish, Done, Stops, TimesOutEmpty, Parse, Said, Heard
<1> QED BY <1>1, NoFragment

LEMMA StreamNextInv ==
    ASSUME StreamInv, [StreamNext]_streamVars
    PROVE  StreamInv'
<1>1. CASE Request
  BY <1>1, RequestInv
<1>2. CASE TransportError
  BY <1>2, TransportErrorInv
<1>3. ASSUME NEW j \in DOMAIN sent, Fragment(j) PROVE StreamInv'
  BY <1>3, FragmentInv
<1>4. CASE \/ Refused \/ Connected \/ Text \/ Reasoning \/ Garbled
           \/ \E reason \in {"stop", "length"} : Finish(reason)
           \/ Done \/ Stops \/ TimesOutEmpty \/ Parse
  BY <1>4, SilentInv
<1>5. CASE UNCHANGED streamVars
  <2>1. UNCHANGED <<script, sent, ids, buffers, order, produced, phase>>
    BY <1>5 DEF streamVars
  <2> QED BY <2>1, NoFragment
<1> QED BY <1>1, <1>2, <1>3, <1>4, <1>5 DEF StreamNext

\* Each call is put together from its own fragments of one response.
THEOREM HeardAsSaidCorrect == StreamSpec => []HeardAsSaid
<1>1. StreamInit => StreamInv
  BY StreamInitInv
<1>2. StreamInv /\ [StreamNext]_streamVars => StreamInv'
  BY StreamNextInv
<1>3. StreamInv => HeardAsSaid
  <2>1. SUFFICES ASSUME StreamInv PROVE HeardAsSaid
    OBVIOUS
  <2>2. DOMAIN sent = Calls
    BY <2>1 DEF StreamInv, Scripted
  <2>3. Begun = {j \in DOMAIN sent : sent[j] > 0}
    BY <2>2 DEF Begun
  <2>4. \A id \in DOMAIN buffers : \E j \in DOMAIN sent : buffers[id] = [n \in 1..sent[j] |-> <<j, n>>]
    BY <2>1, <2>2, <2>3 DEF StreamInv, Buffered
  <2>5. Len(order) = Cardinality({j \in DOMAIN sent : sent[j] > 0})
    BY <2>1, <2>3 DEF StreamInv, Listed
  <2> QED BY <2>4, <2>5 DEF HeardAsSaid
<1> QED BY <1>1, <1>2, <1>3, PTL DEF StreamSpec

-----------------------------------------------------------------------------
(* What is salvaged of a call that breaks off.                             *)

LEMMA WhatItIsWorth ==
    ASSUME NEW id
    PROVE  /\ Whole(id).whole
           /\ Part(id).tool = Tool(id) /\ Part(id).at = StopsAt(id)
           /\ Lost(id).tool = "none"
BY DEF Whole, Part, Lost

LEMMA BrokenOff ==
    ASSUME StreamInv, NEW id \in DOMAIN buffers
    PROVE  StopsAt(id) \in Places
<1>1. PICK j \in Begun : id = IdOf(j)
  BY DEF StreamInv, Buffered
<1>2. /\ buffers[id] = [n \in 1..sent[j] |-> <<j, n>>] /\ j \in Calls /\ sent[j] \in Nat /\ sent[j] > 0
      /\ sent[j] <= Len(Fragments(script.calls[j]))
  BY <1>1 DEF StreamInv, Buffered, Scripted, Begun
<1>3. Tool(id) = script.calls[j] /\ Last(buffers[id])[2] = sent[j]
  BY <1>2 DEF Tool, Last
<1>4. script.calls[j] \in Tools
  BY <1>2, AnyScript DEF StreamInv, Scripted, Calls
<1>5. sent[j] \in 1..Len(Fragments(script.calls[j]))
  BY <1>2, <1>4, FragmentsOfTools
<1>6. Fragments(script.calls[j])[sent[j]] \in Places
  BY <1>4, <1>5, FragmentsOfTools
<1> QED BY <1>3, <1>6 DEF StopsAt

\* What a file is worth where its arguments break off.
LEMMA FilesOnly ==
    ASSUME StreamInv, NEW id \in DOMAIN buffers, NEW c \in Salvaged(id), c.tool = "write_file"
    PROVE  c.whole \/ c.at \in {"comma", "key"}
<1>1. StopsAt(id) \in Places
  BY BrokenOff
<1>2. c # Lost(id)
  BY WhatItIsWorth
<1>3. CASE StopsAt(id) = "end"
  <2>1. Salvaged(id) = {Whole(id)} \cup (IF Tool(id) \in Writers THEN {} ELSE {Lost(id)})
    BY <1>3, Zenon DEF Salvaged
  <2>2. c = Whole(id)
    BY <1>2, <2>1
  <2> QED BY <2>2, WhatItIsWorth, Zenon
<1>4. CASE StopsAt(id) \notin {"in", "end"} /\ Tool(id) \in Writers
  <2>1. Salvaged(id) = {Mended(id), Lost(id)}
    BY <1>4, Zenon DEF Salvaged
  <2>2. c = Mended(id)
    BY <1>2, <2>1
  <2>3. CASE StopsAt(id) = "out" /\ Tool(id) = "patch_file"
    <3>1. Mended(id) = IF Pairs(id) = 2 THEN Whole(id) ELSE Part(id)
      BY <2>3, Zenon DEF Mended
    <3>2. c = Whole(id) \/ c = Part(id)
      BY <2>2, <3>1
    <3>3. c # Part(id)
      BY <2>3, WhatItIsWorth
    <3> QED BY <3>2, <3>3, WhatItIsWorth, Zenon
  <2>4. CASE StopsAt(id) = "out" /\ Tool(id) # "patch_file"
    <3>1. Mended(id) = Whole(id)
      BY <2>4, Zenon DEF Mended
    <3> QED BY <2>2, <3>1, WhatItIsWorth, Zenon
  <2>5. CASE StopsAt(id) # "out"
    <3>1. Mended(id) = Part(id)
      BY <2>5, Zenon DEF Mended
    <3>2. c.at = StopsAt(id)
      BY <2>2, <3>1, WhatItIsWorth
    <3>3. StopsAt(id) \in {"comma", "key"}
      BY <1>1, <1>4, <2>5 DEF Places
    <3> QED BY <3>2, <3>3
  <2> QED BY <2>3, <2>4, <2>5
<1>5. CASE StopsAt(id) = "in" \/ (StopsAt(id) # "end" /\ Tool(id) \notin Writers)
  <2>1. Salvaged(id) = {Lost(id)}
    BY <1>5, Zenon DEF Salvaged
  <2> QED BY <1>2, <2>1
<1> QED BY <1>3, <1>4, <1>5

LEMMA RepliesOfNothing ==
    /\ NoReply.calls = <<>>
    /\ \A s : [NoReply EXCEPT !.status = s].calls = <<>>
BY DEF NoReply

WrittenWell(call) == call.tool = "write_file" => call.whole \/ call.at \in {"comma", "key"}

LEMMA ParsedFiles ==
    ASSUME StreamInv, NEW made \in Salvages
    PROVE  \A i \in DOMAIN Parsed(made).calls : WrittenWell(Parsed(made).calls[i])
<1>1. Parsed(made).calls = <<>> \/ Parsed(made).calls = [i \in DOMAIN order |-> made[order[i]]]
  BY DEF Parsed
<1>2. ASSUME NEW i \in DOMAIN order PROVE WrittenWell(made[order[i]])
  <2>1. order[i] \in DOMAIN buffers
    BY DEF StreamInv, Listed
  <2>2. made[order[i]] \in Salvaged(order[i])
    BY <2>1 DEF Salvages
  <2> QED BY <2>1, <2>2, FilesOnly DEF WrittenWell
<1> QED BY <1>1, <1>2

LEMMA FilesStay ==
    ASSUME StreamInv, NoHalfFile, [StreamNext]_streamVars
    PROVE  NoHalfFile'
<1>1. CASE Parse
  <2>1. PICK made \in Salvages : reply' = Parsed(made)
    BY <1>1 DEF Parse
  <2>2. \A i \in DOMAIN reply'.calls : WrittenWell(reply'.calls[i])
    BY <2>1, ParsedFiles, Zenon
  <2> QED BY <2>2, Zenon DEF NoHalfFile, WrittenWell
<1>2. CASE ~Parse
  <2>1. reply' = reply \/ \E s : reply' = [NoReply EXCEPT !.status = s]
    BY <1>2 DEF StreamNext, streamVars, Request, Refused, Connected, TransportError, Fragment, Text, Reasoning,
       Garbled, Finish, Done, Stops, TimesOutEmpty
  <2>2. CASE reply' = reply
    BY <2>2 DEF NoHalfFile
  <2>3. CASE \E s : reply' = [NoReply EXCEPT !.status = s]
    <3>1. reply'.calls = <<>>
      BY <2>3, RepliesOfNothing
    <3> QED BY <3>1 DEF NoHalfFile
  <2> QED BY <2>1, <2>2, <2>3
<1> QED BY <1>1, <1>2

\* A file is written as it was meant or not at all, unless the stream breaks off between its
\* content and the colon of the next field.
THEOREM NoHalfFileCorrect == StreamSpec => []NoHalfFile
<1>1. StreamInit => StreamInv /\ NoHalfFile
  <2>1. StreamInit => reply.calls = <<>>
    BY RepliesOfNothing DEF StreamInit
  <2> QED BY <2>1, StreamInitInv DEF NoHalfFile
<1>2. (StreamInv /\ NoHalfFile) /\ [StreamNext]_streamVars => (StreamInv /\ NoHalfFile)'
  BY StreamNextInv, FilesStay
<1> QED BY <1>1, <1>2, PTL DEF StreamSpec

-----------------------------------------------------------------------------
(* A sanitized plan keeps its promises (ProjectPlans).                     *)

LEMMA SanitizeKeepsPromises ==
    ASSUME Sanitize
    PROVE  ObligationsFollow'
<1> DEFINE root == IF wish.hint = NoRoot THEN answer.root ELSE wish.hint
           roots == <<root, answer.root>>
           named == {Stripped(f, roots) : f \in {f \in answer.files : LooksPlanned(f)}}
           files == WithDocuments(WithLayout(named, root))
           obliged == {ObligedAt(o, roots) : o \in {o \in answer.obliged : SafePath(o)}}
           refused == \/ ~Parses(answer) \/ ~SafeRoot(answer.root) \/ ~SafeRoot(root) \/ files = {}
                      \/ \E f \in answer.files : ~SafePath(f)
           commands == UNION {SanitizedCommand(c, answer.root, root) : c \in answer.commands}
<1>1. /\ project' = IF refused THEN NoPlan
                    ELSE [root |-> root, files |-> files, obliged |-> Pruned(obliged, files),
                          commands |-> commands]
      /\ answer' = answer /\ wish' = wish
  BY Zenon DEF Sanitize
<1>2. SUFFICES ASSUME project' # NoPlan, ~Asks("package")',
                      NEW o \in answer.obliged \cap answer.files, LooksPlanned(o), answer.mentioned
               PROVE  Stripped(o, <<project'.root, answer.root>>) \in project'.obliged \cap project'.files
  BY <1>1, Zenon DEF ObligationsFollow
<1>3. ~Asks("package")
  BY <1>1, <1>2 DEF Asks
<1>4. Stripped(o, roots) \in named
  BY <1>2
<1>5. Stripped(o, roots) \in files
  <2>1. WithLayout(named, root) = named
    BY <1>3 DEF WithLayout
  <2> QED BY <1>4, <2>1 DEF WithDocuments
<1>6. ~refused
  BY <1>1, <1>2, Zenon
<1>7. Stripped(o, roots) \in Pruned(obliged, files)
  <2>1. SafePath(o)
    BY <1>2, <1>6
  <2>2. Stripped(o, roots) \in obliged
    BY <1>2, <2>1 DEF ObligedAt
  <2>3. Pruned(obliged, files) = obliged
    BY <1>2 DEF Pruned
  <2> QED BY <2>2, <2>3
<1> HIDE DEF files, named, obliged, refused, commands
<1>8. project'.root = root /\ project'.files = files /\ project'.obliged = Pruned(obliged, files)
  BY <1>1, <1>6
<1> QED BY <1>5, <1>7, <1>8

LEMMA PromisesAreKept ==
    ASSUME ObligationsFollow, [PlansNext]_plansVars
    PROVE  ObligationsFollow'
<1>1. CASE Receive
  BY <1>1 DEF Receive, ObligationsFollow
<1>2. CASE Sanitize
  BY <1>2, SanitizeKeepsPromises
<1>3. ASSUME NEW featureful \in BOOLEAN, NEW thin \in BOOLEAN, Judge(featureful, thin)
      PROVE  ObligationsFollow'
  <2>1. planStage = "sanitized" /\ UNCHANGED <<answer, wish, project>>
    BY <1>3 DEF Judge
  <2> QED BY <2>1 DEF ObligationsFollow, Asks
<1>4. CASE UseStrategy
  BY <1>4 DEF UseStrategy, ObligationsFollow
<1>5. CASE UNCHANGED plansVars
  <2>1. UNCHANGED <<planStage, answer, wish, project>>
    BY <1>5 DEF plansVars
  <2> QED BY <2>1 DEF ObligationsFollow, Asks
<1> QED BY <1>1, <1>2, <1>3, <1>4, <1>5 DEF PlansNext

\* Where the plan has no package layout: what the model promises of a file that it plans,
\* and tests, the sanitized plan promises of the file where it went.  A layout moves files
\* and not the promises; nothing is claimed of it.
THEOREM ObligationsFollowCorrect == PlansSpec => []ObligationsFollow
<1>1. PlansInit => ObligationsFollow
  BY DEF PlansInit, ObligationsFollow
<1> QED BY <1>1, PromisesAreKept, PTL DEF PlansSpec

-----------------------------------------------------------------------------
(* What a route of the model may be (Routes).                              *)

Fields == {"kind", "caps", "target", "hint", "readOnly", "mutates", "validates", "external", "flags", "source"}
IsRoute(r) == DOMAIN r = Fields /\ r.kind \in Kinds

\* q has from r what validation does not touch; q holds to what the prompt forbids; q
\* changes nothing.
Keeps(q, r) == IsRoute(q) /\ q.flags = r.flags /\ q.source = r.source /\ q.readOnly = r.readOnly
Obeys(q, c) ==
    /\ c.noShell => q.caps \cap Shelling = {}
    /\ c.noNetwork => q.caps \cap Web = {}
ReadsOnly(q) == q.caps \cap Changing = {} /\ q.kind \in {"answer", "inspect"}

LEMMA NarrowedObeys ==
    ASSUME NEW c, NEW r, IsRoute(r)
    PROVE  Keeps(Narrowed(c, r), r) /\ Obeys(Narrowed(c, r), c)
<1> DEFINE q == Narrowed(c, r)
           caps == r.caps \ (Only(c.noShell, Shelling) \cup Only(c.noNetwork, Web))
<1>1. q = [r EXCEPT !.caps = caps]
  BY DEF Narrowed
<1>2. DOMAIN q = Fields /\ q.caps = caps /\ q.kind = r.kind /\ q.flags = r.flags /\ q.source = r.source
      /\ q.readOnly = r.readOnly
  BY <1>1 DEF IsRoute, Fields
<1>3. Obeys(q, c)
  BY <1>2 DEF Obeys, Only
<1> QED BY <1>2, <1>3 DEF Keeps, IsRoute

LEMMA ReadOnlyObeys ==
    ASSUME NEW c, NEW r, NEW external, NEW grounds, IsRoute(r), Obeys(r, c), external => ~c.noNetwork
    PROVE  LET q == ReadOnlyRoute(c, r, external, grounds)
           IN  Keeps(q, r) /\ Obeys(q, c) /\ ReadsOnly(q)
<1> DEFINE q == ReadOnlyRoute(c, r, external, grounds)
           rest == r.caps \ Changing
           hint == IF AnswerArtifact(c) THEN "direct_answer" ELSE "none"
           kind == IF ~AnswerArtifact(c) /\ ~(external /\ ~grounds) /\ (grounds \/ rest \cap Local # {})
                   THEN "inspect" ELSE "answer"
           caps == CASE AnswerArtifact(c) -> {}
                     [] ~AnswerArtifact(c) /\ external /\ ~grounds -> Web
                     [] OTHER -> IF grounds \/ rest \cap Local # {} THEN rest \cup Local ELSE {}
<1>1. q = [r EXCEPT !.hint = hint, !.kind = kind, !.caps = caps]
  BY DEF ReadOnlyRoute
<1>2. kind \in {"answer", "inspect"}
  OBVIOUS
<1>3. caps \subseteq rest \cup Local \/ (external /\ caps = Web)
  BY Zenon
<1> HIDE DEF hint, kind, caps
<1>4. DOMAIN q = Fields /\ q.caps = caps /\ q.kind = kind /\ q.flags = r.flags /\ q.source = r.source
      /\ q.readOnly = r.readOnly
  BY <1>1 DEF IsRoute, Fields
<1>5. Keeps(q, r)
  BY <1>2, <1>4 DEF Keeps, IsRoute, Kinds
<1>6. Obeys(q, c)
  BY <1>3, <1>4 DEF Obeys, Shelling, Web, Local
<1>7. ReadsOnly(q)
  BY <1>2, <1>3, <1>4 DEF ReadsOnly, Changing, Mutating, Shelling, Web, Local
<1> QED BY <1>5, <1>6, <1>7

\* A route that Directed makes of another one.
LEMMA StillObeys ==
    ASSUME NEW c, NEW r, NEW s, NEW q, IsRoute(r), Keeps(s, r), Obeys(s, c), DOMAIN q = Fields,
           q.kind \in Kinds, q.flags = s.flags, q.source = s.source, q.readOnly = s.readOnly,
           c.noShell => q.caps \cap Shelling \subseteq s.caps,
           c.noNetwork => q.caps \cap Web \subseteq s.caps
    PROVE  Keeps(q, r) /\ Obeys(q, c)
BY DEF Keeps, Obeys, IsRoute

LEMMA DirectedObeys ==
    ASSUME NEW c, NEW r, NEW external, NEW grounds, IsRoute(r), Obeys(r, c), external => ~c.noNetwork
    PROVE  LET q == Directed(c, r, external, grounds)
           IN  Keeps(q, r) /\ Obeys(q, c)
<1> DEFINE generates == Generates(c, r.target)
           onlyAnswers == external /\ ~(c.mutation \/ r.mutates \/ r.kind = "modify" \/ generates)
           r1 == Apply(onlyAnswers /\ ~grounds,
                       [r EXCEPT !.kind = "answer", !.caps = Web, !.hint = "external_research"], r)
           r2 == Apply(generates /\ ~external,
                       [r1 EXCEPT !.kind = "modify", !.hint = "multi_file_generation",
                          !.caps = @ \cup {"read_file", "mutate_file"}
                                     \cup Only(TestsDue(c), {"run_validation"})], r1)
           r3 == Apply(r2.kind = "modify" /\ ~Supported(c, r, r2.target),
                       IF grounds
                       THEN [r2 EXCEPT !.kind = "inspect",
                               !.caps = (@ \ (Mutating \cup {"run_validation"})) \cup Local]
                       ELSE [r2 EXCEPT !.kind = "answer", !.caps = {}, !.hint = "none"], r2)
           r4 == Apply(grounds /\ r3.kind = "answer" /\ ~external
                         /\ (r3.caps \cap Local # {} \/ c.workspace \/ LocalRequest(c)),
                       [r3 EXCEPT !.kind = "inspect", !.caps = @ \cup Local], r3)
<1>0. Directed(c, r, external, grounds) = r4
  BY Zenon DEF Directed
<1>1. r1 = r \/ (external /\ r1 = [r EXCEPT !.kind = "answer", !.caps = Web, !.hint = "external_research"])
  BY DEF Apply
<1>2. \/ r2 = r1
      \/ r2 = [r1 EXCEPT !.kind = "modify", !.hint = "multi_file_generation",
                 !.caps = r1.caps \cup {"read_file", "mutate_file"} \cup Only(TestsDue(c), {"run_validation"})]
  BY Zenon DEF Apply
<1>3. \/ r3 = r2
      \/ r3 = [r2 EXCEPT !.kind = "inspect", !.caps = (r2.caps \ (Mutating \cup {"run_validation"})) \cup Local]
      \/ r3 = [r2 EXCEPT !.kind = "answer", !.caps = {}, !.hint = "none"]
  BY Zenon DEF Apply
<1>4. r4 = r3 \/ r4 = [r3 EXCEPT !.kind = "inspect", !.caps = r3.caps \cup Local]
  BY Zenon DEF Apply
<1> HIDE DEF r1, r2, r3, r4
<1>5. Keeps(r1, r) /\ Obeys(r1, c)
  <2>1. CASE r1 = r
    BY <2>1 DEF Keeps
  <2>2. CASE external /\ r1 = [r EXCEPT !.kind = "answer", !.caps = Web, !.hint = "external_research"]
    <3>1. DOMAIN r1 = Fields /\ r1.caps = Web /\ r1.kind = "answer" /\ r1.flags = r.flags
          /\ r1.source = r.source /\ r1.readOnly = r.readOnly
      BY <2>2 DEF IsRoute, Fields
    <3> QED BY <2>2, <3>1 DEF Keeps, Obeys, IsRoute, Kinds, Web, Shelling
  <2> QED BY <1>1, <2>1, <2>2
<1>6. Keeps(r2, r) /\ Obeys(r2, c)
  <2> DEFINE caps == r1.caps \cup {"read_file", "mutate_file"} \cup Only(TestsDue(c), {"run_validation"})
  <2>1. CASE r2 = [r1 EXCEPT !.kind = "modify", !.hint = "multi_file_generation", !.caps = caps]
    <3> HIDE DEF caps
    <3>1. DOMAIN r2 = Fields /\ r2.caps = caps /\ r2.kind = "modify" /\ r2.flags = r1.flags
          /\ r2.source = r1.source /\ r2.readOnly = r1.readOnly
      BY <1>5, <2>1 DEF Keeps, IsRoute, Fields
    <3>2. (c.noShell => caps \cap Shelling \subseteq r1.caps) /\ caps \cap Web \subseteq r1.caps
      BY DEF caps, Only, TestsDue, Shelling, Web
    <3> QED BY <1>5, <3>1, <3>2, StillObeys DEF Kinds
  <2> QED BY <1>2, <1>5, <2>1
<1>7. Keeps(r3, r) /\ Obeys(r3, c)
  <2> DEFINE caps == (r2.caps \ (Mutating \cup {"run_validation"})) \cup Local
  <2>1. CASE r3 = [r2 EXCEPT !.kind = "inspect", !.caps = caps]
    <3> HIDE DEF caps
    <3>1. DOMAIN r3 = Fields /\ r3.caps = caps /\ r3.kind = "inspect" /\ r3.flags = r2.flags
          /\ r3.source = r2.source /\ r3.readOnly = r2.readOnly
      BY <1>6, <2>1 DEF Keeps, IsRoute, Fields
    <3>2. caps \cap Shelling \subseteq r2.caps /\ caps \cap Web \subseteq r2.caps
      BY DEF caps, Local, Shelling, Web
    <3> QED BY <1>6, <3>1, <3>2, StillObeys DEF Kinds
  <2>2. CASE r3 = [r2 EXCEPT !.kind = "answer", !.caps = {}, !.hint = "none"]
    <3>1. DOMAIN r3 = Fields /\ r3.caps = {} /\ r3.kind = "answer" /\ r3.flags = r2.flags
          /\ r3.source = r2.source /\ r3.readOnly = r2.readOnly
      BY <1>6, <2>2 DEF Keeps, IsRoute, Fields
    <3> QED BY <1>6, <3>1, StillObeys DEF Kinds
  <2> QED BY <1>3, <1>6, <2>1, <2>2
<1>8. Keeps(r4, r) /\ Obeys(r4, c)
  <2> DEFINE caps == r3.caps \cup Local
  <2>1. CASE r4 = [r3 EXCEPT !.kind = "inspect", !.caps = caps]
    <3> HIDE DEF caps
    <3>1. DOMAIN r4 = Fields /\ r4.caps = caps /\ r4.kind = "inspect" /\ r4.flags = r3.flags
          /\ r4.source = r3.source /\ r4.readOnly = r3.readOnly
      BY <1>7, <2>1 DEF Keeps, IsRoute, Fields
    <3>2. caps \cap Shelling \subseteq r3.caps /\ caps \cap Web \subseteq r3.caps
      BY DEF caps, Local, Shelling, Web
    <3> QED BY <1>7, <3>1, <3>2, StillObeys DEF Kinds
  <2> QED BY <1>4, <1>7, <2>1
<1> QED BY <1>0, <1>8

LEMMA KindObeys ==
    ASSUME NEW c, NEW r, NEW external, NEW grounds, IsRoute(r), Obeys(r, c), external => ~c.noNetwork,
           r.readOnly => ReadsOnly(r)
    PROVE  LET q == KindKeeps(c, r, external, grounds)
           IN  Keeps(q, r) /\ Obeys(q, c) /\ (q.readOnly => ReadsOnly(q))
<1> DEFINE q == KindKeeps(c, r, external, grounds)
           some == (r.caps \ Changing) \cup Only(grounds \/ ~external, Local)
<1> SUFFICES Keeps(q, r) /\ Obeys(q, c) /\ (q.readOnly => ReadsOnly(q))
  OBVIOUS
<1>1. CASE r.kind = "answer"
  <2> DEFINE hint == IF r.hint = "direct_answer" THEN r.hint ELSE "none"
  <2>1. CASE external
    <3>1. q = [r EXCEPT !.caps = Web, !.hint = "external_research"]
      BY <1>1, <2>1, Zenon DEF KindKeeps
    <3>2. DOMAIN q = Fields /\ q.caps = Web /\ q.kind = "answer" /\ q.flags = r.flags
          /\ q.source = r.source /\ q.readOnly = r.readOnly
      BY <1>1, <3>1 DEF IsRoute, Fields
    <3> HIDE DEF q
    <3> QED BY <2>1, <3>2 DEF Keeps, IsRoute, Obeys, ReadsOnly, Kinds, Web, Changing, Mutating, Shelling
  <2>2. CASE ~external
    <3>1. q = [r EXCEPT !.caps = {}, !.hint = hint]
      BY <1>1, <2>2, Zenon DEF KindKeeps
    <3> HIDE DEF hint
    <3>2. DOMAIN q = Fields /\ q.caps = {} /\ q.kind = "answer" /\ q.flags = r.flags
          /\ q.source = r.source /\ q.readOnly = r.readOnly
      BY <1>1, <3>1 DEF IsRoute, Fields
    <3> HIDE DEF q
    <3> QED BY <3>2 DEF Keeps, IsRoute, Obeys, ReadsOnly, Kinds
  <2> QED BY <2>1, <2>2
<1>2. CASE r.kind = "inspect"
  <2> DEFINE caps == some \ Only(LocalRequest(c), Web)
  <2>1. q = [r EXCEPT !.caps = caps, !.hint = "none"]
    BY <1>2, Zenon DEF KindKeeps
  <2>2. caps \subseteq (r.caps \ Changing) \cup Local
    BY DEF Only
  <2> HIDE DEF caps
  <2>3. DOMAIN q = Fields /\ q.caps = caps /\ q.kind = "inspect" /\ q.flags = r.flags
        /\ q.source = r.source /\ q.readOnly = r.readOnly
    BY <1>2, <2>1 DEF IsRoute, Fields
  <2> HIDE DEF q
  <2> QED BY <2>2, <2>3 DEF Keeps, IsRoute, Obeys, ReadsOnly, Kinds, Web, Changing, Mutating, Shelling, Local
<1>3. CASE r.kind = "operate"
  <2>1. ~r.readOnly
    BY <1>3 DEF ReadsOnly
  <2>2. CASE ~c.noShell
    <3>1. q = r
      BY <1>3, <2>2, Zenon DEF KindKeeps
    <3> HIDE DEF q
    <3> QED BY <2>1, <3>1 DEF Keeps
  <2>3. CASE c.noShell
    <3> DEFINE kind == IF grounds THEN "inspect" ELSE "answer"
               caps == Only(grounds, Local)
    <3>1. q = [r EXCEPT !.kind = kind, !.caps = caps, !.hint = "none"]
      BY <1>3, <2>3, Zenon DEF KindKeeps
    <3>2. kind \in {"answer", "inspect"} /\ caps \subseteq Local
      BY DEF Only
    <3> HIDE DEF kind, caps
    <3>3. DOMAIN q = Fields /\ q.caps = caps /\ q.kind = kind /\ q.flags = r.flags
          /\ q.source = r.source /\ q.readOnly = r.readOnly
      BY <3>1 DEF IsRoute, Fields
    <3> HIDE DEF q
    <3> QED BY <2>1, <3>2, <3>3 DEF Keeps, IsRoute, Obeys, Kinds, Web, Shelling, Local
  <2> QED BY <2>2, <2>3
<1>4. CASE r.kind = "modify"
  <2> DEFINE caps == r.caps \cup {"read_file", "mutate_file"} \cup Only(TestsDue(c), {"run_validation"})
             hint == IF r.target = "file" /\ r.hint \in Staged THEN "direct_file_edit"
                     ELSE IF c.project \/ Generates(c, r.target) THEN "multi_file_generation" ELSE r.hint
  <2>1. ~r.readOnly
    BY <1>4 DEF ReadsOnly
  <2>2. q = [r EXCEPT !.caps = caps, !.hint = hint]
    BY <1>4, Zenon DEF KindKeeps
  <2>3. (c.noShell => caps \cap Shelling \subseteq r.caps) /\ caps \cap Web \subseteq r.caps
    BY DEF Only, TestsDue, Shelling, Web
  <2> HIDE DEF caps, hint
  <2>4. DOMAIN q = Fields /\ q.caps = caps /\ q.kind = "modify" /\ q.flags = r.flags
        /\ q.source = r.source /\ q.readOnly = r.readOnly
    BY <1>4, <2>2 DEF IsRoute, Fields
  <2> HIDE DEF q
  <2> QED BY <2>1, <2>3, <2>4 DEF Keeps, IsRoute, Obeys, Kinds
<1> QED BY <1>1, <1>2, <1>3, <1>4 DEF IsRoute, Kinds

\* Which words forbid commands, and the network.
LEMMA ForbiddingWords ==
    ASSUME NEW p
    PROVE  /\ Constraints(p).noShell <=> "noShell" \in p
           /\ Constraints(p).noNetwork <=> "noNetwork" \in p
           /\ "noShell" \in FlagsOf(p) <=> "noShell" \in p
           /\ "noNetwork" \in FlagsOf(p) <=> "noNetwork" \in p
<1>1. (Constraints(p).noShell <=> "noShell" \in p) /\ (Constraints(p).noNetwork <=> "noNetwork" \in p)
  BY Zenon DEF Constraints
<1> QED BY <1>1 DEF FlagsOf

\* Whatever the model has decided, the merged route is a route with the flags of the prompt.
LEMMA MergedIsRoute ==
    ASSUME NEW p, NEW d \in Decisions
    PROVE  IsRoute(Merged(d, p)) /\ Merged(d, p).flags = FlagsOf(p) /\ Merged(d, p).source = "model"
<1>1. DOMAIN Merged(d, p) = Fields /\ Merged(d, p).flags = FlagsOf(p) /\ Merged(d, p).source = "model"
  BY Zenon DEF Merged, Fields
<1>2. d.kind \in Kinds
  BY RoutesAssumption DEF Schema
<1>3. "answer" \in Kinds /\ "inspect" \in Kinds /\ "modify" \in Kinds
  BY DEF Kinds
<1>4. Merged(d, p).kind \in {"answer", "inspect", "modify", d.kind}
  BY DEF Merged
<1> QED BY <1>1, <1>2, <1>3, <1>4 DEF IsRoute

\* What the policy relies on: a route that must change nothing does not, and what it calls
\* for is what it may do.
Honest(q, p) ==
    LET c == Constraints(p) IN
    /\ c.readOnly => q.readOnly
    /\ Obeys(q, c) /\ q.flags = FlagsOf(p)
    /\ q.readOnly => q.caps \cap Changing = {}
    /\ q.mutates => q.kind = "modify" /\ q.caps \cap Mutating # {} /\ ~q.readOnly
    /\ q.validates => q.kind \in {"modify", "operate"} /\ ~q.readOnly /\ ~c.noShell /\ "run_validation" \in q.caps
    /\ q.external => ~c.noNetwork

LEMMA ValidatedIsHonest ==
    ASSUME NEW p, NEW r, IsRoute(r), r.flags = FlagsOf(p)
    PROVE  LET q == ValidatedRoute(r, p)
           IN  DOMAIN q = Fields /\ Honest(q, p) /\ q.source = r.source
<1> DEFINE c == Constraints(p)
           target == IF r.target # "none" THEN r.target ELSE c.path
           followup == AnswerFollowup(c)
           readOnly == r.readOnly \/ c.readOnly
           external == (r.external \/ c.external \/ "web_search" \in r.caps) /\ ~c.noNetwork /\ ~LocalRequest(c)
           grounds == Evidence(c, target)
           begun == [r EXCEPT !.target = target, !.readOnly = readOnly]
           narrowed == Narrowed(c, begun)
           bound == Apply(readOnly, ReadOnlyRoute(c, narrowed, external, grounds), narrowed)
           aimed == CASE followup -> [bound EXCEPT !.kind = "answer", !.caps = {}, !.hint = "none",
                                                   !.target = "none"]
                      [] ~followup /\ readOnly -> bound
                      [] OTHER -> Directed(c, bound, external, grounds)
           searches == external /\ ~followup
           keeps == KindKeeps(c, aimed, searches, grounds)
           ext == "web_search" \in keeps.caps /\ ~c.noNetwork /\ ~LocalRequest(c)
           mut == keeps.kind = "modify" /\ keeps.caps \cap Mutating # {} /\ ~readOnly
           val == keeps.kind \in {"modify", "operate"} /\ ~readOnly /\ ~c.noShell /\ "run_validation" \in keeps.caps
           q == ValidatedRoute(r, p)
<1>1. q = [keeps EXCEPT !.external = ext, !.mutates = mut, !.validates = val]
  BY Zenon DEF ValidatedRoute
<1>2. (external => ~c.noNetwork) /\ (searches => ~c.noNetwork)
  BY Zenon
<1>3. /\ ext => ~c.noNetwork
      /\ mut => keeps.kind = "modify" /\ keeps.caps \cap Mutating # {} /\ ~readOnly
      /\ val => keeps.kind \in {"modify", "operate"} /\ ~readOnly /\ ~c.noShell /\ "run_validation" \in keeps.caps
      /\ c.readOnly => readOnly
  BY Zenon
<1>4. \/ followup /\ aimed = [bound EXCEPT !.kind = "answer", !.caps = {}, !.hint = "none", !.target = "none"]
      \/ ~followup /\ readOnly /\ aimed = bound
      \/ ~followup /\ ~readOnly /\ aimed = Directed(c, bound, external, grounds)
  BY Zenon
<1>5. \/ readOnly /\ bound = ReadOnlyRoute(c, narrowed, external, grounds)
      \/ ~readOnly /\ bound = narrowed
  BY Zenon DEF Apply
<1>6. narrowed = Narrowed(c, begun) /\ keeps = KindKeeps(c, aimed, searches, grounds)
  OBVIOUS
<1>7. begun = [r EXCEPT !.target = target, !.readOnly = readOnly]
  BY Zenon
<1> HIDE DEF c, target, followup, readOnly, external, grounds, begun, narrowed, bound, aimed, searches, keeps,
             ext, mut, val, q
<1>8. IsRoute(begun) /\ begun.flags = r.flags /\ begun.source = r.source /\ begun.readOnly = readOnly
  BY <1>7 DEF IsRoute, Fields
<1>9. Keeps(narrowed, begun) /\ Obeys(narrowed, c)
  BY <1>6, <1>8, NarrowedObeys
<1>10. Keeps(bound, begun) /\ Obeys(bound, c) /\ (readOnly => ReadsOnly(bound))
  <2>1. CASE readOnly /\ bound = ReadOnlyRoute(c, narrowed, external, grounds)
    <3>1. IsRoute(narrowed)
      BY <1>9 DEF Keeps
    <3>2. Keeps(bound, narrowed) /\ Obeys(bound, c) /\ ReadsOnly(bound)
      BY <1>2, <1>9, <2>1, <3>1, ReadOnlyObeys
    <3> QED BY <1>9, <3>2 DEF Keeps
  <2>2. CASE ~readOnly /\ bound = narrowed
    BY <1>9, <2>2
  <2> QED BY <1>5, <2>1, <2>2
<1>11. Keeps(aimed, begun) /\ Obeys(aimed, c) /\ (readOnly => ReadsOnly(aimed))
  <2>1. CASE aimed = [bound EXCEPT !.kind = "answer", !.caps = {}, !.hint = "none", !.target = "none"]
    <3>1. DOMAIN aimed = Fields /\ aimed.caps = {} /\ aimed.kind = "answer" /\ aimed.flags = bound.flags
          /\ aimed.source = bound.source /\ aimed.readOnly = bound.readOnly
      BY <1>10, <2>1 DEF Keeps, IsRoute, Fields
    <3> QED BY <1>10, <3>1 DEF Keeps, IsRoute, Obeys, ReadsOnly, Kinds
  <2>2. CASE aimed = bound
    BY <1>10, <2>2
  <2>3. CASE ~readOnly /\ aimed = Directed(c, bound, external, grounds)
    <3>1. IsRoute(bound)
      BY <1>10 DEF Keeps
    <3>2. Keeps(aimed, bound) /\ Obeys(aimed, c)
      BY <1>2, <1>10, <2>3, <3>1, DirectedObeys
    <3> QED BY <1>10, <2>3, <3>2 DEF Keeps
  <2> QED BY <1>4, <2>1, <2>2, <2>3
<1>12. Keeps(keeps, begun) /\ Obeys(keeps, c) /\ (readOnly => ReadsOnly(keeps))
  <2>1. IsRoute(aimed) /\ aimed.readOnly = readOnly
    BY <1>8, <1>11 DEF Keeps
  <2>2. aimed.readOnly => ReadsOnly(aimed)
    BY <1>11, <2>1
  <2>3. Keeps(keeps, aimed) /\ Obeys(keeps, c) /\ (keeps.readOnly => ReadsOnly(keeps))
    BY <1>2, <1>6, <1>11, <2>1, <2>2, KindObeys
  <2> QED BY <1>11, <2>1, <2>3 DEF Keeps
<1>13. DOMAIN q = Fields /\ q.caps = keeps.caps /\ q.kind = keeps.kind /\ q.flags = r.flags /\ q.source = r.source
       /\ q.readOnly = readOnly /\ q.external = ext /\ q.mutates = mut /\ q.validates = val
  BY <1>1, <1>8, <1>12 DEF Keeps, IsRoute, Fields
<1>14. Obeys(q, c)
  BY <1>12, <1>13 DEF Obeys
<1>15. q.readOnly => q.caps \cap Changing = {}
  BY <1>12, <1>13 DEF ReadsOnly
<1>16. /\ q.mutates => q.kind = "modify" /\ q.caps \cap Mutating # {} /\ ~q.readOnly
       /\ q.validates => q.kind \in {"modify", "operate"} /\ ~q.readOnly /\ ~c.noShell /\ "run_validation" \in q.caps
       /\ q.external => ~c.noNetwork
       /\ c.readOnly => q.readOnly
  BY <1>3, <1>13
<1>17. Honest(q, p)
  BY <1>13, <1>14, <1>15, <1>16 DEF Honest, c
<1> QED BY <1>13, <1>17 DEF q

LEMMA PolicyIsHonest ==
    ASSUME NEW p, NEW r, DOMAIN r = Fields, Honest(r, p)
    PROVE  Honest(AnswerPolicy(r, p), p) /\ DOMAIN AnswerPolicy(r, p) = Fields
<1> DEFINE c == Constraints(p)
           searches == ~c.reference /\ (c.external \/ r.external) /\ ~c.noNetwork /\ ~LocalRequest(c)
           hint == IF searches THEN "external_research"
                   ELSE IF r.hint = "direct_answer" THEN r.hint ELSE "none"
           caps == Only(searches, Web)
           no == FALSE
           q == AnswerPolicy(r, p)
<1>1. \/ q = r
      \/ q = [r EXCEPT !.caps = caps, !.external = searches, !.hint = hint, !.mutates = no, !.validates = no]
  BY Zenon DEF AnswerPolicy, Apply
<1>2. (searches => ~c.noNetwork) /\ ~no
  BY Zenon
<1>3. caps \subseteq Web /\ (~searches => caps = {})
  BY Zenon DEF Only
<1> HIDE DEF searches, hint, caps, no, q
<1>4. CASE q = r
  BY <1>4 DEF q
<1>5. CASE q = [r EXCEPT !.caps = caps, !.external = searches, !.hint = hint, !.mutates = no, !.validates = no]
  <2>1. DOMAIN q = Fields /\ q.caps = caps /\ q.kind = r.kind /\ q.flags = r.flags /\ q.readOnly = r.readOnly
        /\ q.external = searches /\ q.mutates = no /\ q.validates = no
    BY <1>5 DEF Fields
  <2> HIDE DEF c
  <2>2. /\ c.readOnly => r.readOnly
        /\ r.flags = FlagsOf(p)
    BY DEF Honest, c
  <2>3. Obeys(q, c)
    <3>1. caps \cap Shelling = {}
      BY <1>3 DEF Web, Shelling
    <3>2. c.noNetwork => caps = {}
      BY <1>2, <1>3
    <3> QED BY <2>1, <3>1, <3>2 DEF Obeys
  <2>4. q.caps \cap Changing = {}
    BY <1>3, <2>1 DEF Web, Changing, Mutating, Shelling
  <2>5. ~q.mutates /\ ~q.validates /\ (q.external => ~c.noNetwork)
    BY <1>2, <2>1
  <2>6. Honest(q, p)
    BY <2>1, <2>2, <2>3, <2>4, <2>5 DEF Honest, c
  <2> QED BY <2>1, <2>6 DEF q
<1> QED BY <1>1, <1>4, <1>5

-----------------------------------------------------------------------------
(* The steps of the routing.                                               *)

\* A route of the model is honest from the time it is made, and the first call of the turn
\* changes nothing that must not change.
RouteInv ==
    /\ routing \in {"routed", "checked", "aimed", "done"} /\ route.source = "model" =>
          DOMAIN route = Fields /\ Honest(route, prompt)
    /\ routing = "done" /\ first \in {"delete", "generation"} => ~route.readOnly

LEMMA OtherSources ==
    ASSUME NEW p
    PROVE  RuleRoute(p).source = "rule" /\ FallbackRoute(p).source = "fallback"
<1>1. DOMAIN RuleRoute(p) = Fields /\ RuleRoute(p).source = "rule"
  BY Zenon DEF RuleRoute, Fields
<1>2. ASSUME NEW r, NEW c, DOMAIN r = Fields PROVE Sanitized(r, c).source = r.source
  <2> DEFINE local == LocalRequest(c)
             caps == (r.caps \ Changing) \ Only(local, Web)
             reads == NeedsWorkspace(c, caps) \/ r.target # "none"
                       \/ (r.kind # "answer" /\ "web_search" \notin caps)
             kind == IF ~AnswerArtifact(c) /\ (reads \/ "web_search" \in caps) THEN "inspect" ELSE "answer"
             keeps == CASE kind = "answer" -> {}
                      [] kind = "inspect" -> caps \cup Only(reads, Local)
             no == FALSE
             hint == IF AnswerArtifact(c) THEN "direct_answer" ELSE "none"
             ext == "web_search" \in keeps /\ ~local
             q == Sanitized(r, c)
  <2>1. \/ q = r
        \/ q = [r EXCEPT !.kind = kind, !.caps = keeps, !.mutates = no, !.validates = no, !.hint = hint,
                  !.external = ext]
    BY Zenon DEF Sanitized, Apply
  <2> HIDE DEF local, caps, reads, kind, keeps, no, hint, ext, q
  <2>2. q.source = r.source
    BY <1>2, <2>1 DEF Fields
  <2> QED BY <2>2 DEF q
<1>3. FallbackRoute(p).source = "fallback"
  <2> DEFINE c == Constraints(p)
             r == RuleRoute(p)
             local == LocalRequest(c)
             followup == AnswerFollowup(c)
             artifact == AnswerArtifact(c)
             looks == c.followup \/ c.workspace \/ c.path # "none"
             searches == c.external /\ ~c.noNetwork /\ ~local
             mutation == c.mutation /\ ~followup
             caps1 == IF followup \/ artifact THEN {}
                      ELSE r.caps \cup Only(looks, Local) \cup Only(searches, Web)
                           \cup Only(mutation, {"read_file", "mutate_file"})
                           \cup Only(mutation /\ TestsDue(c), {"run_validation"})
             kind1 == IF followup \/ artifact THEN "answer"
                      ELSE IF mutation THEN "modify"
                           ELSE IF looks \/ searches THEN "inspect" ELSE r.kind
             reads == c.readOnly /\ ~artifact /\ NeedsWorkspace(c, caps1 \ Changing)
             caps2 == (caps1 \ Only(c.readOnly, Changing)) \cup Only(reads, Local)
             kind2 == IF ~c.readOnly THEN kind1 ELSE IF reads THEN "inspect" ELSE "answer"
             here == local /\ ~followup
             caps == IF here THEN (caps2 \ Web) \cup Local ELSE caps2
             kind == IF ~c.readOnly /\ caps \cap Mutating # {} THEN "modify"
                     ELSE IF here THEN "inspect" ELSE kind2
             target == IF r.target # "none" THEN r.target ELSE c.path
             hint == IF artifact THEN "direct_answer"
                     ELSE IF target = "file"
                          THEN IF r.hint \in Staged THEN "direct_file_edit" ELSE r.hint
                          ELSE IF c.project /\ kind = "modify" THEN "multi_file_generation" ELSE r.hint
             mut == ~c.readOnly /\ kind = "modify" /\ caps \cap Mutating # {}
             val == (r.validates \/ c.validation) /\ "run_validation" \in caps
             ext == "web_search" \in caps /\ ~local
             s == [r EXCEPT !.kind = kind, !.caps = caps, !.target = target, !.hint = hint,
                     !.mutates = mut, !.validates = val, !.external = ext, !.source = "fallback"]
  <2>1. FallbackRoute(p) = Sanitized(s, c)
    BY Zenon DEF FallbackRoute
  <2>2. DOMAIN r = Fields
    BY <1>1
  <2> HIDE DEF c, r, kind, caps, target, hint, mut, val, ext
  <2>3. DOMAIN s = Fields /\ s.source = "fallback"
    BY <2>2 DEF Fields
  <2> HIDE DEF s
  <2> QED BY <1>2, <2>1, <2>3
<1> QED BY <1>1, <1>3

LEMMA ModelRouteIsHonest ==
    ASSUME NEW p, NEW d \in Decisions
    PROVE  LET r == AnswerPolicy(ValidatedRoute(Merged(d, p), p), p)
           IN  Honest(r, p) /\ DOMAIN r = Fields
<1> DEFINE v == ValidatedRoute(Merged(d, p), p)
<1>1. DOMAIN v = Fields /\ Honest(v, p)
  BY MergedIsRoute, ValidatedIsHonest
<1> HIDE DEF v
<1>2. Honest(AnswerPolicy(v, p), p) /\ DOMAIN AnswerPolicy(v, p) = Fields
  BY <1>1, PolicyIsHonest
<1> QED BY <1>2 DEF v

LEMMA RouteNextInv ==
    ASSUME RouteInv, [RouteNext]_routesVars
    PROVE  RouteInv'
<1>1. CASE Ask
  BY <1>1 DEF Ask, RouteInv
<1>2. CASE RuleRoutes \/ ModelFails
  <2>1. routing' = "routed" /\ route'.source # "model"
    BY <1>2, OtherSources DEF RuleRoutes, ModelFails, Routed
  <2> QED BY <2>1 DEF RouteInv
<1>3. CASE ModelRoutes
  <2>1. routing' = "routed" /\ DOMAIN route' = Fields /\ Honest(route', prompt) /\ prompt' = prompt
    BY <1>3, ModelRouteIsHonest DEF ModelRoutes, Routed
  <2> QED BY <2>1 DEF RouteInv
<1>4. CASE CrossCheck
  <2>1. /\ routing = "routed" /\ routing' = "checked" /\ prompt' = prompt
        /\ route' = route \/ route' = RuleRoute(prompt)
    BY <1>4 DEF CrossCheck
  <2>2. RuleRoute(prompt).source # "model"
    BY OtherSources
  <2> QED BY <2>1, <2>2 DEF RouteInv
<1>5. ASSUME NEW found, NEW missing, Target(found, missing) PROVE RouteInv'
  <2>1. /\ routing = "checked" /\ routing' = "aimed" /\ prompt' = prompt
        /\ route' = route \/ route' = [route EXCEPT !.target = found]
    BY <1>5 DEF Target
  <2>2. CASE route' = route
    BY <2>1, <2>2 DEF RouteInv
  <2>3. ASSUME route' = [route EXCEPT !.target = found], route'.source = "model"
        PROVE  DOMAIN route' = Fields /\ Honest(route', prompt)
    <3>1. DOMAIN route' = DOMAIN route /\ route'.source = route.source /\ route'.caps = route.caps
          /\ route'.kind = route.kind /\ route'.flags = route.flags /\ route'.readOnly = route.readOnly
          /\ route'.mutates = route.mutates /\ route'.validates = route.validates
          /\ route'.external = route.external
      BY <2>3
    <3>2. DOMAIN route = Fields /\ Honest(route, prompt)
      BY <2>1, <2>3, <3>1 DEF RouteInv
    <3> QED BY <3>1, <3>2 DEF Honest, Obeys
  <2> QED BY <2>1, <2>2, <2>3 DEF RouteInv
<1>6. CASE Generation
  BY <1>6 DEF Generation, RouteInv
<1>7. ASSUME NEW call, Preflight(call) PROVE RouteInv'
  <2>1. /\ routing = "aimed" /\ routing' = "done" /\ UNCHANGED <<prompt, route>> /\ first' = call
        /\ call \in {"delete", "generation"} => ~route.readOnly
    BY <1>7 DEF Preflight, Deletes, Only
  <2> QED BY <2>1 DEF RouteInv
<1>8. CASE UNCHANGED routesVars
  <2>1. UNCHANGED <<routing, prompt, route, first>>
    BY <1>8 DEF routesVars
  <2> QED BY <2>1 DEF RouteInv
<1> QED BY <1>1, <1>2, <1>3, <1>4, <1>5, <1>6, <1>7, <1>8 DEF RouteNext

LEMMA HonestIsBound ==
    ASSUME RouteInv
    PROVE  ModelIsBound
<1> SUFFICES ASSUME routing = "done", route.source = "model" PROVE ModelIsBound
  BY DEF ModelIsBound
<1> DEFINE c == Constraints(prompt)
<1>1. /\ c.readOnly => route.readOnly
      /\ Obeys(route, c) /\ route.flags = FlagsOf(prompt)
      /\ route.readOnly => route.caps \cap Changing = {}
      /\ route.mutates => route.kind = "modify" /\ route.caps \cap Mutating # {} /\ ~route.readOnly
      /\ route.validates => route.kind \in {"modify", "operate"} /\ ~route.readOnly /\ ~c.noShell
                              /\ "run_validation" \in route.caps
      /\ route.external => ~c.noNetwork
  BY DEF RouteInv, Honest
<1>2. /\ c.noShell <=> "noShell" \in route.flags
      /\ c.noNetwork <=> "noNetwork" \in route.flags
  BY <1>1, ForbiddingWords
<1>3. Forbidden = Only(c.readOnly, {"mutation", "shell", "validation"})
                    \cup Only(c.noShell, {"shell", "validation"}) \cup Only(c.noNetwork, {"web"})
  BY Zenon DEF Forbidden
<1> HIDE DEF c
<1>4. ASSUME NEW category \in Forbidden
      PROVE  /\ ~Allowed(category) /\ category \notin Does(first)
             /\ route.caps \cap Banned(category) = {}
  <2>1. \/ c.readOnly /\ category \in {"mutation", "shell", "validation"}
        \/ c.noShell /\ category \in {"shell", "validation"}
        \/ c.noNetwork /\ category = "web"
    BY <1>3, <1>4 DEF Only
  <2>2. ~Allowed(category)
    BY <1>1, <1>2, <2>1 DEF Allowed
  <2>3. category \notin Does(first)
    <3>1. category = "mutation" => c.readOnly
      BY <2>1
    <3>2. first \in {"delete", "generation"} => ~route.readOnly
      BY DEF RouteInv
    <3>3. Does(first) \subseteq {"mutation", "read"}
          /\ ("mutation" \in Does(first) => first \in {"delete", "generation"})
      BY DEF Does
    <3> QED BY <1>1, <2>1, <3>1, <3>2, <3>3
  <2>4. route.caps \cap Banned(category) = {}
    BY <1>1, <2>1 DEF Banned, Obeys, Changing, Mutating, Shelling, Web
  <2> QED BY <2>2, <2>3, <2>4
<1>5. route.caps \cap UNION {Banned(category) : category \in Forbidden} = {}
  BY <1>4
<1>6. route.mutates => Allowed("mutation") /\ ByRoute("mutation")
  BY <1>1 DEF Allowed, ByRoute
<1>7. route.validates => Allowed("validation") /\ ByRoute("validation")
  BY <1>1, <1>2 DEF Allowed, ByRoute
<1>8. route.external => Allowed("web")
  BY <1>1, <1>2 DEF Allowed, ByRoute
<1> QED BY <1>4, <1>5, <1>6, <1>7, <1>8 DEF ModelIsBound

\* Whatever set of the replies that the schema admits the model may choose from, all of
\* them included, a route made of a reply gives the turn nothing that the prompt forbids.
\* The routes of the fallback and of CrossCheck, whose source is not "model", are exempt.
THEOREM ModelIsBoundCorrect == RouteSpec => []ModelIsBound
<1>1. RouteInit => RouteInv
  BY DEF RouteInit, RouteInv
<1>2. RouteInv /\ [RouteNext]_routesVars => RouteInv'
  BY RouteNextInv
<1>3. RouteInv => ModelIsBound
  BY HonestIsBound
<1> QED BY <1>1, <1>2, <1>3, PTL DEF RouteSpec

-----------------------------------------------------------------------------
(* What an accepted answer about the source rests on (Inspection).         *)

\* What the prompt names has been looked at.
Grounded ==
    /\ MissingFiles = {}
    /\ RepresentativeTargets = {} \/ (inquiry.files # {} /\ ~RepresentativesMissing)
    /\ ~MissingOverview \/ LastRound

Seen ==
    /\ inspected \subseteq Forms \X SourceFiles /\ representative \subseteq SourceFiles
    /\ candidates \subseteq SourceFiles /\ packages \in Nat /\ round \in Nat

\* The gate opens on enough evidence, and a stage that takes an answer has it; the answer
\* ends the inspection.
InspectInv ==
    /\ Seen
    /\ requested \in {"nobody", "gate", "guard"}
    /\ requested = "gate" => Grounded
    /\ at = "model" /\ requested = "nobody" /\ inquiry.staged =>
          (roundStage.name \in {"source_discovery", "targeted_read"} /\ ~roundStage.complete) \/ Grounded
    /\ outcome = "answered" => at = "ended" /\ AnswerIsGrounded

LEMMA LeastOfThree ==
    ASSUME NEW a \in Nat, NEW b \in Nat, NEW c \in Nat
    PROVE  Min({a, b, c}) \in Nat
<1> DEFINE S == {a, b, c}
           P(x) == x \in S /\ \A y \in S : x <= y
<1>1. \E x : P(x)
  <2>1. CASE a <= b /\ a <= c
    BY <2>1
  <2>2. CASE b <= a /\ b <= c
    BY <2>2
  <2>3. CASE c <= a /\ c <= b
    BY <2>3
  <2> QED BY <2>1, <2>2, <2>3
<1>2. P(CHOOSE x : P(x))
  BY <1>1, Zenon
<1>3. Min(S) = CHOOSE x \in S : \A y \in S : x <= y
  BY DEF Min
<1>4. Min(S) \in S
  BY <1>1, <1>3
<1> QED BY <1>4

LEMMA LeastOfTwo ==
    ASSUME NEW a \in Nat, NEW b \in Nat
    PROVE  Min({a, b}) \in Nat
<1>1. Min({a, b, b}) \in Nat
  BY LeastOfThree
<1>2. {a, b, b} = {a, b}
  OBVIOUS
<1> QED BY <1>1, <1>2, Zenon

LEMMA GreatestOfTwo ==
    ASSUME NEW a \in Nat, NEW b \in Nat
    PROVE  Max({a, b}) \in Nat
<1> DEFINE S == {a, b}
<1>1. \E x \in S : \A y \in S : x >= y
  <2>1. CASE a >= b
    BY <2>1
  <2>2. CASE b >= a
    BY <2>2
  <2> QED BY <2>1, <2>2
<1>2. Max(S) = CHOOSE x \in S : \A y \in S : x >= y
  BY DEF Max
<1>3. Max(S) \in S
  BY <1>1, <1>2
<1> QED BY <1>3

\* The counts of the inspection are numbers.
LEMMA Counts ==
    ASSUME Seen
    PROVE  /\ IsFiniteSet(candidates) /\ Cardinality(candidates) \in Nat
           /\ \A n \in Nat : RequiredReads(n) \in Nat
           /\ Max({2, Rounds}) \in Nat
<1>1. IsFiniteSet(candidates) /\ Cardinality(candidates) \in Nat
  BY InspectionAssumption, FS_Subset, FS_CardinalityType DEF Seen
<1>2. \A n \in Nat : StructuralNeed(n) \in Nat
  <2>1. packages \in Nat
    BY DEF Seen
  <2>2. Max({2, packages}) \in Nat
    BY <2>1, GreatestOfTwo
  <2>3. ASSUME NEW n \in Nat PROVE StructuralNeed(n) \in Nat
    <3>1. CASE packages > 1
      <4>1. StructuralNeed(n) = Max({2, packages})
        BY <2>1, <3>1 DEF StructuralNeed
      <4> QED BY <2>2, <4>1
    <3>2. CASE packages <= 1
      BY <2>1, <3>2 DEF StructuralNeed
    <3> QED BY <2>1, <3>1, <3>2
  <2> QED BY <2>3
<1>3. \A n \in Nat : CoverageCap(n) \in Nat
  BY DEF CoverageCap, Seen
<1>4. ASSUME NEW n \in Nat PROVE RequiredReads(n) \in Nat
  <2>1. Min({n, CoverageCap(n), StructuralNeed(n)}) \in Nat
    BY <1>2, <1>3, LeastOfThree
  <2>2. Min({n, 2}) \in Nat
    BY LeastOfTwo
  <2>3. RequiredReads(n) \in {0, 2, Min({n, 2}), Min({n, CoverageCap(n), StructuralNeed(n)})}
    BY DEF RequiredReads
  <2> QED BY <2>1, <2>2, <2>3
<1>5. Max({2, Rounds}) \in Nat
  <2> DEFINE r == RequiredReads(Cardinality(candidates))
  <2>1. r \in Nat
    BY <1>1, <1>4
  <2> HIDE DEF r
  <2>2. Max({RoundBudget, r + 1}) \in Nat
    BY <2>1, InspectionAssumption, GreatestOfTwo
  <2>3. Max({RoundBudget, MaxRounds - 1}) \in Nat
    <3>1. MaxRounds - 1 \in Nat
      BY InspectionAssumption
    <3> QED BY <3>1, InspectionAssumption, GreatestOfTwo
  <2>4. Min({Max({RoundBudget, MaxRounds - 1}), Max({RoundBudget, r + 1})}) \in Nat
    BY <2>2, <2>3, LeastOfTwo
  <2>5. Rounds \in Nat
    BY <2>4, InspectionAssumption DEF Rounds, r
  <2> QED BY <2>5, GreatestOfTwo
<1> QED BY <1>1, <1>4, <1>5

-----------------------------------------------------------------------------
(* The evidence only grows, and what is grounded stays grounded.           *)

\* The number of reads that is asked for, and the last round, depend on the overviews alone.
SameOverviews == UNCHANGED <<inquiry, candidates, overviewed, packages, truncated>>

LEMMA SameNeeds ==
    ASSUME SameOverviews
    PROVE  /\ RequiredReads(Cardinality(candidates))' = RequiredReads(Cardinality(candidates))
           /\ Rounds' = Rounds
           /\ Broad' = Broad /\ MissingOverview' = MissingOverview
<1>1. /\ candidates' = candidates /\ overviewed' = overviewed /\ packages' = packages
      /\ truncated' = truncated /\ inquiry' = inquiry
  BY DEF SameOverviews
<1>2. RequiredReads(Cardinality(candidates))' = RequiredReads(Cardinality(candidates))
  BY <1>1 DEF RequiredReads, Broad, CoverageCap, StructuralNeed
<1>3. Broad' = Broad /\ MissingOverview' = MissingOverview
  BY <1>1 DEF Broad, MissingOverview
<1>4. BroadInspect' = BroadInspect
  BY <1>1, <1>3 DEF BroadInspect
<1>5. Rounds' = Rounds
  BY <1>1, <1>2, <1>4 DEF Rounds
<1> QED BY <1>2, <1>3, <1>5

LEMMA StillReached ==
    ASSUME NEW m \in Nat, NEW i \in Nat, NEW j \in {i, i + 1}, i + 1 >= m
    PROVE  j + 1 >= m
OBVIOUS

LEMMA LastRoundStays ==
    ASSUME Seen, SameOverviews, round' \in {round, round + 1}, LastRound
    PROVE  LastRound'
<1>1. Rounds' = Rounds
  BY SameNeeds
<1>2. Max({2, Rounds}) \in Nat
  BY Counts
<1>3. Max({2, Rounds})' = Max({2, Rounds})
  BY <1>1
<1>4. round + 1 >= Max({2, Rounds}) /\ round \in Nat
  BY DEF LastRound, Seen
<1>5. round' + 1 >= Max({2, Rounds})
  BY <1>2, <1>4, StillReached, Zenon
<1> QED BY <1>3, <1>5, Zenon DEF LastRound

\* What is read is known: fewer candidates are unread, and more paths are known.
LEMMA KnownGrows ==
    ASSUME Seen, Seen', SameOverviews,
           inspected \subseteq inspected', representative \subseteq representative'
    PROVE  /\ Known \subseteq Known' /\ Unread' \subseteq Unread
           /\ Cardinality(Known) \in Nat /\ Cardinality(Known') \in Nat
           /\ Cardinality(Known) <= Cardinality(Known')
           /\ Cardinality(candidates \ Unread) \in Nat /\ Cardinality((candidates \ Unread)') \in Nat
           /\ Cardinality(candidates \ Unread) <= Cardinality((candidates \ Unread)')
<1>1. Known \subseteq Known'
  BY DEF Known
<1>2. candidates' = candidates
  BY DEF SameOverviews
<1>3. Unread' \subseteq Unread
  BY <1>1, <1>2 DEF Unread
<1>4. IsFiniteSet(Known')
  <2>1. IsFiniteSet(Forms \X SourceFiles)
    <3>1. IsFiniteSet({}) /\ IsFiniteSet({} \cup {"rel"}) /\ IsFiniteSet(({} \cup {"rel"}) \cup {"abs"})
      BY FS_EmptySet, FS_AddElement
    <3>2. Forms = ({} \cup {"rel"}) \cup {"abs"}
      BY DEF Forms
    <3> QED BY <3>1, <3>2, InspectionAssumption, FS_Product
  <2>2. Known' \subseteq Forms \X SourceFiles
    BY DEF Known, Seen, Forms
  <2> QED BY <2>1, <2>2, FS_Subset
<1>5. Cardinality(Known) \in Nat /\ Cardinality(Known') \in Nat /\ Cardinality(Known) <= Cardinality(Known')
  BY <1>1, <1>4, FS_Subset, FS_CardinalityType
<1>6. IsFiniteSet((candidates \ Unread)')
  <2>1. IsFiniteSet(candidates)
    BY Counts
  <2> QED BY <1>2, <2>1, FS_Subset
<1>7. candidates \ Unread \subseteq (candidates \ Unread)'
  BY <1>2, <1>3
<1>8. /\ Cardinality(candidates \ Unread) \in Nat /\ Cardinality((candidates \ Unread)') \in Nat
      /\ Cardinality(candidates \ Unread) <= Cardinality((candidates \ Unread)')
  BY <1>6, <1>7, FS_Subset, FS_CardinalityType
<1> QED BY <1>1, <1>3, <1>5, <1>8

LEMMA GroundedGrows ==
    ASSUME Seen, Seen', SameOverviews, round' \in {round, round + 1}, Grounded,
           inspected \subseteq inspected', representative \subseteq representative'
    PROVE  Grounded'
<1> DEFINE r == RequiredReads(Cardinality(candidates))
           k == Cardinality(candidates \ Unread)
<1>1. /\ Known \subseteq Known' /\ Unread' \subseteq Unread
      /\ Cardinality(Known) \in Nat /\ Cardinality(Known') \in Nat
      /\ Cardinality(Known) <= Cardinality(Known')
      /\ k \in Nat /\ k' \in Nat /\ k <= k'
  BY KnownGrows
<1>2. r' = r /\ Broad' = Broad /\ MissingOverview' = MissingOverview
  BY SameNeeds
<1>3. r \in Nat
  BY Counts
<1>4. /\ candidates' = candidates /\ overviewed' = overviewed /\ packages' = packages /\ inquiry' = inquiry
  BY DEF SameOverviews
<1>5. MissingFiles' = {}
  BY <1>1, <1>4 DEF MissingFiles, Grounded
<1>6. ~MissingOverview' \/ LastRound'
  BY <1>2, LastRoundStays DEF Grounded
<1>7. CASE RepresentativeTargets = {}
  <2>1. RepresentativeTargets = IF overviewed /\ k < r THEN Unread ELSE {}
    BY DEF RepresentativeTargets
  <2>2. RepresentativeTargets' = IF overviewed' /\ k' < r' THEN Unread' ELSE {}
    BY DEF RepresentativeTargets
  <2> HIDE DEF r, k
  <2>3. RepresentativeTargets' = {}
    BY <1>1, <1>2, <1>3, <1>4, <1>7, <2>1, <2>2
  <2> QED BY <1>5, <1>6, <2>3 DEF Grounded
<1>8. CASE inquiry.files # {} /\ ~RepresentativesMissing
  <2> DEFINE need == Max({IF packages > 1 THEN Min({4, packages}) ELSE 1,
                          IF inquiry.directory THEN 1 ELSE 0})
  <2>1. need \in Nat
    <3>1. packages \in Nat
      BY DEF Seen
    <3>2. Min({4, packages}) \in Nat
      BY <3>1, LeastOfTwo
    <3> QED BY <3>2, GreatestOfTwo
  <2>2. need' = need
    BY <1>4
  <2>3. RepresentativesMissing =
          (overviewed /\ (Broad \/ inquiry.directory)
             /\ IF candidates # {} THEN k < r ELSE Cardinality(Known) < need)
    BY DEF RepresentativesMissing
  <2>4. RepresentativesMissing' =
          (overviewed' /\ (Broad' \/ inquiry'.directory)
             /\ IF candidates' # {} THEN k' < r' ELSE Cardinality(Known') < need')
    BY DEF RepresentativesMissing
  <2> HIDE DEF r, k, need
  <2>5. ~RepresentativesMissing'
    <3>1. SUFFICES ASSUME RepresentativesMissing' PROVE RepresentativesMissing
      BY <1>8
    <3>2. overviewed /\ (Broad \/ inquiry.directory)
      BY <1>2, <1>4, <2>4, <3>1
    <3>3. CASE candidates # {}
      <4>1. k' < r'
        BY <1>4, <2>4, <3>1, <3>3
      <4>2. k < r
        BY <1>1, <1>2, <1>3, <4>1
      <4> QED BY <2>3, <3>2, <3>3, <4>2
    <3>4. CASE candidates = {}
      <4>1. Cardinality(Known') < need'
        BY <1>4, <2>4, <3>1, <3>4
      <4>2. Cardinality(Known) < need
        BY <1>1, <2>1, <2>2, <4>1
      <4> QED BY <2>3, <3>2, <3>4, <4>2
    <3> QED BY <3>3, <3>4
  <2>6. inquiry'.files # {}
    BY <1>4, <1>8
  <2> QED BY <1>5, <1>6, <2>5, <2>6 DEF Grounded
<1> QED BY <1>7, <1>8 DEF Grounded

-----------------------------------------------------------------------------
(* The stage of a round.                                                   *)

LEMMA CompleteIsGrounded ==
    ASSUME EvidenceComplete
    PROVE  Grounded
<1>1. overviewed \/ RepresentativeTargets = {}
  BY DEF RepresentativeTargets
<1> QED BY <1>1 DEF EvidenceComplete, Grounded

LEMMA StageFields ==
    ASSUME NEW s, NEW n, NEW o
    PROVE  /\ s = StageOf(n, o, FALSE) => s.name = n /\ ~s.complete
           /\ s = StageOf(n, o, TRUE) => s.name = n
<1>1. StageOf(n, o, FALSE).name = n /\ ~StageOf(n, o, FALSE).complete
  BY DEF StageOf
<1>2. StageOf(n, o, TRUE).name = n
  BY DEF StageOf
<1>3. CASE s = StageOf(n, o, FALSE) /\ s # StageOf(n, o, TRUE)
  BY <1>1, <1>3, Zenon
<1>4. CASE s = StageOf(n, o, FALSE) /\ s = StageOf(n, o, TRUE)
  BY <1>1, <1>4, Zenon
<1>5. CASE s # StageOf(n, o, FALSE) /\ s = StageOf(n, o, TRUE)
  BY <1>2, <1>5, Zenon
<1> QED BY <1>1, <1>2, <1>3, <1>4, <1>5, Zenon

\* A stage that asks for no more evidence has it, unless somebody has asked for the answer.
LEMMA LastStageIsGrounded ==
    ASSUME Seen
    PROVE
    /\ DecidedStage.name = "finalize" => Grounded \/ requested # "nobody"
    /\ inquiry.staged => \/ DecidedStage.name \in {"source_discovery", "targeted_read"} /\ ~DecidedStage.complete
                         \/ DecidedStage.name = "finalize"
<1> DEFINE More(s) == s.name \in {"source_discovery", "targeted_read"} /\ ~s.complete
           Good == \/ More(DecidedStage)
                   \/ DecidedStage.name = "finalize" /\ (Grounded \/ requested # "nobody")
<1>1. CASE ~inquiry.staged
  <2>1. DecidedStage = StageOf("none", "", FALSE)
    BY <1>1 DEF DecidedStage
  <2>2. DecidedStage.name = "none"
    BY <2>1, StageFields, Zenon
  <2> QED BY <1>1, <2>2
<1>2. CASE inquiry.staged
  <2> SUFFICES Good
    BY <1>2
  <2>1. ASSUME NEW n \in {"source_discovery", "targeted_read"}, NEW o, DecidedStage = StageOf(n, o, FALSE)
        PROVE  Good
    <3>1. DecidedStage.name = n /\ ~DecidedStage.complete
      BY <2>1, StageFields, Zenon
    <3> QED BY <3>1
  <2>2. ASSUME DecidedStage = StageOf("finalize", "", FALSE) \/ DecidedStage = StageOf("finalize", "", TRUE),
               Grounded \/ requested # "nobody"
        PROVE  Good
    <3>1. DecidedStage.name = "finalize"
      BY <2>2, StageFields, Zenon
    <3> QED BY <2>2, <3>1
  <2>3. CASE EvidenceComplete
    <3>1. DecidedStage = StageOf("finalize", "", TRUE)
      <4>1. MissingFiles = {}
        BY <2>3 DEF EvidenceComplete
      <4> QED BY <1>2, <2>3, <4>1, Zenon DEF DecidedStage
    <3> QED BY <2>2, <2>3, <3>1, CompleteIsGrounded
  <2>4. CASE ~EvidenceComplete /\ MissingFiles # {}
    <3>1. DecidedStage = StageOf("targeted_read", "", FALSE)
      BY <1>2, <2>4, Zenon DEF DecidedStage
    <3> QED BY <2>1, <3>1
  <2>5. CASE ~EvidenceComplete /\ MissingFiles = {}
    <3>1. CASE MissingOverview /\ ~LastRound
      <4>1. DecidedStage = StageOf("source_discovery", "source_overview", FALSE)
        BY <1>2, <2>5, <3>1, Zenon DEF DecidedStage
      <4> QED BY <2>1, <4>1
    <3>2. CASE ~(MissingOverview /\ ~LastRound) /\ requested # "nobody"
      <4>1. DecidedStage = StageOf("finalize", "", FALSE)
        BY <1>2, <2>5, <3>2, Zenon DEF DecidedStage
      <4> QED BY <2>2, <3>2, <4>1
    <3>3. CASE ~(MissingOverview /\ ~LastRound) /\ requested = "nobody"
      <4>1. CASE inquiry.files # {} /\ round = 0
        <5>1. DecidedStage = StageOf("targeted_read", "", FALSE)
          <6>1. ~(inquiry.files = {} \/ round > 0)
            BY <4>1
          <6> QED BY <1>2, <2>5, <3>3, <4>1, <6>1, Zenon DEF DecidedStage
        <5> QED BY <2>1, <5>1
      <4>2. CASE ~(inquiry.files # {} /\ round = 0) /\ ~Observed
        <5>1. \E o : DecidedStage = StageOf("source_discovery", o, FALSE)
          <6>1. inquiry.files = {} \/ round > 0
            BY <4>2 DEF Seen
          <6> QED BY <1>2, <2>5, <3>3, <4>2, <6>1, Zenon DEF DecidedStage
        <5> QED BY <2>1, <5>1
      <4>3. CASE ~(inquiry.files # {} /\ round = 0) /\ Observed
        <5>1. CASE RepresentativeTargets # {}
          <6>1. DecidedStage = StageOf("targeted_read", "source_probe", FALSE)
            BY <1>2, <2>5, <3>3, <4>3, <5>1, Zenon DEF DecidedStage
          <6> QED BY <2>1, <6>1
        <5>2. CASE RepresentativeTargets = {} /\ LastRound
          <6>1. DecidedStage = StageOf("finalize", "", TRUE)
            BY <1>2, <2>5, <3>3, <4>3, <5>2, Zenon DEF DecidedStage
          <6>2. Grounded
            BY <2>5, <5>2 DEF Grounded
          <6> QED BY <2>2, <6>1, <6>2
        <5>3. CASE RepresentativeTargets = {} /\ ~LastRound
          <6>1. DecidedStage = StageOf("targeted_read", "", FALSE)
            BY <1>2, <2>5, <3>3, <4>3, <5>3, Zenon DEF DecidedStage
          <6> QED BY <2>1, <6>1
        <5> QED BY <5>1, <5>2, <5>3
      <4> QED BY <4>1, <4>2, <4>3
    <3> QED BY <3>1, <3>2, <3>3
  <2> QED BY <2>3, <2>4, <2>5
<1> QED BY <1>1, <1>2

-----------------------------------------------------------------------------
(* The steps.                                                              *)

LEMMA InspectInitInv ==
    ASSUME InspectInit
    PROVE  InspectInv
BY DEF InspectInit, InspectInv, Seen

\* The evidence a step leaves alone, or lets grow.
EvidenceKept == UNCHANGED <<inspected, representative, candidates, overviewed, packages, truncated>>

\* A step that lets the evidence grow and does not reach the model keeps the invariant.
LEMMA InvGrows ==
    ASSUME InspectInv, Seen', SameOverviews, round' \in {round, round + 1},
           inspected \subseteq inspected', representative \subseteq representative',
           requested' = requested \/ requested' = "guard", at' # "model", outcome' # "answered"
    PROVE  InspectInv'
<1>1. requested' \in {"nobody", "gate", "guard"}
  BY DEF InspectInv
<1>2. ASSUME requested' = "gate" PROVE Grounded'
  <2>1. Grounded
    BY <1>2 DEF InspectInv
  <2> QED BY <2>1, GroundedGrows DEF InspectInv
<1> QED BY <1>1, <1>2 DEF InspectInv

\* A call of the model, before anybody has asked for the answer.
LEMMA InvCalls ==
    ASSUME InspectInv, Seen', requested' = "nobody", at' = "ground", outcome' # "answered"
    PROVE  InspectInv'
BY DEF InspectInv

\* A call or a text that leaves the evidence as it was.
LEMMA SeenStays ==
    ASSUME InspectInv, EvidenceKept, round' \in {round, round + 1}
    PROVE  Seen'
BY DEF InspectInv, Seen, EvidenceKept

LEMMA NobodyAnswered ==
    ASSUME InspectInv, at # "ended"
    PROVE  outcome # "answered"
BY DEF InspectInv

LEMMA DecideInv ==
    ASSUME InspectInv, Decide
    PROVE  InspectInv'
<1>1. /\ roundStage' = DecidedStage /\ at' = "model" /\ at = "round"
      /\ requested' = IF roundStage'.name = "finalize" /\ requested = "nobody" /\ observations > 0
                      THEN "gate" ELSE requested
      /\ EvidenceKept /\ inquiry' = inquiry /\ round' = round /\ outcome' = outcome
  BY DEF Decide, gathered, EvidenceKept
<1>2. SameOverviews /\ inspected \subseteq inspected' /\ representative \subseteq representative'
  BY <1>1 DEF SameOverviews, EvidenceKept
<1>3. Seen'
  BY <1>1, SeenStays
<1>4. Grounded => Grounded'
  BY <1>1, <1>2, <1>3, GroundedGrows DEF InspectInv
<1>5. /\ DecidedStage.name = "finalize" => Grounded \/ requested # "nobody"
      /\ inquiry.staged => \/ DecidedStage.name \in {"source_discovery", "targeted_read"} /\ ~DecidedStage.complete
                           \/ DecidedStage.name = "finalize"
  BY LastStageIsGrounded, Zenon DEF InspectInv
<1>6. requested' \in {"nobody", "gate", "guard"}
  BY <1>1 DEF InspectInv
<1>7. ASSUME requested' = "gate" PROVE Grounded'
  <2>1. requested = "gate" \/ (requested = "nobody" /\ DecidedStage.name = "finalize")
    BY <1>1, <1>7
  <2> QED BY <1>4, <1>5, <2>1 DEF InspectInv
<1>8. ASSUME at' = "model", requested' = "nobody", inquiry'.staged
      PROVE  (roundStage'.name \in {"source_discovery", "targeted_read"} /\ ~roundStage'.complete) \/ Grounded'
  <2>1. requested = "nobody"
    BY <1>1, <1>8
  <2> QED BY <1>1, <1>4, <1>5, <1>8, <2>1, Zenon
<1>9. outcome' # "answered"
  BY <1>1, NobodyAnswered
<1> QED BY <1>3, <1>6, <1>7, <1>8, <1>9 DEF InspectInv

LEMMA ExhaustedInv ==
    ASSUME InspectInv, Exhausted
    PROVE  InspectInv'
<1>1. /\ EvidenceKept /\ SameOverviews /\ round' = round /\ requested' = requested
      /\ at' # "model" /\ outcome' # "answered"
  BY DEF Exhausted, gathered, EvidenceKept, SameOverviews
<1> QED BY <1>1, SeenStays, InvGrows DEF EvidenceKept

-----------------------------------------------------------------------------
(* The calls of the model.                                                 *)

LEMMA CallInv ==
    ASSUME InspectInv, Called, CallRest, Seen'
    PROVE  InspectInv'
BY InvCalls, NobodyAnswered DEF Called, CallRest

LEMMA SeesNoMore ==
    ASSUME InspectInv, CallRest, NEW found \in SUBSET SourceFiles, NEW n \in 1..MaxPackages, NEW cut \in BOOLEAN
    PROVE  /\ SeeOverview(found, n, cut) => Seen'
           /\ SeeMatches(found) => Seen'
<1>1. Seen /\ round' = round
  BY DEF InspectInv, CallRest
<1>2. ASSUME SeeOverview(found, n, cut) PROVE Seen'
  BY <1>1, <1>2 DEF SeeOverview, Seen
<1>3. ASSUME SeeMatches(found) PROVE Seen'
  BY <1>1, <1>3 DEF SeeMatches, Seen
<1> QED BY <1>2, <1>3

\* A file is read, or probed with what comes of it.
Looks(f) == SeeFile(f) \/ \E got \in Probes : SeeProbe(f, got)

LEMMA SeesAFile ==
    ASSUME InspectInv, NEW f \in SourceFiles, Looks(f), round' \in {round, round + 1}
    PROVE  Seen' /\ inspected \subseteq inspected' /\ representative \subseteq representative'
BY DEF Looks, InspectInv, Seen, SeeFile, SeeProbe, Forms

LEMMA LookInv ==
    ASSUME InspectInv, NEW found \in SUBSET SourceFiles, NEW n \in 1..MaxPackages, NEW cut \in BOOLEAN,
           Overview(found, n, cut) \/ List(found, n, cut)
    PROVE  InspectInv'
<1>1. Called /\ CallRest /\ (SeeOverview(found, n, cut) \/ SeeMatches(found))
  BY DEF Overview, List
<1> QED BY <1>1, SeesNoMore, CallInv

LEMMA SearchInv ==
    ASSUME InspectInv, NEW found \in SUBSET SourceFiles, Search(found)
    PROVE  InspectInv'
<1>1. Called /\ CallRest /\ SeeMatches(found)
  BY DEF Search
<1>2. Seen'
  BY <1>1 DEF SeeMatches, InspectInv, Seen, CallRest
<1> QED BY <1>1, <1>2, CallInv

LEMMA ReadInv ==
    ASSUME InspectInv, NEW f \in SourceFiles, Read(f) \/ \E got \in Probes : Probe(f, got)
    PROVE  InspectInv'
<1>1. Called /\ CallRest /\ Looks(f)
  BY DEF Read, Probe, Looks
<1>2. Seen'
  BY <1>1, SeesAFile DEF CallRest
<1> QED BY <1>1, <1>2, CallInv

LEMMA CallLostInv ==
    ASSUME InspectInv, CallFails \/ CallBlocked \/ CallDenied
    PROVE  InspectInv'
<1>1. /\ EvidenceKept /\ SameOverviews /\ round' = round /\ requested' = requested
      /\ at = "model" /\ at' = "ground" /\ outcome' = outcome
  BY DEF CallFails, Called, CallBlocked, CallDenied, CallRest, EvidenceKept, SameOverviews
<1>2. outcome' # "answered"
  BY <1>1, NobodyAnswered
<1> QED BY <1>1, <1>2, SeenStays, InvGrows DEF EvidenceKept

-----------------------------------------------------------------------------
(* What the loop reads itself.                                             *)

LEMMA OutcomeOfGrounding ==
    ASSUME InspectInv, at = "ground", GroundOutcome
    PROVE  /\ round' \in {round, round + 1} /\ at' # "model" /\ inquiry' = inquiry
           /\ requested' = requested \/ requested' = "guard"
           /\ outcome' # "answered"
<1>1. outcome # "answered"
  BY NobodyAnswered
<1> QED BY <1>1 DEF GroundOutcome

LEMMA GroundRestInv ==
    ASSUME InspectInv, GroundNothing \/ GroundRefused
    PROVE  InspectInv'
<1>1. at = "ground" /\ GroundOutcome
  BY DEF GroundNothing, GroundRefused
<1>2. EvidenceKept /\ SameOverviews
  BY <1>1, OutcomeOfGrounding DEF GroundNothing, GroundRefused, gathered, EvidenceKept, SameOverviews
<1>3. inspected \subseteq inspected' /\ representative \subseteq representative'
  BY <1>2 DEF EvidenceKept
<1> QED BY <1>1, <1>2, <1>3, OutcomeOfGrounding, SeenStays, InvGrows

LEMMA GroundInv ==
    ASSUME InspectInv, NEW f \in SourceFiles, GroundRead(f) \/ \E got \in Probes : GroundProbe(f, got)
    PROVE  InspectInv'
<1>1. at = "ground" /\ GroundOutcome /\ Looks(f)
  BY DEF GroundRead, GroundProbe, Looks
<1>2. SameOverviews
  BY <1>1, OutcomeOfGrounding DEF Looks, SeeFile, SeeProbe, SameOverviews
<1>3. Seen' /\ inspected \subseteq inspected' /\ representative \subseteq representative'
  BY <1>1, OutcomeOfGrounding, SeesAFile
<1> QED BY <1>1, <1>2, <1>3, OutcomeOfGrounding, InvGrows

-----------------------------------------------------------------------------
(* The texts of the model.                                                 *)

LEMMA AgainInv ==
    ASSUME InspectInv, at = "model", Again
    PROVE  InspectInv'
<1>1. /\ EvidenceKept /\ SameOverviews /\ round' = round + 1 /\ requested' = requested
      /\ at' # "model" /\ outcome' = outcome
  BY DEF Again, gathered, EvidenceKept, SameOverviews
<1>2. outcome' # "answered"
  BY <1>1, NobodyAnswered
<1> QED BY <1>1, <1>2, SeenStays, InvGrows DEF EvidenceKept

LEMMA EndsInv ==
    ASSUME InspectInv, NEW how, NEW names, how # "answered", Ends(how, names)
    PROVE  InspectInv'
<1>1. /\ EvidenceKept /\ SameOverviews /\ round' = round /\ requested' = requested
      /\ at' # "model" /\ outcome' # "answered"
  BY DEF Ends, gathered, EvidenceKept, SameOverviews
<1> QED BY <1>1, SeenStays, InvGrows DEF EvidenceKept

LEMMA AnotherRoundInv ==
    ASSUME InspectInv, NEW names, AnswersEarly \/ AnswersUnobserved(names) \/ AnswersDependency \/ AnswersBeyondScope
    PROVE  InspectInv'
<1>1. at = "model" /\ (Again \/ \E how \in {"safe", "sanitized", "partial"} : Ends(how, {}))
  BY DEF AnswersEarly, AnswersUnobserved, AnswersDependency, AnswersBeyondScope
<1> QED BY <1>1, AgainInv, EndsInv

\* An accepted answer: nobody has asked for it, and the stage takes it; or the gate or the
\* guard has.
LEMMA AnswerInv ==
    ASSUME InspectInv, NEW names, Answers(names)
    PROVE  InspectInv'
<1>1. /\ at = "model" /\ ~Premature /\ Unobserved(names) = {}
      /\ cited' = names /\ at' = "ended" /\ outcome' = "answered"
  BY DEF Answers, Ends
<1>2. /\ EvidenceKept /\ SameOverviews /\ round' = round /\ requested' = requested
      /\ inquiry' = inquiry /\ probed' = probed /\ anchored' = anchored /\ overviewed' = overviewed
      /\ searched' = searched
      /\ inspected' = inspected /\ representative' = representative
  BY DEF Answers, Ends, gathered, EvidenceKept, SameOverviews
<1>3. Seen'
  BY <1>2, SeenStays
<1>4. Grounded => Grounded'
  BY <1>2, <1>3, GroundedGrows DEF InspectInv
<1>5. HasEvidence' = HasEvidence
  BY <1>2 DEF HasEvidence, Observed
<1>6. ~inquiry.staged \/ ~HasEvidence \/ requested = "guard" \/ Grounded
  <2>1. CASE requested = "nobody"
    <3>1. ~HasEvidence \/ ~(roundStage.name \in {"source_discovery", "targeted_read"} /\ ~roundStage.complete)
      BY <1>1, <2>1 DEF Premature
    <3> QED BY <1>1, <2>1, <3>1 DEF InspectInv
  <2>2. CASE requested = "gate"
    BY <2>2 DEF InspectInv
  <2> QED BY <2>1, <2>2 DEF InspectInv
<1>7. ~inquiry'.staged \/ ~HasEvidence' \/ requested' = "guard" \/ Grounded'
  BY <1>2, <1>4, <1>5, <1>6
<1>8. ~anchored' \/ inquiry'.broad \/ overviewed' \/ cited' \subseteq probed'
  BY <1>1, <1>2 DEF Unobserved
<1>9. AnswerIsGrounded'
  BY <1>7, <1>8 DEF AnswerIsGrounded, Grounded
<1>10. requested' \in {"nobody", "gate", "guard"} /\ (requested' = "gate" => Grounded')
  BY <1>2, <1>4 DEF InspectInv
<1> QED BY <1>1, <1>3, <1>9, <1>10 DEF InspectInv

LEMMA InspectStutterInv ==
    ASSUME InspectInv, UNCHANGED inspectVars
    PROVE  InspectInv'
<1>1. /\ EvidenceKept /\ SameOverviews /\ round' = round /\ requested' = requested
      /\ at' = at /\ outcome' = outcome /\ roundStage' = roundStage /\ inquiry' = inquiry
      /\ probed' = probed /\ anchored' = anchored /\ cited' = cited /\ searched' = searched
      /\ inspected' = inspected /\ representative' = representative /\ overviewed' = overviewed
  BY DEF inspectVars, gathered, EvidenceKept, SameOverviews
<1>2. Seen'
  BY <1>1, SeenStays
<1>3. Grounded => Grounded'
  BY <1>1, <1>2, GroundedGrows DEF InspectInv
<1>4. HasEvidence' = HasEvidence
  BY <1>1 DEF HasEvidence, Observed
<1>5. AnswerIsGrounded => AnswerIsGrounded'
  BY <1>1, <1>3, <1>4 DEF AnswerIsGrounded, Grounded
<1> QED BY <1>1, <1>2, <1>3, <1>5 DEF InspectInv

LEMMA InspectNextInv ==
    ASSUME InspectInv, [InspectNext]_inspectVars
    PROVE  InspectInv'
<1>1. CASE Decide
  BY <1>1, DecideInv
<1>2. CASE Exhausted
  BY <1>2, ExhaustedInv
<1>3. ASSUME NEW S \in SUBSET SourceFiles, Search(S) \/ AnswersUnobserved(S) \/ Answers(S) PROVE InspectInv'
  BY <1>3, SearchInv, AnotherRoundInv, AnswerInv
<1>4. ASSUME NEW S \in SUBSET SourceFiles, NEW n \in 1..MaxPackages, NEW cut \in BOOLEAN,
             Overview(S, n, cut) \/ List(S, n, cut)
      PROVE  InspectInv'
  BY <1>4, LookInv
<1>5. ASSUME NEW f \in SourceFiles, Read(f) \/ \E got \in Probes : Probe(f, got) PROVE InspectInv'
  BY <1>5, ReadInv
<1>6. ASSUME NEW f \in SourceFiles, GroundRead(f) \/ \E got \in Probes : GroundProbe(f, got) PROVE InspectInv'
  BY <1>6, GroundInv
<1>7. CASE GroundNothing \/ GroundRefused
  BY <1>7, GroundRestInv
<1>8. CASE CallFails \/ CallBlocked \/ CallDenied
  BY <1>8, CallLostInv
<1>9. CASE AnswersEarly \/ AnswersDependency \/ AnswersBeyondScope
  BY <1>9, AnotherRoundInv
<1>10. CASE UNCHANGED inspectVars
  BY <1>10, InspectStutterInv
<1> QED BY <1>1, <1>2, <1>3, <1>4, <1>5, <1>6, <1>7, <1>8, <1>9, <1>10 DEF InspectNext

\* An answer about the source is accepted only on the evidence the prompt asks for.
THEOREM AnswerIsGroundedCorrect == InspectSpec => []AnswerIsGrounded
<1>1. InspectInit => InspectInv
  BY InspectInitInv
<1>2. InspectInv /\ [InspectNext]_inspectVars => InspectInv'
  BY InspectNextInv
<1>3. InspectInv => AnswerIsGrounded
  BY DEF InspectInv, AnswerIsGrounded
<1> QED BY <1>1, <1>2, <1>3, PTL DEF InspectSpec

-----------------------------------------------------------------------------
(* The composer: numbers and sequences.                                    *)

\* Induction, said of a set of numbers: it has them all.
LEMMA AllNumbers ==
    ASSUME NEW K, 0 \in K, \A n \in Nat : n \in K => n + 1 \in K
    PROVE  Nat \subseteq K
<1> DEFINE S == Nat \ K
<1> SUFFICES ASSUME S # {} PROVE FALSE
  OBVIOUS
<1>1. IsWellFoundedOn(OpToRel(<, Nat), Nat)
  BY NatLessThanWellFounded
<1>2. PICK x \in S : \A y \in S : ~(<<y, x>> \in OpToRel(<, Nat))
  BY <1>1, WFMin
<1>3. \A y \in S : ~(y < x)
  BY <1>2, Zenon DEF OpToRel
<1>4. x # 0 /\ x - 1 \in Nat /\ x - 1 < x
  BY SMT
<1>5. x - 1 \in K
  BY <1>3, <1>4
<1>6. x \in K
  BY <1>4, <1>5, SMT
<1> QED BY <1>6

\* A set of numbers that is not empty has a least one.
LEMMA LeastIs ==
    ASSUME NEW S, S \subseteq Nat, S # {}
    PROVE  Min(S) \in S /\ Min(S) \in Nat /\ \A x \in S : Min(S) <= x
<1>1. IsWellFoundedOn(OpToRel(<, Nat), Nat)
  BY NatLessThanWellFounded
<1>2. PICK x \in S : \A y \in S : ~(<<y, x>> \in OpToRel(<, Nat))
  BY <1>1, WFMin
<1>3. \A y \in S : ~(y < x)
  BY <1>2, Zenon DEF OpToRel
<1>4. \A y \in S : x <= y
  BY <1>3, SMT
<1>5. \E m \in S : \A y \in S : m <= y
  BY <1>4
<1>6. Min(S) \in S /\ \A y \in S : Min(S) <= y
  BY <1>5, Zenon DEF Min
<1> QED BY <1>6

\* One that has a bound has a greatest.
LEMMA GreatestIs ==
    ASSUME NEW S, S \subseteq Nat, S # {}, NEW b \in Nat, \A x \in S : x <= b
    PROVE  Max(S) \in S /\ Max(S) \in Nat /\ \A x \in S : x <= Max(S)
<1> DEFINE D == {b - x : x \in S}
<1>1. D \subseteq Nat /\ D # {}
  <2>1. \A x \in S : x \in Nat /\ x <= b /\ b - x \in Nat
    BY SMT
  <2>2. PICK x \in S : TRUE
    OBVIOUS
  <2> QED BY <2>1, <2>2, Zenon
<1>2. Min(D) \in D /\ \A d \in D : Min(D) <= d
  BY <1>1, LeastIs
<1>3. PICK m \in S : Min(D) = b - m
  BY <1>2
<1>4. \A x \in S : b - m <= b - x
  BY <1>2, <1>3
<1>5. \A x \in S : x <= m
  BY <1>4, SMT
<1>6. \E m_1 \in S : \A y \in S : y <= m_1
  BY <1>5
<1>7. Max(S) \in S /\ \A y \in S : y <= Max(S)
  BY <1>6, Zenon DEF Max
<1> QED BY <1>7

LEMMA LesserIs ==
    ASSUME NEW a \in Int, NEW b \in Int
    PROVE  Min({a, b}) = IF a <= b THEN a ELSE b
<1> DEFINE m == IF a <= b THEN a ELSE b
<1>1. m \in {a, b} /\ m \in Int /\ \A y \in {a, b} : m <= y
  BY SMT
<1>2. Min({a, b}) \in {a, b} /\ \A y \in {a, b} : Min({a, b}) <= y
  BY <1>1, Zenon DEF Min
<1>3. Min({a, b}) \in Int
  BY <1>2
<1>4. Min({a, b}) <= m /\ m <= Min({a, b})
  BY <1>1, <1>2
<1> HIDE DEF m
<1>5. Min({a, b}) = m
  BY <1>1, <1>3, <1>4, SMT
<1> QED BY <1>5 DEF m

LEMMA GreaterIs ==
    ASSUME NEW a \in Int, NEW b \in Int
    PROVE  Max({a, b}) = IF a <= b THEN b ELSE a
<1> DEFINE m == IF a <= b THEN b ELSE a
<1>1. m \in {a, b} /\ m \in Int /\ \A y \in {a, b} : y <= m
  BY SMT
<1>2. Max({a, b}) \in {a, b} /\ \A y \in {a, b} : y <= Max({a, b})
  BY <1>1, Zenon DEF Max
<1>3. Max({a, b}) \in Int
  BY <1>2
<1>4. Max({a, b}) <= m /\ m <= Max({a, b})
  BY <1>1, <1>2
<1> HIDE DEF m
<1>5. Max({a, b}) = m
  BY <1>1, <1>3, <1>4, SMT
<1> QED BY <1>5 DEF m

LEMMA UptoIs ==
    ASSUME NEW S, NEW s \in Seq(S), NEW n \in Nat
    PROVE  /\ Upto(s, n) \in Seq(S) /\ Len(Upto(s, n)) = IF n <= Len(s) THEN n ELSE Len(s)
           /\ \A i \in 1..Len(Upto(s, n)) : Upto(s, n)[i] = s[i]
<1> DEFINE m == IF n <= Len(s) THEN n ELSE Len(s)
<1>1. m \in 0..Len(s) /\ Len(s) \in Nat
  OBVIOUS
<1>2. Upto(s, n) = SubSeq(s, 1, m)
  <2>1. n \in Int /\ Len(s) \in Int
    BY <1>1
  <2>2. Min({n, Len(s)}) = m
    BY <2>1, LesserIs, Zenon
  <2> QED BY <2>2, Zenon DEF Upto
<1> HIDE DEF m
<1>3. /\ SubSeq(s, 1, m) \in Seq(S) /\ Len(SubSeq(s, 1, m)) = m
      /\ \A i \in 1..m : SubSeq(s, 1, m)[i] = s[i]
  BY <1>1, SMT
<1> QED BY <1>2, <1>3 DEF m

LEMMA FromIs ==
    ASSUME NEW S, NEW s \in Seq(S), NEW n \in Nat
    PROVE  /\ From(s, n) \in Seq(S) /\ Len(From(s, n)) = IF n <= Len(s) THEN Len(s) - n ELSE 0
           /\ \A i \in 1..Len(From(s, n)) : From(s, n)[i] = s[n + i]
BY DEF From

LEMMA ConcatIs ==
    ASSUME NEW S, NEW s \in Seq(S), NEW t \in Seq(S)
    PROVE  /\ s \o t \in Seq(S) /\ Len(s) \in Nat /\ Len(t) \in Nat /\ Len(s \o t) = Len(s) + Len(t)
           /\ \A i \in 1..Len(s) : (s \o t)[i] = s[i]
           /\ \A i \in 1..Len(t) : (s \o t)[Len(s) + i] = t[i]
OBVIOUS

LEMMA SameSequence ==
    ASSUME NEW S, NEW s \in Seq(S), NEW t \in Seq(S), Len(s) = Len(t), \A i \in 1..Len(s) : s[i] = t[i]
    PROVE  s = t
OBVIOUS

-----------------------------------------------------------------------------
(* The entries of a sequence that are in a set.                            *)

FilteredUpTo(s, T, g, n) ==
    g = [m \in 0..n |-> IF m = 0 THEN <<>> ELSE IF s[m] \in T THEN Append(g[m - 1], s[m]) ELSE g[m - 1]]

LEMMA FilteredExists == ASSUME NEW s, NEW T, NEW n \in Nat PROVE \E g : FilteredUpTo(s, T, g, n)
<1> DEFINE K == {k \in Nat : \E g : FilteredUpTo(s, T, g, k)}
<1>1. 0 \in K
  <2> DEFINE g == [m \in 0..0 |-> <<>>]
  <2>1. \A m \in 0..0 : m = 0
    BY SMT
  <2>2. FilteredUpTo(s, T, g, 0)
    BY <2>1, Zenon DEF FilteredUpTo
  <2> QED BY <2>2
<1>2. ASSUME NEW k \in Nat, k \in K PROVE k + 1 \in K
  <2>1. PICK g : FilteredUpTo(s, T, g, k)
    BY <1>2
  <2> DEFINE With(q) == IF s[k + 1] \in T THEN Append(q, s[k + 1]) ELSE q
             h == [m \in 0..(k + 1) |-> IF m = k + 1 THEN With(g[k]) ELSE g[m]]
  <2>2. /\ \A m \in 0..(k + 1) : m = k + 1 \/ m \in 0..k
        /\ \A m \in 0..k : m # k + 1 /\ m \in 0..(k + 1)
        /\ \A m \in 0..(k + 1) : m # 0 => m - 1 \in 0..k
        /\ (k + 1) - 1 = k /\ k + 1 # 0 /\ k + 1 \in Nat
    BY SMT
  <2>3. \A m \in 0..k : g[m] = IF m = 0 THEN <<>>
                               ELSE IF s[m] \in T THEN Append(g[m - 1], s[m]) ELSE g[m - 1]
    BY <2>1, Zenon DEF FilteredUpTo
  <2>4. \A m \in 0..k : h[m] = g[m]
    BY <2>2, Zenon
  <2>5. \A m \in 0..(k + 1) :
          h[m] = IF m = 0 THEN <<>>
                 ELSE IF s[m] \in T THEN Append(h[m - 1], s[m]) ELSE h[m - 1]
    <3> TAKE m \in 0..(k + 1)
    <3>1. CASE m = k + 1
      BY <3>1, <2>2, <2>4, Zenon
    <3>2. CASE m \in 0..k
      BY <3>2, <2>2, <2>3, <2>4, Zenon
    <3> QED BY <3>1, <3>2, <2>2
  <2>6. FilteredUpTo(s, T, h, k + 1)
    BY <2>5, Zenon DEF FilteredUpTo
  <2> QED BY <2>2, <2>6, Zenon
<1> HIDE DEF K
<1>3. Nat \subseteq K
  BY <1>1, <1>2, AllNumbers
<1> QED BY <1>3 DEF K

\* The first k entries of s that are in T: all of them, in their order.
FilterOf(f, s, T, k) ==
    /\ \A i \in 1..Len(f) : \E a \in 1..k : f[i] = s[a] /\ s[a] \in T
    /\ \A a \in 1..k : s[a] \in T => \E i \in 1..Len(f) : f[i] = s[a]
    /\ \A i, j \in 1..Len(f) : i < j => \E a, b \in 1..k : a < b /\ f[i] = s[a] /\ f[j] = s[b]

LEMMA FilterTakes ==
    ASSUME NEW S, NEW T, NEW s \in Seq(S), NEW f \in Seq(S), NEW k \in Nat, k + 1 <= Len(s),
           FilterOf(f, s, T, k), s[k + 1] \in T
    PROVE  FilterOf(Append(f, s[k + 1]), s, T, k + 1)
<1> DEFINE v == s[k + 1]
           h == Append(f, v)
<1>1. /\ v \in S /\ Len(h) = Len(f) + 1 /\ h[Len(f) + 1] = v /\ Len(f) \in Nat
      /\ \A i \in 1..Len(f) : h[i] = f[i]
  BY SMT
<1>2. \A i \in 1..(Len(f) + 1) : i \in 1..Len(f) \/ i = Len(f) + 1
  BY <1>1, SMT
<1>3. \A a \in 1..(k + 1) : a \in 1..k \/ a = k + 1
  BY SMT
<1>4. 1..k \subseteq 1..(k + 1) /\ k + 1 \in 1..(k + 1)
      /\ 1..Len(f) \subseteq 1..(Len(f) + 1) /\ Len(f) + 1 \in 1..(Len(f) + 1)
  BY <1>1, SMT
<1>5. v = s[k + 1] /\ v \in T
  OBVIOUS
<1> HIDE DEF v, h
<1>6. \A i \in 1..Len(h) : \E a \in 1..(k + 1) : h[i] = s[a] /\ s[a] \in T
  <2> TAKE i \in 1..Len(h)
  <2>1. CASE i \in 1..Len(f)
    <3>1. PICK a \in 1..k : f[i] = s[a] /\ s[a] \in T
      BY <2>1, Zenon DEF FilterOf
    <3>2. a \in 1..(k + 1) /\ h[i] = s[a]
      BY <1>1, <1>4, <2>1, <3>1
    <3> QED BY <3>1, <3>2
  <2>2. CASE i = Len(f) + 1
    BY <1>1, <1>4, <1>5, <2>2
  <2> QED BY <1>1, <1>2, <2>1, <2>2
<1>7. \A a \in 1..(k + 1) : s[a] \in T => \E i \in 1..Len(h) : h[i] = s[a]
  <2> TAKE a \in 1..(k + 1)
  <2> HAVE s[a] \in T
  <2>1. CASE a \in 1..k
    <3>1. PICK i \in 1..Len(f) : f[i] = s[a]
      BY <2>1, Zenon DEF FilterOf
    <3>2. i \in 1..Len(h) /\ h[i] = s[a]
      BY <1>1, <1>4, <3>1
    <3> QED BY <3>2
  <2>2. CASE a = k + 1
    BY <1>1, <1>4, <1>5, <2>2
  <2> QED BY <1>3, <2>1, <2>2
<1>8. ASSUME NEW i \in 1..Len(h), NEW j \in 1..Len(h), i < j
      PROVE  \E a, b \in 1..(k + 1) : a < b /\ h[i] = s[a] /\ h[j] = s[b]
  <2>1. i \in 1..Len(f)
    BY <1>1, <1>8, SMT
  <2>2. CASE j \in 1..Len(f)
    <3>1. PICK a \in 1..k, b \in 1..k : a < b /\ f[i] = s[a] /\ f[j] = s[b]
      BY <2>1, <2>2, <1>8, Zenon DEF FilterOf
    <3>2. a \in 1..(k + 1) /\ b \in 1..(k + 1) /\ h[i] = s[a] /\ h[j] = s[b]
      BY <1>1, <1>4, <2>1, <2>2, <3>1
    <3> QED BY <3>1, <3>2
  <2>3. CASE j = Len(f) + 1
    <3>1. PICK a \in 1..k : f[i] = s[a]
      BY <2>1, Zenon DEF FilterOf
    <3>2. a < k + 1
      BY SMT
    <3> QED BY <1>1, <1>4, <1>5, <2>1, <2>3, <3>1, <3>2, Zenon
  <2> QED BY <2>2, <2>3, <1>1, <1>2, Zenon
<1>9. FilterOf(h, s, T, k + 1)
  BY <1>6, <1>7, <1>8, Zenon DEF FilterOf
<1> QED BY <1>9 DEF h, v

LEMMA FilterSkips ==
    ASSUME NEW T, NEW s, NEW f, NEW k \in Nat, FilterOf(f, s, T, k), s[k + 1] \notin T
    PROVE  FilterOf(f, s, T, k + 1)
<1>1. \A a \in 1..(k + 1) : a \in 1..k \/ a = k + 1
  BY SMT
<1>2. 1..k \subseteq 1..(k + 1)
  BY SMT
<1>3. \A a \in 1..(k + 1) : s[a] \in T => a \in 1..k
  BY <1>1, Zenon
<1>4. \A i \in 1..Len(f) : \E a \in 1..(k + 1) : f[i] = s[a] /\ s[a] \in T
  BY <1>2 DEF FilterOf
<1>5. \A a \in 1..(k + 1) : s[a] \in T => \E i \in 1..Len(f) : f[i] = s[a]
  BY <1>3, Zenon DEF FilterOf
<1>6. ASSUME NEW i \in 1..Len(f), NEW j \in 1..Len(f), i < j
      PROVE  \E a, b \in 1..(k + 1) : a < b /\ f[i] = s[a] /\ f[j] = s[b]
  <2>1. PICK a \in 1..k, b \in 1..k : a < b /\ f[i] = s[a] /\ f[j] = s[b]
    BY <1>6, Zenon DEF FilterOf
  <2>2. a \in 1..(k + 1) /\ b \in 1..(k + 1)
    BY <1>2
  <2> QED BY <2>1, <2>2
<1> QED BY <1>4, <1>5, <1>6, Zenon DEF FilterOf

LEMMA FilteredIs ==
    ASSUME NEW S, NEW s \in Seq(S), NEW T
    PROVE  Filtered(s, T) \in Seq(S) /\ FilterOf(Filtered(s, T), s, T, Len(s))
<1> DEFINE n == Len(s)
           held == CHOOSE g : FilteredUpTo(s, T, g, n)
           Good(k) == held[k] \in Seq(S) /\ FilterOf(held[k], s, T, k)
           K == {k \in Nat : k <= n => Good(k)}
<1>1. n \in Nat /\ \A m \in 1..n : s[m] \in S
  OBVIOUS
<1>2. FilteredUpTo(s, T, held, n)
  BY <1>1, FilteredExists, Zenon
<1>3. Filtered(s, T) = held[n]
  BY Zenon DEF Filtered, FilteredUpTo
<1>0. n = Len(s)
  OBVIOUS
<1> HIDE DEF n, held
<1>4. \A m \in 0..n : held[m] = IF m = 0 THEN <<>>
                                ELSE IF s[m] \in T THEN Append(held[m - 1], s[m]) ELSE held[m - 1]
  BY <1>2, Zenon DEF FilteredUpTo
<1>5. 0 \in K
  <2>1. 0 \in 0..n
    BY <1>1, SMT
  <2>2. held[0] = <<>>
    BY <1>4, <2>1, Zenon
  <2>3. \A i \in 1..0 : FALSE
    BY SMT
  <2>4. <<>> \in Seq(S) /\ Len(<<>>) = 0
    OBVIOUS
  <2>5. FilterOf(<<>>, s, T, 0)
    BY <2>3, <2>4, Zenon DEF FilterOf
  <2> QED BY <2>2, <2>4, <2>5, Zenon
<1>6. ASSUME NEW k \in Nat, k \in K PROVE k + 1 \in K
  <2> SUFFICES ASSUME k + 1 <= n PROVE Good(k + 1)
    OBVIOUS
  <2>1. k <= n /\ k + 1 \in 1..n /\ k + 1 \in 0..n /\ k + 1 # 0 /\ (k + 1) - 1 = k
    BY <1>1, SMT
  <2>2. Good(k)
    BY <2>1, <1>6
  <2>3. s[k + 1] \in S
    BY <1>1, <2>1, Zenon
  <2>4. held[k + 1] = IF s[k + 1] \in T THEN Append(held[k], s[k + 1]) ELSE held[k]
    BY <1>4, <2>1, Zenon
  <2>5. CASE s[k + 1] \in T
    <3>1. held[k + 1] = Append(held[k], s[k + 1])
      BY <2>4, <2>5
    <3>2. Append(held[k], s[k + 1]) \in Seq(S)
      BY <2>2, <2>3
    <3>3. FilterOf(Append(held[k], s[k + 1]), s, T, k + 1)
      BY <1>0, <2>2, <2>5, FilterTakes
    <3> QED BY <3>1, <3>2, <3>3, Zenon
  <2>6. CASE s[k + 1] \notin T
    BY <2>2, <2>4, <2>6, FilterSkips
  <2> QED BY <2>5, <2>6
<1> HIDE DEF K
<1>7. Nat \subseteq K
  BY <1>5, <1>6, AllNumbers
<1>8. Good(n)
  <2>1. n \in K /\ n <= n
    BY <1>1, <1>7, SMT
  <2> QED BY <2>1, Zenon DEF K
<1> QED BY <1>0, <1>3, <1>8

-----------------------------------------------------------------------------
(* Placeholders.                                                           *)

Sizes == {SizeOf[b] : b \in Bodies}
Labels == {Placeholder(s, c) : s \in Sizes, c \in 1..MaxKeys}

\* No cell of a placeholder is a line break or a paste.
Inner == {c \in Cells : c # NL /\ c \notin Bodies}

LEMMA InnerCells ==
    ASSUME ComposerAssumption
    PROVE  {"[", "]", " ", "#"} \subseteq Inner /\ Sizes \subseteq Inner
<1>1. "[" # NL /\ "]" # NL /\ " " # NL /\ "#" # NL
  BY Zenon DEF NL
<1>2. "[" \in Cells /\ "]" \in Cells /\ " " \in Cells /\ "#" \in Cells
  BY Zenon DEF ComposerAssumption
<1>3. Bodies \cap {"[", "]", " ", "#"} = {} /\ Bodies \cap Sizes = {}
  <2> DEFINE marks == {"[", "]", " ", "#"}
  <2>1. Bodies \cap (marks \cup Sizes) = {}
    BY DEF ComposerAssumption, Sizes
  <2> HIDE DEF marks, Sizes
  <2>2. Bodies \cap marks = {} /\ Bodies \cap Sizes = {}
    BY <2>1
  <2> QED BY <2>2 DEF marks
<1>4. \A s \in Sizes : s \in Cells /\ s # NL
  <2>1. \A b \in Bodies : SizeOf[b] \in Cells /\ SizeOf[b] # NL
    BY Zenon DEF ComposerAssumption
  <2> QED BY <2>1 DEF Sizes
<1> QED BY <1>1, <1>2, <1>3, <1>4, Zenon DEF Inner

LEMMA NumberIs ==
    ASSUME ComposerAssumption, NEW n \in 2..MaxKeys
    PROVE  Number[n] \in Seq(Inner) /\ Len(Number[n]) > 0
<1>1. /\ Number[n] \in Seq(Cells) /\ Number[n] # <<>>
      /\ \A i \in DOMAIN Number[n] : Number[n][i] # NL /\ Number[n][i] \notin Bodies
  BY Zenon DEF ComposerAssumption
<1> DEFINE q == Number[n]
<1>2. q \in Seq(Cells) /\ q # <<>> /\ \A i \in DOMAIN q : q[i] # NL /\ q[i] \notin Bodies
  BY <1>1
<1> HIDE DEF q
<1>3. DOMAIN q = 1..Len(q) /\ Len(q) \in Nat /\ Len(q) > 0 /\ \A i \in 1..Len(q) : q[i] \in Cells
  BY <1>2
<1>4. \A i \in 1..Len(q) : q[i] \in Inner
  BY <1>2, <1>3, Zenon DEF Inner
<1>5. q \in Seq(Inner)
  BY <1>2, <1>3, <1>4
<1> QED BY <1>3, <1>5 DEF q

\* A placeholder in parts.
LEMMA PlaceholderIs ==
    ASSUME ComposerAssumption, NEW s \in Sizes, NEW c \in 1..MaxKeys
    PROVE  /\ Placeholder(s, c) \in Seq(Inner) /\ Len(Placeholder(s, c)) >= 3 /\ Placeholder(s, c)[2] = s
           /\ c = 1 => Len(Placeholder(s, c)) = 3
           /\ c # 1 => /\ Len(Placeholder(s, c)) = 5 + Len(Number[c])
                       /\ \A i \in 1..Len(Number[c]) : Placeholder(s, c)[5 + i] = Number[c][i]
<1> DEFINE open == "["
           close == "]"
           blank == " "
           mark == "#"
           head == <<open, s, close>>
           link == <<blank, mark>>
<1>1. open \in Inner /\ close \in Inner /\ blank \in Inner /\ mark \in Inner /\ s \in Inner
  BY InnerCells, Zenon
<1>2. c = 1 => Placeholder(s, c) = head \o <<>>
  BY Zenon DEF Placeholder
<1>3. c # 1 => Placeholder(s, c) = head \o (link \o Number[c])
  BY Zenon DEF Placeholder
<1> HIDE DEF open, close, blank, mark
<1>4. head \in Seq(Inner) /\ Len(head) = 3 /\ head[2] = s /\ link \in Seq(Inner) /\ Len(link) = 2
  BY <1>1
<1> HIDE DEF head, link
<1>5. CASE c = 1
  <2>1. head \o <<>> = head
    BY <1>4
  <2>2. Placeholder(s, c) = head
    BY <1>2, <1>5, <2>1, Zenon
  <2>3. 3 >= 3
    OBVIOUS
  <2> QED BY <1>4, <1>5, <2>2, <2>3, Zenon
<1>6. CASE c # 1
  <2>1. c \in 2..MaxKeys
    BY <1>6
  <2>2. Number[c] \in Seq(Inner) /\ Len(Number[c]) > 0
    BY <2>1, NumberIs
  <2> DEFINE q == Number[c]
             tail == link \o q
             all == head \o tail
  <2>3. q \in Seq(Inner) /\ Len(q) > 0 /\ Len(q) \in Nat
    BY <2>2
  <2>4. Placeholder(s, c) = all
    BY <1>3, <1>6, Zenon
  <2> HIDE DEF q
  <2>5. /\ tail \in Seq(Inner) /\ Len(tail) = 2 + Len(q)
        /\ \A i \in 1..Len(q) : tail[2 + i] = q[i]
    <3>0. link \in Seq(Inner) /\ q \in Seq(Inner)
      BY <1>4, <2>3
    <3>1. /\ tail \in Seq(Inner) /\ Len(tail) = Len(link) + Len(q)
          /\ \A i \in 1..Len(q) : tail[Len(link) + i] = q[i]
      BY <3>0, ConcatIs
    <3> HIDE DEF tail
    <3> QED BY <1>4, <3>1
  <2> HIDE DEF tail
  <2>6. /\ all \in Seq(Inner) /\ Len(all) = 3 + Len(tail) /\ all[2] = head[2]
        /\ \A i \in 1..Len(tail) : all[3 + i] = tail[i]
    <3>1. 2 \in 1..Len(head)
      BY <1>4
    <3>0. head \in Seq(Inner) /\ tail \in Seq(Inner)
      BY <1>4, <2>5
    <3>2. /\ all \in Seq(Inner) /\ Len(all) = Len(head) + Len(tail)
          /\ \A i \in 1..Len(head) : all[i] = head[i]
          /\ \A i \in 1..Len(tail) : all[Len(head) + i] = tail[i]
      BY <3>0, ConcatIs
    <3> HIDE DEF all
    <3> QED BY <1>4, <3>1, <3>2
  <2>7. \A i \in 1..Len(q) : 2 + i \in 1..Len(tail) /\ 3 + (2 + i) = 5 + i
    BY <2>3, <2>5
  <2> HIDE DEF all
  <2>8. all[2] = s /\ Len(all) = 5 + Len(q) /\ Len(all) >= 3
    BY <1>4, <2>3, <2>5, <2>6, SMT
  <2>9. \A i \in 1..Len(q) : all[5 + i] = q[i]
    BY <2>5, <2>6, <2>7
  <2>10. Placeholder(s, c) \in Seq(Inner) /\ Len(Placeholder(s, c)) >= 3 /\ Placeholder(s, c)[2] = s
         /\ Len(Placeholder(s, c)) = 5 + Len(q)
         /\ \A i \in 1..Len(q) : Placeholder(s, c)[5 + i] = q[i]
    BY <2>4, <2>6, <2>8, <2>9, Zenon
  <2> QED BY <1>6, <2>10, Zenon DEF q
<1> QED BY <1>5, <1>6

LEMMA LabelIs ==
    ASSUME ComposerAssumption, NEW l \in Labels
    PROVE  l \in Seq(Cells) /\ Len(l) \in Nat /\ Len(l) >= 3 /\ \A i \in 1..Len(l) : l[i] # NL /\ l[i] \notin Bodies
<1>1. PICK s \in Sizes, c \in 1..MaxKeys : l = Placeholder(s, c)
  BY DEF Labels
<1>2. l \in Seq(Inner) /\ Len(l) >= 3
  BY <1>1, PlaceholderIs, Zenon
<1>3. Len(l) \in Nat /\ \A i \in 1..Len(l) : l[i] \in Inner
  BY <1>2
<1>4. \A i \in 1..Len(l) : l[i] \in Cells /\ l[i] # NL /\ l[i] \notin Bodies
  BY <1>3, Zenon DEF Inner
<1>5. l \in Seq(Cells)
  BY <1>2, <1>3, <1>4
<1> QED BY <1>2, <1>3, <1>4, <1>5

LEMMA LabelsDiffer ==
    ASSUME ComposerAssumption, NEW s \in Sizes, NEW c \in 1..MaxKeys, NEW t \in Sizes, NEW d \in 1..MaxKeys,
           Placeholder(s, c) = Placeholder(t, d)
    PROVE  s = t /\ c = d
<1>1. s = t
  <2>1. Placeholder(s, c)[2] = s
    BY PlaceholderIs, Zenon
  <2>2. Placeholder(t, d)[2] = t
    BY PlaceholderIs, Zenon
  <2> QED BY <2>1, <2>2, Zenon
<1>2. c = 1 <=> d = 1
  <2>1. c # 1 => Len(Placeholder(s, c)) = 5 + Len(Number[c]) /\ Len(Number[c]) > 0 /\ Len(Number[c]) \in Nat
    <3> HAVE c # 1
    <3>1. c \in 2..MaxKeys
      OBVIOUS
    <3>2. Number[c] \in Seq(Inner) /\ Len(Number[c]) > 0
      BY <3>1, NumberIs
    <3> QED BY <3>2, PlaceholderIs, LenProperties, Zenon
  <2>2. d # 1 => Len(Placeholder(t, d)) = 5 + Len(Number[d]) /\ Len(Number[d]) > 0 /\ Len(Number[d]) \in Nat
    <3> HAVE d # 1
    <3>1. d \in 2..MaxKeys
      OBVIOUS
    <3>2. Number[d] \in Seq(Inner) /\ Len(Number[d]) > 0
      BY <3>1, NumberIs
    <3> QED BY <3>2, PlaceholderIs, LenProperties, Zenon
  <2>3. (c = 1 => Len(Placeholder(s, c)) = 3) /\ (d = 1 => Len(Placeholder(t, d)) = 3)
    BY PlaceholderIs, Zenon
  <2> DEFINE k == Len(Placeholder(s, c))
  <2>4. k = Len(Placeholder(t, d))
    OBVIOUS
  <2> HIDE DEF k
  <2>5. /\ c # 1 => k = 5 + Len(Number[c]) /\ Len(Number[c]) > 0 /\ Len(Number[c]) \in Nat
        /\ d # 1 => k = 5 + Len(Number[d]) /\ Len(Number[d]) > 0 /\ Len(Number[d]) \in Nat
        /\ (c = 1 => k = 3) /\ (d = 1 => k = 3)
    BY <2>1, <2>2, <2>3, <2>4, Zenon DEF k
  <2> DEFINE x == Len(Number[c])
             y == Len(Number[d])
  <2> HIDE DEF x, y
  <2> QED BY <2>5, SMT DEF x, y
<1>3. CASE c # 1 /\ d # 1
  <2>1. c \in 2..MaxKeys /\ d \in 2..MaxKeys
    BY <1>3
  <2> DEFINE p == Number[c]
             q == Number[d]
             l == Placeholder(s, c)
  <2>2. p \in Seq(Inner) /\ q \in Seq(Inner)
    BY <2>1, NumberIs
  <2>3. /\ Len(l) = 5 + Len(p) /\ \A i \in 1..Len(p) : l[5 + i] = p[i]
        /\ Len(l) = 5 + Len(q) /\ \A i \in 1..Len(q) : l[5 + i] = q[i]
    <3>1. Len(l) = 5 + Len(p) /\ \A i \in 1..Len(p) : l[5 + i] = p[i]
      BY <1>3, PlaceholderIs, Zenon
    <3>2. /\ Len(Placeholder(t, d)) = 5 + Len(q)
          /\ \A i \in 1..Len(q) : Placeholder(t, d)[5 + i] = q[i]
      BY <1>3, PlaceholderIs, Zenon
    <3> QED BY <3>1, <3>2, Zenon
  <2> HIDE DEF p, q, l
  <2>4. Len(p) \in Nat /\ Len(q) \in Nat
    BY <2>2
  <2>5. Len(p) = Len(q)
    BY <2>3, <2>4, SMT
  <2>6. p = q
    BY <2>2, <2>3, <2>5, SameSequence, Zenon
  <2> QED BY <1>1, <2>1, <2>6, Zenon DEF ComposerAssumption, p, q
<1> QED BY <1>1, <1>2, <1>3

-----------------------------------------------------------------------------
(* Elements.                                                               *)

Spans == {e \in [from : Nat, to : Nat, label : Labels] : e.from < e.to}
Reaches(els) == \E b \in Nat : \A e \in els : e.to <= b

\* Each element shows its label at its place, and no two share a cell.
Placed(t, els) ==
    /\ \A e \in els : /\ e.to = e.from + Len(e.label) /\ e.to <= Len(t)
                      /\ \A i \in 1..Len(e.label) : t[e.from + i] = e.label[i]
    /\ \A e, f \in els : e = f \/ e.to <= f.from \/ f.to <= e.from
Between(els, n) == \A e \in els : n <= e.from \/ e.to <= n
InForm(t, n, els) == Placed(t, els) /\ n <= Len(t) /\ Between(els, n)

LEMMA SpanIs ==
    ASSUME NEW e \in Spans
    PROVE  e.from \in Nat /\ e.to \in Nat /\ e.label \in Labels /\ e.from < e.to
           /\ e = [from |-> e.from, to |-> e.to, label |-> e.label]
BY DEF Spans

LEMMA SpanOf ==
    ASSUME NEW a \in Nat, NEW b \in Nat, a < b, NEW l \in Labels,
           NEW e, e = [from |-> a, to |-> b, label |-> l]
    PROVE  e \in Spans /\ e.from = a /\ e.to = b /\ e.label = l
BY DEF Spans

LEMMA LeftmostIs ==
    ASSUME NEW S, S \subseteq Spans, S # {}
    PROVE  Leftmost(S) \in S
<1> DEFINE F == {e.from : e \in S}
<1>1. \A e \in S : e.from \in Nat
  BY SpanIs
<1>2. F \subseteq Nat /\ F # {}
  BY <1>1
<1>3. Min(F) \in F /\ \A x \in F : Min(F) <= x
  BY <1>2, LeastIs
<1>4. PICK e \in S : e.from = Min(F)
  BY <1>3
<1>5. \A f \in S : e.from <= f.from
  BY <1>3, <1>4
<1>6. \E d \in S : \A f \in S : d.from <= f.from
  BY <1>5
<1> QED BY <1>6, Zenon DEF Leftmost

LEMMA OutsideIs ==
    ASSUME NEW els, els \subseteq Spans, NEW n \in Nat
    PROVE  /\ Outside(els, n) \in Nat
           /\ \A t \in Seq(Cells) : Placed(t, els) /\ n <= Len(t) => Outside(els, n) <= Len(t) /\ Between(els, Outside(els, n))
<1>1. CASE Containing(els, n) = {}
  <2>1. Outside(els, n) = n
    BY <1>1, Zenon DEF Outside
  <2>2. \A e \in els : ~(e.from <= n /\ n < e.to)
    BY <1>1 DEF Containing
  <2>3. \A e \in els : e.from \in Nat /\ e.to \in Nat
    BY SpanIs
  <2>4. Between(els, n)
    BY <2>2, <2>3, SMT DEF Between
  <2> QED BY <2>1, <2>4
<1>2. CASE Containing(els, n) # {}
  <2> DEFINE e == Leftmost(Containing(els, n))
  <2>1. Containing(els, n) \subseteq els
    BY DEF Containing
  <2>2. e \in Containing(els, n)
    BY <1>2, <2>1, LeftmostIs
  <2>3. e \in els
    BY <2>1, <2>2
  <2>4. Outside(els, n) = e.from \/ Outside(els, n) = e.to
    BY <1>2, Zenon DEF Outside
  <2> HIDE DEF e
  <2>5. e.from \in Nat /\ e.to \in Nat /\ e.from < e.to
    BY <2>3, SpanIs
  <2>6. ASSUME NEW t \in Seq(Cells), Placed(t, els), n <= Len(t)
        PROVE  Outside(els, n) <= Len(t) /\ Between(els, Outside(els, n))
    <3>1. \A f \in els : e = f \/ e.to <= f.from \/ f.to <= e.from
      BY <2>3, <2>6, Zenon DEF Placed
    <3>2. \A f \in els : f.from \in Nat /\ f.to \in Nat /\ f.from < f.to
      BY SpanIs
    <3>3. e.to <= Len(t) /\ e.from + Len(e.label) = e.to
      BY <2>3, <2>6, Zenon DEF Placed
    <3>4. e.from <= n
      BY <2>2 DEF Containing
    <3>5. Between(els, e.from) /\ Between(els, e.to)
      BY <3>1, <3>2, <2>5, SMT DEF Between
    <3>6. Outside(els, n) <= Len(t)
      <4>1. CASE Outside(els, n) = e.to
        BY <4>1, <3>3
      <4>2. CASE Outside(els, n) = e.from
        <5>1. Len(t) \in Nat
          OBVIOUS
        <5> QED BY <2>5, <2>6, <3>4, <4>2, <5>1, SMT
      <4> QED BY <2>4, <4>1, <4>2
    <3> QED BY <2>4, <3>5, <3>6
  <2> QED BY <2>4, <2>5, <2>6
<1> QED BY <1>1, <1>2

-----------------------------------------------------------------------------
(* An insertion.                                                           *)

\* f is e, pushed by size cells put in after n.
Pushes(f, e, n, size) ==
    /\ f \in Spans /\ f.label = e.label /\ f.to <= e.to + size
    /\ e.from >= n => f.from = e.from + size /\ f.to = e.to + size
    /\ e.to <= n => f = e

LEMMA PushedIs ==
    ASSUME NEW e \in Spans, NEW n \in Nat, NEW size \in Nat
    PROVE  Pushes(Pushed(e, n, size), e, n, size)
<1>0. e.from \in Nat /\ e.to \in Nat /\ e.label \in Labels /\ e.from < e.to
  BY SpanIs
<1> DEFINE f == Pushed(e, n, size)
<1>1. CASE e.from >= n
  <2>1. f = [from |-> e.from + size, to |-> e.to + size, label |-> e.label]
    BY <1>1, Zenon DEF Pushed, Slid
  <2>2. /\ e.from + size \in Nat /\ e.to + size \in Nat /\ e.from + size < e.to + size
        /\ ~(e.to <= n) /\ e.to + size <= e.to + size
    BY <1>0, <1>1
  <2> HIDE DEF f
  <2>3. f \in Spans /\ f.label = e.label /\ f.from = e.from + size /\ f.to = e.to + size
    BY <1>0, <2>1, <2>2, SpanOf
  <2> QED BY <2>2, <2>3, Zenon DEF Pushes, f
<1>2. CASE ~(e.from >= n) /\ n < e.to
  <2>1. f = [from |-> e.from, to |-> e.to + size, label |-> e.label]
    BY <1>2, Zenon DEF Pushed
  <2>2. e.to + size \in Nat /\ e.from < e.to + size /\ ~(e.to <= n) /\ e.to + size <= e.to + size
    BY <1>0, <1>2
  <2> HIDE DEF f
  <2>3. f \in Spans /\ f.label = e.label /\ f.to = e.to + size
    BY <1>0, <2>1, <2>2, SpanOf
  <2> QED BY <1>2, <2>2, <2>3, Zenon DEF Pushes, f
<1>3. CASE ~(e.from >= n) /\ ~(n < e.to)
  <2>1. f = e
    BY <1>3, Zenon DEF Pushed
  <2>2. e.to <= e.to + size
    BY <1>0
  <2> HIDE DEF f
  <2>3. Pushes(f, e, n, size)
    BY <1>3, <2>1, <2>2, Zenon DEF Pushes
  <2> QED BY <2>3 DEF f
<1> QED BY <1>1, <1>2, <1>3, Zenon

LEMMA ShiftIs ==
    ASSUME NEW els, els \subseteq Spans, Reaches(els), NEW n \in Nat, NEW size \in Nat
    PROVE  /\ Shift(els, n, size) \subseteq Spans /\ Reaches(Shift(els, n, size))
           /\ \A f \in Shift(els, n, size) : \E e \in els : f = Pushed(e, n, size) /\ f.label = e.label
           /\ \A e \in els : Pushed(e, n, size) \in Shift(els, n, size) /\ Pushed(e, n, size).label = e.label
<1>1. \A e \in els : /\ Pushed(e, n, size) \in Spans /\ Pushed(e, n, size).label = e.label
                     /\ Pushed(e, n, size).to <= e.to + size
  BY PushedIs, Zenon DEF Pushes
<1>2. PICK b \in Nat : \A e \in els : e.to <= b
  BY DEF Reaches
<1>3. \A e \in els : Pushed(e, n, size).to <= b + size
  <2> TAKE e \in els
  <2>1. Pushed(e, n, size).to \in Nat /\ e.to \in Nat /\ e.to <= b /\ Pushed(e, n, size).to <= e.to + size
    BY <1>1, <1>2, SpanIs
  <2> QED BY <2>1, SMT
<1>4. b + size \in Nat
  OBVIOUS
<1>5. \A f \in Shift(els, n, size) : \E e \in els : f = Pushed(e, n, size)
  BY Zenon DEF Shift
<1>6. \A e \in els : Pushed(e, n, size) \in Shift(els, n, size)
  BY Zenon DEF Shift
<1>7. \A f \in Shift(els, n, size) : f \in Spans /\ f.to <= b + size
  BY <1>1, <1>3, <1>5, Zenon
<1>8. Reaches(Shift(els, n, size))
  BY <1>4, <1>7, Zenon DEF Reaches
<1> QED BY <1>1, <1>5, <1>6, <1>7, <1>8, Zenon

\* u is t with v put in after n cells.
Spliced(u, t, v, n) ==
    /\ Len(u) = Len(t) + Len(v)
    /\ \A i \in 1..n : u[i] = t[i]
    /\ \A i \in 1..Len(v) : u[n + i] = v[i]
    /\ \A i \in (n + 1)..Len(t) : u[Len(v) + i] = t[i]

LEMMA SplicedIs ==
    ASSUME NEW t \in Seq(Cells), NEW v \in Seq(Cells), NEW n \in Nat
    PROVE  /\ Upto(t, n) \o v \o From(t, n) \in Seq(Cells)
           /\ n <= Len(t) => Spliced(Upto(t, n) \o v \o From(t, n), t, v, n)
<1> DEFINE a == Upto(t, n)
           c == From(t, n)
           u == a \o v \o c
<1>1. a \in Seq(Cells) /\ Len(a) = (IF n <= Len(t) THEN n ELSE Len(t)) /\ \A i \in 1..Len(a) : a[i] = t[i]
  BY UptoIs, Zenon
<1>2. /\ c \in Seq(Cells) /\ Len(c) = (IF n <= Len(t) THEN Len(t) - n ELSE 0)
      /\ \A i \in 1..Len(c) : c[i] = t[n + i]
  BY FromIs, Zenon
<1> HIDE DEF a, c
<1>3. u \in Seq(Cells)
  BY <1>1, <1>2
<1>4. ASSUME n <= Len(t)
      PROVE  /\ Len(u) = Len(t) + Len(v)
             /\ \A i \in 1..n : u[i] = t[i]
             /\ \A i \in 1..Len(v) : u[n + i] = v[i]
             /\ \A i \in (n + 1)..Len(t) : u[Len(v) + i] = t[i]
  <2>1. Len(a) = n /\ Len(c) = Len(t) - n /\ Len(t) \in Nat /\ Len(v) \in Nat
    BY <1>1, <1>2, <1>4
  <2> DEFINE w == a \o v
  <2>2. /\ w \in Seq(Cells) /\ Len(w) = Len(a) + Len(v)
        /\ \A i \in 1..Len(a) : w[i] = a[i]
        /\ \A i \in 1..Len(v) : w[Len(a) + i] = v[i]
    <3>1. a \in Seq(Cells) /\ v \in Seq(Cells)
      BY <1>1
    <3> QED BY <3>1, ConcatIs
  <2> HIDE DEF w
  <2>3. /\ Len(w \o c) = Len(w) + Len(c)
        /\ \A i \in 1..Len(w) : (w \o c)[i] = w[i]
        /\ \A i \in 1..Len(c) : (w \o c)[Len(w) + i] = c[i]
    <3>1. w \in Seq(Cells) /\ c \in Seq(Cells)
      BY <1>2, <2>2
    <3> QED BY <3>1, ConcatIs
  <2> DEFINE x == w \o c
  <2> HIDE DEF x
  <2>4. /\ Len(x) = Len(w) + Len(c)
        /\ \A i \in 1..Len(w) : x[i] = w[i]
        /\ \A i \in 1..Len(c) : x[Len(w) + i] = c[i]
    BY <2>3 DEF x
  <2>5. Len(x) = Len(t) + Len(v)
    BY <2>1, <2>2, <2>4, SMT
  <2>6. \A i \in 1..n : x[i] = t[i]
    <3> TAKE i \in 1..n
    <3>1. i \in 1..Len(a) /\ i \in 1..Len(w)
      BY <2>1, <2>2, SMT
    <3> QED BY <1>1, <2>2, <2>4, <3>1, Zenon
  <2>7. \A i \in 1..Len(v) : x[n + i] = v[i]
    <3> TAKE i \in 1..Len(v)
    <3>1. n + i \in 1..Len(w) /\ Len(a) + i = n + i
      BY <2>1, <2>2, SMT
    <3> QED BY <2>2, <2>4, <3>1, Zenon
  <2>8. \A i \in (n + 1)..Len(t) : x[Len(v) + i] = t[i]
    <3> TAKE i \in (n + 1)..Len(t)
    <3>1. i - n \in 1..Len(c) /\ Len(w) + (i - n) = Len(v) + i /\ n + (i - n) = i
      BY <2>1, <2>2, SMT
    <3> QED BY <1>2, <2>4, <3>1, Zenon
  <2> QED BY <2>5, <2>6, <2>7, <2>8 DEF x, w
<1>5. n <= Len(t) => Spliced(u, t, v, n)
  BY <1>4, Zenon DEF Spliced
<1> QED BY <1>3, <1>5, Zenon DEF a, c

LEMMA InsertKeeps ==
    ASSUME ComposerAssumption, NEW t \in Seq(Cells), NEW v \in Seq(Cells), NEW n \in Nat,
           NEW els, els \subseteq Spans, InForm(t, n, els), NEW u, Spliced(u, t, v, n)
    PROVE  /\ Placed(u, Shift(els, n, Len(v))) /\ Between(Shift(els, n, Len(v)), n + Len(v))
           /\ n + Len(v) <= Len(u)
           /\ \A f \in Shift(els, n, Len(v)) : f.to <= n \/ n + Len(v) <= f.from
<1> DEFINE size == Len(v)
           top == Len(t)
           moved == Shift(els, n, size)
<1>1. /\ Len(u) = top + size
      /\ \A i \in 1..n : u[i] = t[i]
      /\ \A i \in (n + 1)..top : u[size + i] = t[i]
  BY Zenon DEF Spliced
<1>12. Len(u) = top + size /\ n <= top /\ size \in Nat /\ top \in Nat
  BY <1>1, LenProperties, Zenon DEF InForm
<1>2. \A e \in els : n <= e.from \/ e.to <= n
  BY Zenon DEF InForm, Between
<1>3. \A f \in moved : \E e \in els : f = Pushed(e, n, size)
  BY Zenon DEF Shift
<1>0. size = Len(v) /\ top = Len(t)
  OBVIOUS
<1> HIDE DEF size, top, moved
<1>4. \A e \in els :
         /\ e.from \in Nat /\ e.to \in Nat /\ e.from < e.to
         /\ Pushed(e, n, size).label = e.label
         /\ e.from >= n => Pushed(e, n, size).from = e.from + size /\ Pushed(e, n, size).to = e.to + size
         /\ e.to <= n => Pushed(e, n, size) = e
  <2> TAKE e \in els
  <2>1. e \in Spans
    OBVIOUS
  <2>2. e.from \in Nat /\ e.to \in Nat /\ e.from < e.to
    BY <2>1, SpanIs
  <2>3. Pushes(Pushed(e, n, size), e, n, size)
    BY <2>1, <1>12, PushedIs
  <2> QED BY <2>2, <2>3, Zenon DEF Pushes
<1>5. \A e \in els : /\ e.to = e.from + Len(e.label) /\ e.to <= top /\ Len(e.label) \in Nat
                     /\ \A i \in 1..Len(e.label) : t[e.from + i] = e.label[i]
  <2> TAKE e \in els
  <2>1. e.label \in Labels
    BY SpanIs
  <2> QED BY <1>0, <2>1, LabelIs, Zenon DEF InForm, Placed
<1>6. ASSUME NEW e \in els, NEW f, f = Pushed(e, n, size)
      PROVE  /\ f.from \in Nat /\ f.to \in Nat
             /\ \/ e.from >= n /\ f.from = e.from + size /\ f.to = e.to + size
                \/ e.to <= n /\ f = e
  <2>1. CASE e.from >= n
    <3>1. f.from = e.from + size /\ f.to = e.to + size
      BY <1>4, <1>6, <2>1, Zenon
    <3> QED BY <1>12, <1>4, <2>1, <3>1
  <2>2. CASE e.to <= n
    <3>1. f = e
      BY <1>4, <1>6, <2>2, Zenon
    <3> QED BY <1>4, <2>2, <3>1, Zenon
  <2> QED BY <1>2, <1>4, <2>1, <2>2
<1>7. ASSUME NEW f \in moved
      PROVE  /\ f.to = f.from + Len(f.label) /\ f.to <= Len(u)
             /\ \A i \in 1..Len(f.label) : u[f.from + i] = f.label[i]
             /\ f.to <= n \/ n + size <= f.from
             /\ f.from \in Nat /\ f.to \in Nat
  <2>1. PICK e \in els : f = Pushed(e, n, size)
    BY <1>3
  <2>2. f.label = e.label
    BY <1>4, <2>1, Zenon
  <2> DEFINE m == Len(e.label)
  <2>3. /\ e.to = e.from + m /\ e.to <= top /\ m \in Nat /\ e.from \in Nat /\ e.to \in Nat
        /\ \A i \in 1..m : t[e.from + i] = e.label[i]
    BY <1>4, <1>5
  <2> HIDE DEF m
  <2>4. CASE e.from >= n /\ f.from = e.from + size /\ f.to = e.to + size
    <3>0. e.to = e.from + m /\ e.to <= top /\ m \in Nat /\ e.from \in Nat /\ e.to \in Nat
      BY <2>3
    <3>1. f.to = f.from + m /\ f.to <= Len(u) /\ n + size <= f.from /\ f.from \in Nat /\ f.to \in Nat
      <4>1. Len(u) = top + size /\ n \in Nat /\ size \in Nat /\ top \in Nat /\ e.from >= n
            /\ f.from = e.from + size /\ f.to = e.to + size
        BY <1>12, <2>4
      <4> QED BY <4>1, <3>0, SMTT(30)
    <3>2. \A i \in 1..m : u[f.from + i] = e.label[i]
      <4> TAKE i \in 1..m
      <4>1. e.from + i \in (n + 1)..top /\ f.from + i = size + (e.from + i)
        <5>1. e.from >= n /\ f.from = e.from + size /\ size \in Nat /\ top \in Nat /\ n \in Nat /\ i \in Nat /\ 1 <= i /\ i <= m
          BY <1>12, <2>4, <3>0
        <5> QED BY <5>1, <3>0, SMTT(30)
      <4> QED BY <1>1, <2>3, <4>1, Zenon
    <3> QED BY <2>2, <3>1, <3>2, Zenon DEF m
  <2>5. CASE e.to <= n /\ f = e
    <3>0. e.to = e.from + m /\ e.to <= top /\ m \in Nat /\ e.from \in Nat /\ e.to \in Nat
      BY <2>3
    <3>1. e.to <= Len(u)
      BY <1>12, <3>0, SMT
    <3>2. \A i \in 1..m : u[e.from + i] = e.label[i]
      <4> TAKE i \in 1..m
      <4>1. e.from + i \in 1..n
        BY <3>0, <2>5, SMT
      <4> QED BY <1>1, <2>3, <4>1, Zenon
    <3> QED BY <2>3, <2>5, <3>1, <3>2, Zenon DEF m
  <2> QED BY <1>6, <2>1, <2>4, <2>5, Zenon
<1>8. ASSUME NEW f \in moved, NEW g \in moved
      PROVE  f = g \/ f.to <= g.from \/ g.to <= f.from
  <2>1. PICK d \in els : f = Pushed(d, n, size)
    BY <1>3
  <2>2. PICK e \in els : g = Pushed(e, n, size)
    BY <1>3
  <2>3. d = e \/ d.to <= e.from \/ e.to <= d.from
    BY Zenon DEF InForm, Placed
  <2>4. /\ d.from \in Nat /\ d.to \in Nat /\ d.from < d.to
        /\ e.from \in Nat /\ e.to \in Nat /\ e.from < e.to
    BY <1>4
  <2>5. \/ d.from >= n /\ f.from = d.from + size /\ f.to = d.to + size
        \/ d.to <= n /\ f = d
    BY <1>6, <2>1, Zenon
  <2>6. \/ e.from >= n /\ g.from = e.from + size /\ g.to = e.to + size
        \/ e.to <= n /\ g = e
    BY <1>6, <2>2, Zenon
  <2>7. d = e => f = g
    BY <2>1, <2>2
  <2> QED BY <1>12, <2>3, <2>4, <2>5, <2>6, <2>7, SMTT(30)
<1>9. Placed(u, moved)
  BY <1>7, <1>8, Zenon DEF Placed
<1>10. Between(moved, n + size)
  <2> SUFFICES ASSUME NEW f \in moved PROVE n + size <= f.from \/ f.to <= n + size
    BY Zenon DEF Between
  <2>1. f.to <= n \/ n + size <= f.from
    BY <1>7
  <2>2. f.to \in Nat
    BY <1>7
  <2> QED BY <1>12, <2>1, <2>2, SMT
<1>11. n + size <= Len(u)
  BY <1>12, SMT
<1> QED BY <1>0, <1>7, <1>9, <1>10, <1>11, Zenon DEF moved

-----------------------------------------------------------------------------
(* A deletion.                                                             *)

\* f is e, pulled back as the cells from start to end are taken out.
Pulls(f, e, start, end) ==
    /\ f \in Spans /\ f.label = e.label /\ f.to <= e.to + start
    /\ \/ e.from >= end /\ f.from = e.from + (start - end) /\ f.to = e.to + (start - end)
       \/ e.from < end /\ f = e

LEMMA PulledIs ==
    ASSUME NEW e \in Spans, NEW start \in Nat, NEW end \in Nat
    PROVE  Pulls(Pulled(e, start, end), e, start, end)
<1>0. e.from \in Nat /\ e.to \in Nat /\ e.label \in Labels /\ e.from < e.to
  BY SpanIs
<1> DEFINE f == Pulled(e, start, end)
<1>1. CASE e.from >= end
  <2>1. f = [from |-> e.from + (start - end), to |-> e.to + (start - end), label |-> e.label]
    BY <1>1, Zenon DEF Pulled, Slid
  <2>2. /\ e.from + (start - end) \in Nat /\ e.to + (start - end) \in Nat
        /\ e.from + (start - end) < e.to + (start - end) /\ e.to + (start - end) <= e.to + start
    BY <1>0, <1>1
  <2> HIDE DEF f
  <2>3. f \in Spans /\ f.label = e.label /\ f.from = e.from + (start - end) /\ f.to = e.to + (start - end)
    BY <1>0, <2>1, <2>2, SpanOf
  <2> QED BY <1>1, <2>2, <2>3, Zenon DEF Pulls, f
<1>2. CASE ~(e.from >= end)
  <2>1. f = e
    BY <1>2, Zenon DEF Pulled
  <2>2. e.to <= e.to + start /\ e.from < end
    BY <1>0, <1>2
  <2> HIDE DEF f
  <2>3. Pulls(f, e, start, end)
    BY <1>0, <2>1, <2>2, Zenon DEF Pulls
  <2> QED BY <2>3 DEF f
<1> QED BY <1>1, <1>2

LEMMA PullIs ==
    ASSUME NEW els, els \subseteq Spans, Reaches(els), NEW start \in Nat, NEW end \in Nat
    PROVE  /\ Pull(els, start, end) \subseteq Spans /\ Reaches(Pull(els, start, end))
           /\ \A f \in Pull(els, start, end) :
                 \E e \in els : f = Pulled(e, start, end) /\ f.label = e.label /\ ~Overlaps(e, start, end)
<1>1. \A e \in els : /\ Pulled(e, start, end) \in Spans /\ Pulled(e, start, end).label = e.label
                     /\ Pulled(e, start, end).to <= e.to + start
  BY PulledIs, Zenon DEF Pulls
<1>2. PICK b \in Nat : \A e \in els : e.to <= b
  BY DEF Reaches
<1>3. \A e \in els : Pulled(e, start, end).to <= b + start
  <2> TAKE e \in els
  <2>1. Pulled(e, start, end).to \in Nat /\ e.to \in Nat /\ e.to <= b /\ Pulled(e, start, end).to <= e.to + start
    BY <1>1, <1>2, SpanIs
  <2> QED BY <2>1, SMT
<1>4. b + start \in Nat
  OBVIOUS
<1>5. \A f \in Pull(els, start, end) : \E e \in els : f = Pulled(e, start, end) /\ ~Overlaps(e, start, end)
  BY Zenon DEF Pull
<1>7. \A f \in Pull(els, start, end) : f \in Spans /\ f.to <= b + start
  BY <1>1, <1>3, <1>5, Zenon
<1>8. Reaches(Pull(els, start, end))
  BY <1>4, <1>7, Zenon DEF Reaches
<1> QED BY <1>1, <1>5, <1>7, <1>8, Zenon

\* u is t without the cells from start to end.
Joined(u, t, start, end) ==
    /\ \A i \in 1..start : i <= Len(t) => i <= Len(u) /\ u[i] = t[i]
    /\ \A i \in 1..Len(t) : i > end => i - end + start <= Len(u) /\ u[i - end + start] = t[i]

LEMMA JoinedIs ==
    ASSUME NEW t \in Seq(Cells), NEW start \in Nat, NEW end \in Nat
    PROVE  /\ Upto(t, start) \o From(t, end) \in Seq(Cells)
           /\ start <= end => Joined(Upto(t, start) \o From(t, end), t, start, end)
<1> DEFINE a == Upto(t, start)
           c == From(t, end)
           u == a \o c
<1>1. a \in Seq(Cells) /\ Len(a) = (IF start <= Len(t) THEN start ELSE Len(t)) /\ \A i \in 1..Len(a) : a[i] = t[i]
  BY UptoIs, Zenon
<1>2. /\ c \in Seq(Cells) /\ Len(c) = (IF end <= Len(t) THEN Len(t) - end ELSE 0)
      /\ \A i \in 1..Len(c) : c[i] = t[end + i]
  BY FromIs, Zenon
<1> HIDE DEF a, c
<1>3. /\ u \in Seq(Cells) /\ Len(u) = Len(a) + Len(c)
      /\ \A i \in 1..Len(a) : u[i] = a[i]
      /\ \A i \in 1..Len(c) : u[Len(a) + i] = c[i]
  <2>1. a \in Seq(Cells) /\ c \in Seq(Cells)
    BY <1>1, <1>2
  <2> QED BY <2>1, ConcatIs
<1> HIDE DEF u
<1> DEFINE top == Len(t)
           long == Len(u)
           k == Len(a)
           l == Len(c)
<1>4. /\ top \in Nat /\ k \in Nat /\ l \in Nat /\ long = k + l /\ k = (IF start <= top THEN start ELSE top)
      /\ l = (IF end <= top THEN top - end ELSE 0)
  BY <1>1, <1>2, <1>3
<1>6. /\ \A i \in 1..k : a[i] = t[i] /\ u[i] = a[i]
      /\ \A i \in 1..l : c[i] = t[end + i] /\ u[k + i] = c[i]
  BY <1>1, <1>2, <1>3
<1> HIDE DEF top, long, k, l
<1>5. ASSUME start <= end PROVE Joined(u, t, start, end)
  <2>1. ASSUME NEW i \in 1..start, i <= top PROVE i <= long /\ u[i] = t[i]
    <3>1. i \in 1..k /\ i <= long
      BY <1>4, <2>1, SMT
    <3> QED BY <1>6, <3>1, Zenon
  <2>2. ASSUME NEW i \in 1..top, i > end PROVE i - end + start <= long /\ u[i - end + start] = t[i]
    <3>1. /\ i - end \in 1..l /\ i - end + start = k + (i - end) /\ end + (i - end) = i
          /\ i - end + start <= long
      BY <1>4, <1>5, <2>2, SMT
    <3>2. u[i - end + start] = c[i - end] /\ c[i - end] = t[end + (i - end)]
      BY <1>6, <3>1, Zenon
    <3> QED BY <3>1, <3>2
  <2> QED BY <2>1, <2>2, Zenon DEF Joined, top, long
<1> QED BY <1>3, <1>5 DEF u, a, c

LEMMA CutKeeps ==
    ASSUME ComposerAssumption, NEW t \in Seq(Cells), NEW start \in Nat, NEW end \in Nat, start <= end,
           NEW els, els \subseteq Spans, Placed(t, els), NEW u \in Seq(Cells), Joined(u, t, start, end)
    PROVE  Placed(u, Pull(els, start, end))
<1> DEFINE rest == Pull(els, start, end)
           top == Len(t)
           long == Len(u)
<1>1. \A f \in rest : \E e \in els : f = Pulled(e, start, end) /\ ~Overlaps(e, start, end)
  BY Zenon DEF Pull
<1>2. /\ \A i \in 1..start : i <= top => i <= long /\ u[i] = t[i]
      /\ \A i \in 1..top : i > end => i - end + start <= long /\ u[i - end + start] = t[i]
  BY Zenon DEF Joined
<1>0. top \in Nat /\ long \in Nat /\ start \in Nat /\ end \in Nat /\ start <= end
  OBVIOUS
<1>3. top = Len(t) /\ long = Len(u)
  OBVIOUS
<1> HIDE DEF rest, top, long
<1>5. \A e \in els : /\ e.to = e.from + Len(e.label) /\ e.to <= top /\ Len(e.label) \in Nat /\ e.from < e.to
                     /\ e.from \in Nat /\ e.to \in Nat
                     /\ \A i \in 1..Len(e.label) : t[e.from + i] = e.label[i]
  <2> TAKE e \in els
  <2>1. e.label \in Labels /\ e.from \in Nat /\ e.to \in Nat /\ e.from < e.to
    BY SpanIs
  <2> QED BY <1>3, <2>1, LabelIs, Zenon DEF Placed
\* An element left is wholly before the cut or wholly behind it.
<1>6. ASSUME NEW e \in els, ~Overlaps(e, start, end), NEW f, f = Pulled(e, start, end)
      PROVE  \/ e.from >= end /\ f.from = e.from + (start - end) /\ f.to = e.to + (start - end)
             \/ e.to <= start /\ f = e
  <2>1. Pulls(f, e, start, end)
    <3>1. e \in Spans
      OBVIOUS
    <3> QED BY <3>1, <1>0, <1>6, PulledIs
  <2>2. \/ e.from >= end /\ f.from = e.from + (start - end) /\ f.to = e.to + (start - end)
        \/ e.from < end /\ f = e
    BY <2>1, Zenon DEF Pulls
  <2>3. ~(e.from < end /\ start < e.to)
    BY <1>6, Zenon DEF Overlaps
  <2>4. e.from \in Nat /\ e.to \in Nat
    BY <1>5
  <2>5. e.from < end => e.to <= start
    BY <1>0, <2>3, <2>4, SMT
  <2> QED BY <2>2, <2>5
<1>7. ASSUME NEW f \in rest
      PROVE  /\ f.to = f.from + Len(f.label) /\ f.to <= long
             /\ \A i \in 1..Len(f.label) : u[f.from + i] = f.label[i]
  <2>1. PICK e \in els : f = Pulled(e, start, end) /\ ~Overlaps(e, start, end)
    BY <1>1
  <2>2. f.label = e.label
    <3>1. e \in Spans
      OBVIOUS
    <3>2. Pulls(f, e, start, end)
      BY <3>1, <1>0, <2>1, PulledIs
    <3> QED BY <3>2, Zenon DEF Pulls
  <2> DEFINE m == Len(e.label)
  <2>3. /\ e.to = e.from + m /\ e.to <= top /\ m \in Nat /\ e.from \in Nat /\ e.to \in Nat /\ e.from < e.to
        /\ \A i \in 1..m : t[e.from + i] = e.label[i]
    BY <1>5
  <2> HIDE DEF m
  <2>4. e.to = e.from + m /\ e.to <= top /\ m \in Nat /\ e.from \in Nat /\ e.to \in Nat /\ e.from < e.to
    BY <2>3
  <2>5. CASE e.from >= end /\ f.from = e.from + (start - end) /\ f.to = e.to + (start - end)
    <3>1. f.to = f.from + m
      BY <1>0, <2>4, <2>5, SMT
    <3>2. f.to <= long
      <4>1. e.to \in 1..top /\ e.to > end /\ f.to = e.to - end + start
        BY <1>0, <2>4, <2>5, SMT
      <4> QED BY <1>2, <4>1, Zenon
    <3>3. \A i \in 1..m : u[f.from + i] = e.label[i]
      <4> TAKE i \in 1..m
      <4> DEFINE j == e.from + i
      <4>1. j \in 1..top /\ j > end /\ f.from + i = j - end + start
        <5>1. i \in Nat /\ 1 <= i /\ i <= m /\ e.from >= end /\ f.from = e.from + (start - end)
          BY <2>4, <2>5
        <5>2. e.from + i \in 1..top /\ e.from + i > end
          BY <1>0, <2>4, <5>1, SMTT(30)
        <5>3. f.from + i = (e.from + i) - end + start
          BY <1>0, <2>4, <5>1, SMTT(30)
        <5> QED BY <5>2, <5>3
      <4>2. t[j] = e.label[i]
        BY <2>3
      <4> HIDE DEF j
      <4>3. u[j - end + start] = t[j]
        BY <1>2, <4>1, Zenon
      <4> QED BY <4>1, <4>2, <4>3
    <3> QED BY <2>2, <3>1, <3>2, <3>3, Zenon DEF m
  <2>6. CASE e.to <= start /\ f = e
    <3>1. e.to <= long
      <4>1. e.to \in 1..start /\ e.to <= top
        BY <1>0, <2>4, <2>6, SMT
      <4> QED BY <1>2, <4>1, Zenon
    <3>2. \A i \in 1..m : u[e.from + i] = e.label[i]
      <4> TAKE i \in 1..m
      <4>1. e.from + i \in 1..start /\ e.from + i <= top
        BY <1>0, <2>4, <2>6, SMT
      <4> QED BY <1>2, <2>3, <4>1, Zenon
    <3> QED BY <2>3, <2>6, <3>1, <3>2, Zenon DEF m
  <2> QED BY <1>6, <2>1, <2>5, <2>6, Zenon
<1>8. ASSUME NEW f \in rest, NEW g \in rest
      PROVE  f = g \/ f.to <= g.from \/ g.to <= f.from
  <2>1. PICK d \in els : f = Pulled(d, start, end) /\ ~Overlaps(d, start, end)
    BY <1>1
  <2>2. PICK e \in els : g = Pulled(e, start, end) /\ ~Overlaps(e, start, end)
    BY <1>1
  <2>3. d = e \/ d.to <= e.from \/ e.to <= d.from
    BY Zenon DEF Placed
  <2>4. /\ d.from \in Nat /\ d.to \in Nat /\ d.from < d.to
        /\ e.from \in Nat /\ e.to \in Nat /\ e.from < e.to
    BY <1>5
  <2>5. \/ d.from >= end /\ f.from = d.from + (start - end) /\ f.to = d.to + (start - end)
        \/ d.to <= start /\ f = d
    BY <1>6, <2>1, Zenon
  <2>6. \/ e.from >= end /\ g.from = e.from + (start - end) /\ g.to = e.to + (start - end)
        \/ e.to <= start /\ g = e
    BY <1>6, <2>2, Zenon
  <2>7. d = e => f = g
    BY <2>1, <2>2
  <2> QED BY <1>0, <2>3, <2>4, <2>5, <2>6, <2>7, SMTT(30)
<1>9. Placed(u, rest)
  BY <1>3, <1>7, <1>8, Zenon DEF Placed
<1> QED BY <1>9 DEF rest

-----------------------------------------------------------------------------
(* The text area.                                                          *)

Snapshots == {s \in [text : Seq(Cells), cursor : Nat, elements : SUBSET Spans] : Reaches(s.elements)}
Sounds == {s \in Snapshots : InForm(s.text, s.cursor, s.elements)}

AreaTypes ==
    /\ text \in Seq(Cells) /\ kill \in Seq(Cells) /\ cursor \in Nat
    /\ elements \subseteq Spans /\ Reaches(elements)
    /\ undos \in Seq(Snapshots) /\ redos \in Seq(Snapshots) /\ column \in Nat \cup {NoColumn}
AreaForm == InForm(text, cursor, elements) /\ undos \in Seq(Sounds) /\ redos \in Seq(Sounds)

\* The labels of the elements are told apart, and the new ones are some of the old.
Distinct(els) == \A e, f \in els : e.label = f.label => e = f
Carried(old, new) ==
    /\ \A f \in new : \E e \in old : f.label = e.label
    /\ Distinct(old) => Distinct(new)

LEMMA SnapshotIs ==
    ASSUME AreaTypes
    PROVE  Snapshot \in Snapshots /\ (AreaForm => Snapshot \in Sounds)
<1> DEFINE s == Snapshot
<1>1. s = [text |-> text, cursor |-> cursor, elements |-> elements]
  BY DEF Snapshot
<1>2. text \in Seq(Cells) /\ cursor \in Nat /\ elements \in SUBSET Spans /\ Reaches(elements)
  BY DEF AreaTypes
<1> HIDE DEF s
<1>3. /\ s \in [text : Seq(Cells), cursor : Nat, elements : SUBSET Spans]
      /\ s.text = text /\ s.cursor = cursor /\ s.elements = elements
  BY <1>1, <1>2
<1>4. s \in Snapshots
  BY <1>2, <1>3, Zenon DEF Snapshots
<1>5. AreaForm => InForm(s.text, s.cursor, s.elements)
  BY <1>3, Zenon DEF AreaForm
<1>6. AreaForm => s \in Sounds
  BY <1>4, <1>5, Zenon DEF Sounds
<1> QED BY <1>4, <1>6 DEF s

LEMMA SnapshotTaken ==
    ASSUME NEW S, undos \in Seq(S), redos \in Seq(S), Snapshot \in S, TakeSnapshot
    PROVE  undos' \in Seq(S) /\ redos' \in Seq(S)
<1> DEFINE s == Snapshot
           all == Append(undos, s)
<1>0. s \in S
  OBVIOUS
<1>1. CASE undos # <<>> /\ Last(undos) = s
  <2>1. undos' = undos /\ redos' = redos
    BY <1>1, Zenon DEF TakeSnapshot
  <2> QED BY <2>1
<1>2. CASE ~(undos # <<>> /\ Last(undos) = s)
  <2>1. undos' = (IF Len(all) > Depth THEN Tail(all) ELSE all) /\ redos' = <<>>
    BY <1>2, Zenon DEF TakeSnapshot
  <2> HIDE DEF s
  <2>2. all \in Seq(S) /\ all # <<>>
    BY <1>0
  <2> HIDE DEF all
  <2>3. Tail(all) \in Seq(S) /\ <<>> \in Seq(S)
    BY <2>2
  <2> QED BY <2>1, <2>2, <2>3, Zenon
<1> QED BY <1>1, <1>2

LEMMA ShiftCarries ==
    ASSUME NEW els, els \subseteq Spans, Reaches(els), NEW n \in Nat, NEW size \in Nat
    PROVE  Carried(els, Shift(els, n, size))
<1>1. \A f \in Shift(els, n, size) : \E e \in els : f = Pushed(e, n, size) /\ f.label = e.label
  BY ShiftIs
<1> QED BY <1>1, Zenon DEF Carried, Distinct

LEMMA PullCarries ==
    ASSUME NEW els, els \subseteq Spans, Reaches(els), NEW start \in Nat, NEW end \in Nat
    PROVE  Carried(els, Pull(els, start, end))
<1>1. \A f \in Pull(els, start, end) : \E e \in els : f = Pulled(e, start, end) /\ f.label = e.label
  BY PullIs
<1> QED BY <1>1, Zenon DEF Carried, Distinct

LEMMA SameCarried == ASSUME NEW els PROVE Carried(els, els)
BY DEF Carried

\* Both insertions: what is put in may be an element.
LEMMA InsertDoes ==
    ASSUME ComposerAssumption, AreaTypes, NEW v \in Seq(Cells), NEW added, InsertAs(v, added),
           added \subseteq Spans, Reaches(added),
           \A d \in added : d.from = cursor /\ d.to = cursor + Len(v) /\ d.label = v
    PROVE  /\ AreaTypes' /\ (AreaForm => AreaForm')
           /\ elements' = Shift(elements, cursor, Len(v)) \cup added
<1> DEFINE u == Upto(text, cursor) \o v \o From(text, cursor)
           size == Len(v)
           moved == Shift(elements, cursor, size)
<1>1. /\ text \in Seq(Cells) /\ kill \in Seq(Cells) /\ cursor \in Nat
      /\ elements \subseteq Spans /\ Reaches(elements)
      /\ undos \in Seq(Snapshots) /\ redos \in Seq(Snapshots)
  BY Zenon DEF AreaTypes
<1>2. /\ TakeSnapshot /\ text' = u /\ elements' = moved \cup added /\ cursor' = cursor + size
      /\ column' = NoColumn /\ kill' = kill
  BY Zenon DEF InsertAs
<1>3. size \in Nat
  OBVIOUS
<1>4. u \in Seq(Cells) /\ (cursor <= Len(text) => Spliced(u, text, v, cursor))
  BY <1>1, SplicedIs
<1> HIDE DEF u
<1>5. moved \subseteq Spans /\ Reaches(moved)
  BY <1>1, <1>3, ShiftIs
<1>6. Reaches(moved \cup added)
  <2> HIDE DEF moved
  <2>1. PICK a \in Nat : \A e \in moved : e.to <= a
    BY <1>5 DEF Reaches
  <2>2. PICK b \in Nat : \A e \in added : e.to <= b
    BY DEF Reaches
  <2>3. \A e \in moved \cup added : e.to <= a + b
    <3> TAKE e \in moved \cup added
    <3>1. e.to \in Nat
      BY <1>5, SpanIs
    <3>2. e.to <= a \/ e.to <= b
      BY <2>1, <2>2
    <3> QED BY <3>1, <3>2, SMT
  <2>4. a + b \in Nat
    OBVIOUS
  <2> QED BY <2>3, <2>4, Zenon DEF Reaches
<1>7. undos' \in Seq(Snapshots) /\ redos' \in Seq(Snapshots)
  <2>1. Snapshot \in Snapshots
    BY SnapshotIs
  <2> QED BY <1>1, <1>2, <2>1, SnapshotTaken
<1>8. cursor + size \in Nat
  BY <1>1, <1>3
<1>9. AreaTypes'
  <2> HIDE DEF moved, size
  <2>1. moved \cup added \subseteq Spans
    BY <1>5
  <2>2. column' \in Nat \cup {NoColumn}
    BY <1>2
  <2> QED BY <1>1, <1>2, <1>4, <1>6, <1>7, <1>8, <2>1, <2>2, Zenon DEF AreaTypes
<1>10. ASSUME AreaForm PROVE AreaForm'
  <2>1. InForm(text, cursor, elements) /\ undos \in Seq(Sounds) /\ redos \in Seq(Sounds)
    BY <1>10 DEF AreaForm
  <2>2. undos' \in Seq(Sounds) /\ redos' \in Seq(Sounds)
    <3>1. Snapshot \in Sounds
      BY <1>10, SnapshotIs
    <3> QED BY <1>2, <2>1, <3>1, SnapshotTaken
  <2>3. Spliced(u, text, v, cursor)
    BY <1>4, <2>1, Zenon DEF InForm
  <2>4. /\ Placed(u, moved) /\ Between(moved, cursor + size) /\ cursor + size <= Len(u)
        /\ \A f \in moved : f.to <= cursor \/ cursor + size <= f.from
    BY <1>1, <2>1, <2>3, InsertKeeps
  <2> HIDE DEF moved
  <2>5. \A i \in 1..size : u[cursor + i] = v[i]
    BY <2>3, Zenon DEF Spliced
  <2>6. Placed(u, moved \cup added)
    <3>1. ASSUME NEW d \in added
          PROVE  /\ d.to = d.from + Len(d.label) /\ d.to <= Len(u)
                 /\ \A i \in 1..Len(d.label) : u[d.from + i] = d.label[i]
                 /\ \A f \in moved : f.to <= d.from \/ d.to <= f.from
      <4>1. d.from = cursor /\ d.to = cursor + size /\ d.label = v
        BY <3>1
      <4> QED BY <2>4, <2>5, <4>1, Zenon
    <3>2. \A d, e \in added : d = e
      <4> TAKE d \in added, e \in added
      <4>1. d.from = e.from /\ d.to = e.to /\ d.label = e.label
        BY Zenon
      <4>2. d \in Spans /\ e \in Spans
        OBVIOUS
      <4>3. /\ d = [from |-> d.from, to |-> d.to, label |-> d.label]
            /\ e = [from |-> e.from, to |-> e.to, label |-> e.label]
        BY <4>2, SpanIs
      <4> QED BY <4>1, <4>3, Zenon
    <3>3. /\ \A e \in moved : /\ e.to = e.from + Len(e.label) /\ e.to <= Len(u)
                              /\ \A i \in 1..Len(e.label) : u[e.from + i] = e.label[i]
          /\ \A e, f \in moved : e = f \/ e.to <= f.from \/ f.to <= e.from
      BY <2>4, Zenon DEF Placed
    <3> QED BY <3>1, <3>2, <3>3, Zenon DEF Placed
  <2>7. Between(moved \cup added, cursor + size)
    <3>1. \A d \in added : d.to <= cursor + size
      <4> TAKE d \in added
      <4>1. d.to = cursor + size
        BY Zenon
      <4> QED BY <1>8, <4>1, SMT
    <3> QED BY <2>4, <3>1, Zenon DEF Between
  <2>8. InForm(u, cursor + size, moved \cup added)
    BY <2>4, <2>6, <2>7, Zenon DEF InForm
  <2> QED BY <1>2, <2>2, <2>8, Zenon DEF AreaForm
<1> QED BY <1>2, <1>9, <1>10

LEMMA InsertTextDoes ==
    ASSUME ComposerAssumption, AreaTypes, NEW v \in Seq(Cells), InsertText(v)
    PROVE  AreaTypes' /\ (AreaForm => AreaForm') /\ Carried(elements, elements')
<1>1. CASE v = <<>>
  <2>1. UNCHANGED area
    BY <1>1, Zenon DEF InsertText
  <2>2. /\ text' = text /\ cursor' = cursor /\ elements' = elements /\ kill' = kill
        /\ undos' = undos /\ redos' = redos /\ column' = column
    BY <2>1 DEF area
  <2>3. AreaTypes' /\ (AreaForm => AreaForm')
    BY <2>2, Zenon DEF AreaTypes, AreaForm
  <2> QED BY <2>2, <2>3, SameCarried, Zenon
<1>2. CASE v # <<>>
  <2>1. InsertAs(v, {})
    BY <1>2, Zenon DEF InsertText
  <2>2. Reaches({})
    BY DEF Reaches
  <2>3. /\ AreaTypes' /\ (AreaForm => AreaForm')
        /\ elements' = Shift(elements, cursor, Len(v)) \cup {}
    BY <2>1, <2>2, InsertDoes
  <2>4. elements \subseteq Spans /\ Reaches(elements) /\ cursor \in Nat /\ Len(v) \in Nat
    BY DEF AreaTypes
  <2>5. Carried(elements, Shift(elements, cursor, Len(v)))
    BY <2>4, ShiftCarries
  <2>6. elements' = Shift(elements, cursor, Len(v))
    BY <2>3
  <2> QED BY <2>3, <2>5, <2>6, Zenon
<1> QED BY <1>1, <1>2

LEMMA InsertElementDoes ==
    ASSUME ComposerAssumption, AreaTypes, NEW label \in Labels, InsertElement(label)
    PROVE  /\ AreaTypes' /\ (AreaForm => AreaForm')
           /\ \A f \in elements' : f.label = label \/ \E e \in elements : f.label = e.label
           /\ \E f \in elements' : f.label = label
           /\ Distinct(elements) /\ (\A e \in elements : e.label # label) => Distinct(elements')
<1> DEFINE d == [from |-> cursor, to |-> cursor + Len(label), label |-> label]
           moved == Shift(elements, cursor, Len(label))
<1>1. label \in Seq(Cells) /\ Len(label) \in Nat /\ Len(label) >= 3
  BY LabelIs
<1>2. elements \subseteq Spans /\ Reaches(elements) /\ cursor \in Nat
  BY DEF AreaTypes
<1>3. cursor + Len(label) \in Nat /\ cursor < cursor + Len(label)
  BY <1>1, <1>2
<1>4. d \in Spans /\ d.from = cursor /\ d.to = cursor + Len(label) /\ d.label = label
  BY <1>2, <1>3, SpanOf
<1>5. InsertAs(label, {d})
  BY Zenon DEF InsertElement
<1> HIDE DEF d
<1>6. Reaches({d})
  BY <1>3, <1>4, SMT DEF Reaches
<1>7. AreaTypes' /\ (AreaForm => AreaForm') /\ elements' = moved \cup {d}
  <2>1. \A e \in {d} : e.from = cursor /\ e.to = cursor + Len(label) /\ e.label = label
    BY <1>4
  <2>2. {d} \subseteq Spans
    BY <1>4
  <2> QED BY <1>1, <1>5, <1>6, <2>1, <2>2, InsertDoes
<1>8. Carried(elements, moved)
  BY <1>1, <1>2, ShiftCarries
<1> HIDE DEF moved
<1>9. \A f \in moved : \E e \in elements : f.label = e.label
  BY <1>8 DEF Carried
<1>10. ASSUME Distinct(elements), \A e \in elements : e.label # label PROVE Distinct(elements')
  <2>1. \A f \in moved : f.label # label
    BY <1>9, <1>10, Zenon
  <2>2. \A e, f \in moved : e.label = f.label => e = f
    BY <1>8, <1>10, Zenon DEF Carried, Distinct
  <2>3. \A e, f \in moved \cup {d} : e.label = f.label => e = f
    BY <1>4, <2>1, <2>2
  <2> QED BY <1>7, <2>3 DEF Distinct
<1> QED BY <1>4, <1>7, <1>9, <1>10

LEMMA CutSpan ==
    ASSUME NEW els, els \subseteq Spans, Reaches(els), NEW a \in Nat, NEW b \in Nat,
           NEW hit, hit \subseteq els
    PROVE  /\ Min({a} \cup {e.from : e \in hit}) \in Nat /\ Min({a} \cup {e.from : e \in hit}) <= a
           /\ Max({b} \cup {e.to : e \in hit}) \in Nat /\ b <= Max({b} \cup {e.to : e \in hit})
<1> DEFINE F == {a} \cup {e.from : e \in hit}
           T == {b} \cup {e.to : e \in hit}
<1>1. \A e \in hit : e.from \in Nat /\ e.to \in Nat
  BY SpanIs
<1>2. F \subseteq Nat /\ a \in F /\ T \subseteq Nat /\ b \in T
  BY <1>1
<1>3. PICK c \in Nat : \A e \in els : e.to <= c
  BY DEF Reaches
<1>4. \A n \in T : n <= b + c
  <2>1. \A e \in hit : e.to <= b + c
    <3> TAKE e \in hit
    <3>1. e.to \in Nat /\ e.to <= c
      BY <1>1, <1>3
    <3> QED BY <3>1, SMT
  <2>2. b <= b + c
    OBVIOUS
  <2> QED BY <2>1, <2>2
<1>5. b + c \in Nat
  OBVIOUS
<1> HIDE DEF F, T
<1>6. Min(F) \in Nat /\ Min(F) <= a
  BY <1>2, LeastIs
<1>7. Max(T) \in Nat /\ b <= Max(T)
  <2>1. T # {} /\ T \subseteq Nat
    BY <1>2
  <2> QED BY <1>2, <1>4, <1>5, <2>1, GreatestIs
<1> QED BY <1>6, <1>7 DEF F, T

LEMMA DeleteRangeDoes ==
    ASSUME ComposerAssumption, AreaTypes, NEW a \in Nat, NEW b \in Nat, DeleteRange(a, b), kill' \in Seq(Cells)
    PROVE  AreaTypes' /\ (AreaForm /\ a <= b => AreaForm') /\ Carried(elements, elements')
<1> DEFINE hit == {e \in elements : Overlaps(e, a, b)}
           start == Min({a} \cup {e.from : e \in hit})
           end == Max({b} \cup {e.to : e \in hit})
           rest == Pull(elements, start, end)
           left == Upto(text, start) \o From(text, end)
           n == Min({a, Len(left)})
<1>1. /\ text \in Seq(Cells) /\ kill \in Seq(Cells) /\ cursor \in Nat
      /\ elements \subseteq Spans /\ Reaches(elements)
      /\ undos \in Seq(Snapshots) /\ redos \in Seq(Snapshots)
  BY Zenon DEF AreaTypes
<1>2. /\ TakeSnapshot /\ text' = left /\ elements' = rest /\ cursor' = Outside(rest, n)
      /\ column' = NoColumn
  BY Zenon DEF DeleteRange
<1>3. start \in Nat /\ start <= a /\ end \in Nat /\ b <= end
  <2>1. hit \subseteq elements
    OBVIOUS
  <2> HIDE DEF hit
  <2> QED BY <1>1, <2>1, CutSpan
<1> HIDE DEF start, end
<1>4. left \in Seq(Cells) /\ (start <= end => Joined(left, text, start, end))
  BY <1>1, <1>3, JoinedIs
<1>5. rest \subseteq Spans /\ Reaches(rest) /\ Carried(elements, rest)
  BY <1>1, <1>3, PullIs, PullCarries
<1> HIDE DEF left
<1>6. Len(left) \in Nat
  BY <1>4
<1> HIDE DEF n
<1>7. n \in Nat /\ n <= Len(left)
  <2>1. a \in Int /\ Len(left) \in Int
    BY <1>6
  <2>2. n = IF a <= Len(left) THEN a ELSE Len(left)
    BY <2>1, LesserIs, Zenon DEF n
  <2> QED BY <1>6, <2>2
<1>8. Outside(rest, n) \in Nat
  BY <1>5, <1>7, OutsideIs
<1>9. undos' \in Seq(Snapshots) /\ redos' \in Seq(Snapshots)
  <2>1. Snapshot \in Snapshots
    BY SnapshotIs
  <2> QED BY <1>1, <1>2, <2>1, SnapshotTaken
<1>10. AreaTypes'
  <2> HIDE DEF rest
  <2>1. column' \in Nat \cup {NoColumn}
    BY <1>2
  <2> QED BY <1>2, <1>4, <1>5, <1>8, <1>9, <2>1, Zenon DEF AreaTypes
<1>11. ASSUME AreaForm, a <= b PROVE AreaForm'
  <2>1. InForm(text, cursor, elements) /\ undos \in Seq(Sounds) /\ redos \in Seq(Sounds)
    BY <1>11 DEF AreaForm
  <2>2. undos' \in Seq(Sounds) /\ redos' \in Seq(Sounds)
    <3>1. Snapshot \in Sounds
      BY <1>11, SnapshotIs
    <3> QED BY <1>2, <2>1, <3>1, SnapshotTaken
  <2>3. start <= end
    BY <1>3, <1>11, SMT
  <2>4. Joined(left, text, start, end)
    BY <1>4, <2>3
  <2>5. Placed(text, elements)
    BY <2>1, Zenon DEF InForm
  <2>6. Placed(left, rest)
    BY <1>1, <1>3, <1>4, <2>3, <2>4, <2>5, CutKeeps
  <2>7. Outside(rest, n) <= Len(left) /\ Between(rest, Outside(rest, n))
    BY <1>4, <1>5, <1>7, <2>6, OutsideIs
  <2>8. InForm(left, Outside(rest, n), rest)
    BY <2>6, <2>7, Zenon DEF InForm
  <2> QED BY <1>2, <2>2, <2>8, Zenon DEF AreaForm
<1> QED BY <1>2, <1>5, <1>10, <1>11

LEMMA MoveDoes ==
    ASSUME AreaTypes, NEW n \in Nat, NEW col \in Nat \cup {NoColumn}, MoveTo(n, col)
    PROVE  /\ AreaTypes' /\ (AreaForm /\ n <= Len(text) /\ Between(elements, n) => AreaForm')
           /\ Carried(elements, elements')
<1>1. /\ cursor' = n /\ column' = col /\ text' = text /\ elements' = elements /\ kill' = kill
      /\ undos' = undos /\ redos' = redos
  BY DEF MoveTo
<1>2. AreaTypes'
  BY <1>1, Zenon DEF AreaTypes
<1>3. AreaForm /\ n <= Len(text) /\ Between(elements, n) => AreaForm'
  BY <1>1, Zenon DEF AreaForm, InForm
<1> QED BY <1>1, <1>2, <1>3, SameCarried, Zenon

LEMMA SetTextDoes ==
    ASSUME AreaTypes, NEW t \in Seq(Cells), NEW n \in Nat, SetText(t, n)
    PROVE  /\ AreaTypes' /\ (AreaForm /\ cursor' <= Len(text') => AreaForm')
           /\ Carried(elements, elements')
<1> DEFINE m == Min({n, Len(t)})
<1>1. /\ text \in Seq(Cells) /\ kill \in Seq(Cells) /\ elements \subseteq Spans
      /\ undos \in Seq(Snapshots) /\ redos \in Seq(Snapshots)
  BY Zenon DEF AreaTypes
<1>2. /\ TakeSnapshot /\ text' = t /\ elements' = {} /\ cursor' = Outside(elements, m)
      /\ column' = NoColumn /\ kill' = kill
  BY Zenon DEF SetText
<1>3. m \in Nat
  <2>1. n \in Int /\ Len(t) \in Int /\ Len(t) \in Nat
    OBVIOUS
  <2>2. m = IF n <= Len(t) THEN n ELSE Len(t)
    BY <2>1, LesserIs, Zenon
  <2> QED BY <2>1, <2>2
<1> HIDE DEF m
<1>4. Outside(elements, m) \in Nat
  BY <1>1, <1>3, OutsideIs
<1>5. undos' \in Seq(Snapshots) /\ redos' \in Seq(Snapshots)
  <2>1. Snapshot \in Snapshots
    BY SnapshotIs
  <2> QED BY <1>1, <1>2, <2>1, SnapshotTaken
<1>6. AreaTypes'
  <2>1. Reaches({}) /\ {} \subseteq Spans
    BY DEF Reaches
  <2>2. column' \in Nat \cup {NoColumn}
    BY <1>2
  <2> QED BY <1>1, <1>2, <1>4, <1>5, <2>1, <2>2, Zenon DEF AreaTypes
<1>7. ASSUME AreaForm, cursor' <= Len(text') PROVE AreaForm'
  <2>1. undos \in Seq(Sounds) /\ redos \in Seq(Sounds)
    BY <1>7 DEF AreaForm
  <2>2. undos' \in Seq(Sounds) /\ redos' \in Seq(Sounds)
    <3>1. Snapshot \in Sounds
      BY <1>7, SnapshotIs
    <3> QED BY <1>2, <2>1, <3>1, SnapshotTaken
  <2>3. Placed(text', {}) /\ Between({}, cursor')
    BY DEF Placed, Between
  <2>4. InForm(text', cursor', elements')
    BY <1>2, <1>7, <2>3, Zenon DEF InForm
  <2> QED BY <2>2, <2>4, Zenon DEF AreaForm
<1>8. Carried(elements, {})
  BY DEF Carried, Distinct
<1> QED BY <1>2, <1>6, <1>7, <1>8, Zenon

LEMMA RestoreDoes ==
    ASSUME AreaTypes, NEW s \in Snapshots, NEW past \in Seq(Snapshots), NEW future \in Seq(Snapshots),
           Restore(s, past, future)
    PROVE  /\ AreaTypes'
           /\ (AreaForm /\ s \in Sounds /\ past \in Seq(Sounds) /\ future \in Seq(Sounds) => AreaForm')
<1> DEFINE m == Min({s.cursor, Len(s.text)})
<1>1. /\ text' = s.text /\ cursor' = m /\ elements' = s.elements /\ undos' = past /\ redos' = future
      /\ column' = NoColumn /\ kill' = kill
  BY Zenon DEF Restore
<1>2. s.text \in Seq(Cells) /\ s.cursor \in Nat /\ s.elements \subseteq Spans /\ Reaches(s.elements)
  BY DEF Snapshots
<1>3. m = IF s.cursor <= Len(s.text) THEN s.cursor ELSE Len(s.text)
  <2>1. s.cursor \in Int /\ Len(s.text) \in Int
    BY <1>2
  <2> QED BY <2>1, LesserIs, Zenon
<1>4. m \in Nat
  <2>1. Len(s.text) \in Nat
    BY <1>2
  <2> HIDE DEF m
  <2> QED BY <1>2, <1>3, <2>1
<1> HIDE DEF m
<1>5. AreaTypes'
  <2>1. column' \in Nat \cup {NoColumn} /\ kill \in Seq(Cells)
    BY <1>1 DEF AreaTypes
  <2> QED BY <1>1, <1>2, <1>4, <2>1, Zenon DEF AreaTypes
<1>6. ASSUME s \in Sounds, past \in Seq(Sounds), future \in Seq(Sounds) PROVE AreaForm'
  <2>1. InForm(s.text, s.cursor, s.elements)
    BY <1>6, Zenon DEF Sounds
  <2>2. s.cursor <= Len(s.text)
    BY <2>1, Zenon DEF InForm
  <2>3. m = s.cursor
    BY <1>3, <2>2, Zenon
  <2>4. InForm(text', cursor', elements')
    BY <1>1, <2>1, <2>3, Zenon
  <2> QED BY <1>1, <1>6, <2>4, Zenon DEF AreaForm
<1> QED BY <1>5, <1>6

-----------------------------------------------------------------------------
(* Places in the text.                                                     *)

LEMMA StartsAre ==
    ASSUME AreaTypes
    PROVE  /\ Starts \subseteq Nat /\ 0 \in Starts
           /\ \A s \in Starts : s <= Len(text) /\ (s # 0 => s \in 1..Len(text) /\ text[s] = NL)
<1>1. DOMAIN text = 1..Len(text) /\ Len(text) \in Nat
  BY DEF AreaTypes
<1>2. \A s \in Starts : s = 0 \/ (s \in DOMAIN text /\ text[s] = NL)
  BY Zenon DEF Starts
<1>3. 0 \in Starts
  BY Zenon DEF Starts
<1>4. \A s \in Starts : s = 0 \/ (s \in 1..Len(text) /\ text[s] = NL)
  BY <1>1, <1>2
<1> HIDE DEF Starts
<1> QED BY <1>1, <1>3, <1>4

LEMMA LineStartIs ==
    ASSUME AreaTypes, NEW n \in Nat
    PROVE  LineStart(n) \in Nat /\ LineStart(n) <= n /\ LineStart(n) \in Starts
<1> DEFINE S == {s \in Starts : s <= n}
<1>1. S \subseteq Nat /\ 0 \in S
  BY StartsAre
<1>2. \A x \in S : x <= n
  OBVIOUS
<1>3. \A x \in S : x \in Starts
  OBVIOUS
<1> HIDE DEF S
<1>4. Max(S) \in S /\ Max(S) \in Nat
  BY <1>1, <1>2, GreatestIs
<1>5. LineStart(n) = Max(S)
  BY Zenon DEF LineStart, S
<1> QED BY <1>2, <1>3, <1>4, <1>5

LEMMA LineEndIs ==
    ASSUME AreaTypes, NEW n \in Nat
    PROVE  /\ LineEnd(n) \in Nat /\ LineEnd(n) <= Len(text) /\ (n <= Len(text) => n <= LineEnd(n))
           /\ LineEnd(n) = Len(text) \/ (LineEnd(n) + 1 \in 1..Len(text) /\ text[LineEnd(n) + 1] = NL)
<1> DEFINE B == {j \in DOMAIN text : j > n /\ text[j] = NL}
           E == {i - 1 : i \in B} \cup {Len(text)}
<1>1. DOMAIN text = 1..Len(text) /\ Len(text) \in Nat
  BY DEF AreaTypes
<1>2. \A j \in B : j \in 1..Len(text) /\ j > n /\ text[j] = NL /\ j - 1 \in Nat /\ j - 1 <= Len(text) /\ n <= j - 1 /\ (j - 1) + 1 = j
  BY <1>1
<1> HIDE DEF B
<1>3. \A x \in E : x = Len(text) \/ \E j \in B : x = j - 1
  BY Zenon
<1>4. Len(text) \in E
  OBVIOUS
<1>5. E \subseteq Nat
  BY <1>1, <1>2, <1>3
<1>6. LineEnd(n) = Min(E)
  BY Zenon DEF LineEnd, B
<1> HIDE DEF E
<1>7. Min(E) \in E /\ Min(E) \in Nat
  BY <1>4, <1>5, LeastIs
<1> DEFINE x == LineEnd(n)
<1>8. x \in E /\ x \in Nat
  BY <1>6, <1>7, Zenon
<1> HIDE DEF x
<1>9. CASE x = Len(text)
  <2>1. x <= Len(text)
    BY <1>1, <1>9
  <2> QED BY <1>8, <1>9, <2>1, Zenon DEF x
<1>10. CASE \E j \in B : x = j - 1
  <2>1. PICK j \in B : x = j - 1
    BY <1>10
  <2>2. x <= Len(text) /\ n <= x /\ x + 1 = j
    BY <1>2, <2>1
  <2>3. j \in 1..Len(text) /\ text[j] = NL
    BY <1>2
  <2> QED BY <1>8, <2>2, <2>3, Zenon DEF x
<1> QED BY <1>3, <1>8, <1>9, <1>10

\* A place next to a line break is in no element: no label has one.
LEMMA BreaksBetween ==
    ASSUME ComposerAssumption, AreaTypes, InForm(text, cursor, elements), NEW n \in Nat,
           \/ n \in Starts
           \/ n = Len(text)
           \/ n + 1 \in 1..Len(text) /\ text[n + 1] = NL
    PROVE  Between(elements, n)
<1> SUFFICES ASSUME NEW e \in elements, ~(n <= e.from), ~(e.to <= n) PROVE FALSE
  BY Zenon DEF Between
<1>1. e \in Spans
  BY DEF AreaTypes
<1>2. e.from \in Nat /\ e.to \in Nat /\ e.label \in Labels
  BY <1>1, SpanIs
<1>3. /\ e.to = e.from + Len(e.label) /\ e.to <= Len(text)
      /\ \A i \in 1..Len(e.label) : text[e.from + i] = e.label[i]
  BY Zenon DEF InForm, Placed
<1> DEFINE m == Len(e.label)
<1>4. m \in Nat /\ \A i \in 1..m : e.label[i] # NL
  BY <1>2, LabelIs
<1>5. /\ e.to = e.from + m /\ e.to <= Len(text)
      /\ \A i \in 1..m : text[e.from + i] = e.label[i]
  BY <1>3
<1> HIDE DEF m
<1>7. Len(text) \in Nat
  BY DEF AreaTypes
<1>6. n - e.from \in 1..m /\ (n + 1) - e.from \in 1..m /\ n < Len(text)
  BY <1>2, <1>4, <1>5, <1>7, SMTT(30)
<1>8. e.from + (n - e.from) = n /\ e.from + ((n + 1) - e.from) = n + 1
  BY <1>2, SMT
<1>9. text[n] # NL
  BY <1>4, <1>5, <1>6, <1>7, <1>8, Zenon
<1>10. text[n + 1] # NL
  BY <1>4, <1>5, <1>6, <1>7, <1>8, Zenon
<1>11. n # 0 /\ n # Len(text)
  BY <1>2, <1>6, <1>7, SMT
<1>12. n \notin Starts
  BY <1>9, <1>11, StartsAre, Zenon
<1> QED BY <1>10, <1>11, <1>12, Zenon

\* Left and right of the cursor, where no element is entered.
LEMMA BackIs ==
    ASSUME AreaTypes
    PROVE  Back \in Nat /\ (InForm(text, cursor, elements) => Back <= Len(text) /\ Between(elements, Back))
<1> DEFINE ending == {e \in elements : e.to = cursor}
           inside == Containing(elements, cursor - 1)
           n == Max({0, Min({cursor - 1, Len(text)})})
<1>1. elements \subseteq Spans /\ cursor \in Nat /\ Len(text) \in Nat
  BY DEF AreaTypes
<1>2. \A e \in elements : e.from \in Nat /\ e.to \in Nat /\ e.from < e.to
  BY <1>1, SpanIs
<1>3. ASSUME NEW e \in elements, InForm(text, cursor, elements)
      PROVE  e.from <= Len(text) /\ Between(elements, e.from)
  <2>1. e.to <= Len(text) /\ \A f \in elements : e = f \/ e.to <= f.from \/ f.to <= e.from
    BY <1>3, Zenon DEF InForm, Placed
  <2>2. e.from <= Len(text)
    BY <1>1, <1>2, <2>1, SMT
  <2>3. \A f \in elements : e.from <= f.from \/ f.to <= e.from
    BY <1>2, <2>1, SMT
  <2> QED BY <2>2, <2>3, Zenon DEF Between
<1>4. ASSUME NEW e \in elements, Back = e.from
      PROVE  Back \in Nat /\ (InForm(text, cursor, elements) => Back <= Len(text) /\ Between(elements, Back))
  BY <1>2, <1>3, <1>4, Zenon
<1>5. CASE ending # {}
  <2>1. Back = Leftmost(ending).from
    BY <1>5, Zenon DEF Back
  <2>2. Leftmost(ending) \in ending
    BY <1>1, <1>5, LeftmostIs
  <2>3. Leftmost(ending) \in elements
    BY <2>2
  <2> QED BY <1>4, <2>1, <2>3, Zenon
<1>6. CASE ending = {} /\ inside # {}
  <2>1. Back = Leftmost(inside).from
    BY <1>6, Zenon DEF Back
  <2>0. inside \subseteq elements
    BY DEF Containing
  <2>2. Leftmost(inside) \in inside
    BY <1>1, <1>6, <2>0, LeftmostIs
  <2>3. Leftmost(inside) \in elements
    BY <2>0, <2>2
  <2> QED BY <1>4, <2>1, <2>3, Zenon
<1>7. CASE ending = {} /\ inside = {}
  <2>1. Back = n
    BY <1>7, Zenon DEF Back
  <2>2. n = IF 0 <= (IF cursor - 1 <= Len(text) THEN cursor - 1 ELSE Len(text))
            THEN (IF cursor - 1 <= Len(text) THEN cursor - 1 ELSE Len(text)) ELSE 0
    <3>1. cursor - 1 \in Int /\ Len(text) \in Int
      BY <1>1
    <3>2. Min({cursor - 1, Len(text)}) = IF cursor - 1 <= Len(text) THEN cursor - 1 ELSE Len(text)
      BY <3>1, LesserIs, Zenon
    <3>3. Min({cursor - 1, Len(text)}) \in Int /\ 0 \in Int
      BY <3>1, <3>2
    <3>4. n = IF 0 <= Min({cursor - 1, Len(text)}) THEN Min({cursor - 1, Len(text)}) ELSE 0
      BY <3>3, GreaterIs, Zenon
    <3> QED BY <3>2, <3>4, Zenon
  <2> HIDE DEF n
  <2>3. n \in Nat
    BY <1>1, <2>2
  <2>4. ASSUME InForm(text, cursor, elements) PROVE n <= Len(text) /\ Between(elements, n)
    <3>1. cursor <= Len(text) /\ Between(elements, cursor)
      BY <2>4, Zenon DEF InForm
    <3>2. n <= Len(text) /\ (n = cursor - 1 \/ (n = 0 /\ cursor = 0))
      BY <1>1, <2>2, <3>1, SMT
    <3>3. CASE n = cursor - 1
      <4>1. \A e \in elements : ~(e.from <= n /\ n < e.to)
        BY <1>7, <3>3, Zenon DEF Containing
      <4>2. \A e \in elements : n <= e.from \/ e.to <= n
        BY <1>2, <2>3, <4>1, SMT
      <4> QED BY <3>2, <4>2, Zenon DEF Between
    <3>4. CASE n = 0
      <4>1. \A e \in elements : n <= e.from
        BY <1>2, <3>4
      <4> QED BY <3>2, <4>1, Zenon DEF Between
    <3> QED BY <3>2, <3>3, <3>4
  <2> QED BY <2>1, <2>3, <2>4, Zenon
<1> QED BY <1>5, <1>6, <1>7

LEMMA OnIs ==
    ASSUME AreaTypes
    PROVE  On \in Nat /\ (InForm(text, cursor, elements) => On <= Len(text) /\ Between(elements, On))
<1> DEFINE here == {e \in elements : e.from = cursor}
           inside == Containing(elements, cursor + 1)
           n == Min({cursor + 1, Len(text)})
<1>1. elements \subseteq Spans /\ cursor \in Nat /\ Len(text) \in Nat
  BY DEF AreaTypes
<1>2. \A e \in elements : e.from \in Nat /\ e.to \in Nat /\ e.from < e.to
  BY <1>1, SpanIs
<1>3. ASSUME NEW e \in elements, InForm(text, cursor, elements)
      PROVE  e.to <= Len(text) /\ Between(elements, e.to)
  <2>1. e.to <= Len(text) /\ \A f \in elements : e = f \/ e.to <= f.from \/ f.to <= e.from
    BY <1>3, Zenon DEF InForm, Placed
  <2>3. \A f \in elements : e.to <= f.from \/ f.to <= e.to
    BY <1>2, <2>1, SMT
  <2> QED BY <2>1, <2>3, Zenon DEF Between
<1>4. ASSUME NEW e \in elements, On = e.to
      PROVE  On \in Nat /\ (InForm(text, cursor, elements) => On <= Len(text) /\ Between(elements, On))
  BY <1>2, <1>3, <1>4, Zenon
<1>5. CASE here # {}
  <2>1. On = Leftmost(here).to
    BY <1>5, Zenon DEF On
  <2>2. Leftmost(here) \in here
    BY <1>1, <1>5, LeftmostIs
  <2>3. Leftmost(here) \in elements
    BY <2>2
  <2> QED BY <1>4, <2>1, <2>3, Zenon
<1>6. CASE here = {} /\ inside # {}
  <2>1. On = Leftmost(inside).to
    BY <1>6, Zenon DEF On
  <2>0. inside \subseteq elements
    BY DEF Containing
  <2>2. Leftmost(inside) \in inside
    BY <1>1, <1>6, <2>0, LeftmostIs
  <2>3. Leftmost(inside) \in elements
    BY <2>0, <2>2
  <2> QED BY <1>4, <2>1, <2>3, Zenon
<1>7. CASE here = {} /\ inside = {}
  <2>1. On = n
    BY <1>7, Zenon DEF On
  <2>2. n = IF cursor + 1 <= Len(text) THEN cursor + 1 ELSE Len(text)
    <3>1. cursor + 1 \in Int /\ Len(text) \in Int
      BY <1>1
    <3> QED BY <3>1, LesserIs, Zenon
  <2> HIDE DEF n
  <2>3. n \in Nat
    BY <1>1, <2>2
  <2>4. ASSUME InForm(text, cursor, elements) PROVE n <= Len(text) /\ Between(elements, n)
    <3>1. cursor <= Len(text) /\ Between(elements, cursor)
      BY <2>4, Zenon DEF InForm
    <3>2. n <= Len(text) /\ (n = cursor + 1 \/ n = cursor)
      BY <1>1, <2>2, <3>1, SMT
    <3>3. CASE n = cursor + 1
      <4>1. \A e \in elements : ~(e.from <= n /\ n < e.to)
        BY <1>7, <3>3, Zenon DEF Containing
      <4>2. \A e \in elements : n <= e.from \/ e.to <= n
        BY <1>2, <2>3, <4>1, SMT
      <4> QED BY <3>2, <4>2, Zenon DEF Between
    <3>4. CASE n = cursor
      BY <3>1, <3>2, <3>4
    <3> QED BY <3>2, <3>3, <3>4
  <2> QED BY <2>1, <2>3, <2>4, Zenon
<1> QED BY <1>5, <1>6, <1>7

LEMMA GreatestOrZero ==
    ASSUME NEW b \in Nat, NEW S, S \subseteq 1..b
    PROVE  Max({0} \cup S) \in Nat /\ Max({0} \cup S) <= b
<1> DEFINE T == {0} \cup S
<1>1. T \subseteq Nat /\ T # {} /\ \A x \in T : x <= b
  OBVIOUS
<1> HIDE DEF T
<1>2. Max(T) \in T /\ Max(T) \in Nat
  BY <1>1, GreatestIs
<1> QED BY <1>1, <1>2 DEF T

LEMMA LeastOr ==
    ASSUME NEW S, S \subseteq Nat, NEW n \in Nat
    PROVE  Min(S \cup {n}) \in Nat
<1> DEFINE T == S \cup {n}
<1>1. T \subseteq Nat /\ T # {}
  OBVIOUS
<1> HIDE DEF T
<1>2. Min(T) \in Nat
  BY <1>1, LeastIs
<1> QED BY <1>2 DEF T

LEMMA PreviousWordIs ==
    ASSUME AreaTypes
    PROVE  PreviousWord \in Nat /\ PreviousWord <= cursor
<1> DEFINE S == {i \in 1..cursor : text[i] \notin White}
           solid == Max({0} \cup S)
           T == {i \in 1..solid : text[i] \in White \cup Separators}
<1>1. cursor \in Nat
  BY DEF AreaTypes
<1>2. S \subseteq 1..cursor
  BY Zenon
<1> HIDE DEF S
<1>3. solid \in Nat /\ solid <= cursor
  BY <1>1, <1>2, GreatestOrZero
<1>4. PreviousWord = Max({0} \cup T)
  BY Zenon DEF PreviousWord, S
<1> HIDE DEF solid
<1>5. T \subseteq 1..solid
  BY Zenon
<1> HIDE DEF T
<1>6. Max({0} \cup T) \in Nat /\ Max({0} \cup T) <= solid
  BY <1>3, <1>5, GreatestOrZero
<1> DEFINE p == PreviousWord
<1>7. p \in Nat /\ p <= solid
  BY <1>4, <1>6, Zenon
<1> HIDE DEF p
<1>8. p \in Nat /\ p <= cursor
  BY <1>1, <1>3, <1>7, SMT
<1> QED BY <1>8 DEF p

LEMMA LaterPlaces ==
    ASSUME AreaTypes, NEW n \in Nat, NEW K, K \subseteq DOMAIN text
    PROVE  Min({j - 1 : j \in K} \cup {Max({n, Len(text)})}) \in Nat
<1>1. DOMAIN text = 1..Len(text) /\ Len(text) \in Nat
  BY DEF AreaTypes
<1>2. \A j \in K : j - 1 \in Nat
  BY <1>1
<1>3. Max({n, Len(text)}) \in Nat
  <2>1. n \in Int /\ Len(text) \in Int
    BY <1>1
  <2>2. Max({n, Len(text)}) = IF n <= Len(text) THEN Len(text) ELSE n
    BY <2>1, GreaterIs, Zenon
  <2> QED BY <1>1, <2>2
<1> DEFINE S == {j - 1 : j \in K}
<1>4. S \subseteq Nat
  BY <1>2
<1> HIDE DEF S
<1>5. Min(S \cup {Max({n, Len(text)})}) \in Nat
  BY <1>3, <1>4, LeastOr
<1> QED BY <1>5 DEF S

LEMMA NextWordIs ==
    ASSUME AreaTypes
    PROVE  NextWord \in Nat
<1> DEFINE K == {k \in DOMAIN text : k > cursor /\ text[k] \notin White}
           solid == Min({j - 1 : j \in K} \cup {Max({cursor, Len(text)})})
           L == {k \in DOMAIN text : k > solid /\ text[k] \in White \cup Separators}
<1>1. cursor \in Nat
  BY DEF AreaTypes
<1>2. K \subseteq DOMAIN text /\ L \subseteq DOMAIN text
  BY Zenon
<1>3. NextWord = Min({j - 1 : j \in L} \cup {Max({solid, Len(text)})})
  BY Zenon DEF NextWord
<1> HIDE DEF K, L
<1>4. solid \in Nat
  BY <1>1, <1>2, LaterPlaces
<1> HIDE DEF solid
<1>5. Min({j - 1 : j \in L} \cup {Max({solid, Len(text)})}) \in Nat
  BY <1>2, <1>4, LaterPlaces
<1> QED BY <1>3, <1>5

LEMMA RowIs ==
    ASSUME AreaTypes
    PROVE  Row \in Nat /\ Wanted \in Nat
<1> DEFINE n == Min({cursor, Len(text)})
<1>1. cursor \in Nat /\ Len(text) \in Nat /\ column \in Nat \cup {NoColumn}
  BY DEF AreaTypes
<1>2. n \in Nat
  <2>1. cursor \in Int /\ Len(text) \in Int
    BY <1>1
  <2>2. n = IF cursor <= Len(text) THEN cursor ELSE Len(text)
    BY <2>1, LesserIs, Zenon
  <2> QED BY <1>1, <2>2
<1>3. Row = LineStart(n) /\ Wanted = IF column # NoColumn THEN column ELSE n - Row
  BY Zenon DEF Row, Wanted
<1> HIDE DEF n
<1>4. LineStart(n) \in Nat /\ LineStart(n) <= n
  BY <1>2, LineStartIs
<1> DEFINE r == LineStart(n)
<1>5. r \in Nat /\ r <= n
  BY <1>4
<1> HIDE DEF r
<1>6. n - r \in Nat
  BY <1>2, <1>5, SMT
<1>7. Row = r
  BY <1>3 DEF r
<1> QED BY <1>1, <1>3, <1>5, <1>6, <1>7

LEMMA VerticalIs ==
    ASSUME AreaTypes, NEW start \in Nat
    PROVE  Min({start + Wanted, LineEnd(start)}) \in Nat
<1>1. start + Wanted \in Nat /\ LineEnd(start) \in Nat
  BY RowIs, LineEndIs, SMTT(30)
<1>2. start + Wanted \in Int /\ LineEnd(start) \in Int
  BY <1>1
<1>3. Min({start + Wanted, LineEnd(start)}) = IF start + Wanted <= LineEnd(start) THEN start + Wanted ELSE LineEnd(start)
  BY <1>2, LesserIs, Zenon
<1> QED BY <1>1, <1>3, Zenon

LEMMA TrimmedIs ==
    ASSUME NEW s \in Seq(Cells)
    PROVE  Trimmed(s) \in Seq(Cells)
<1> DEFINE solid == {i \in DOMAIN s : s[i] # NL}
<1>1. DOMAIN s = 1..Len(s) /\ Len(s) \in Nat
  OBVIOUS
<1>2. solid \subseteq Nat /\ \A i \in solid : i \in 1..Len(s)
  BY <1>1
<1>3. Trimmed(s) = IF solid = {} THEN <<>> ELSE SubSeq(s, Min(solid), Max(solid))
  BY Zenon DEF Trimmed
<1> HIDE DEF solid
<1>4. CASE solid = {}
  BY <1>3, <1>4
<1>5. CASE solid # {}
  <2>0. \A i \in solid : i <= Len(s)
    BY <1>1, <1>2
  <2>1. Min(solid) \in solid
    BY <1>2, <1>5, LeastIs
  <2>2. Max(solid) \in solid
    BY <1>1, <1>2, <1>5, <2>0, GreatestIs
  <2> DEFINE a == Min(solid)
             b == Max(solid)
  <2>3. a \in 1..Len(s) /\ b \in 1..Len(s)
    BY <1>2, <2>1, <2>2
  <2> HIDE DEF a, b
  <2>4. SubSeq(s, a, b) \in Seq(Cells)
    BY <2>3
  <2> QED BY <1>3, <1>5, <2>4 DEF a, b
<1> QED BY <1>4, <1>5
-----------------------------------------------------------------------------
(* Completions.                                                            *)

Offers == {c \in [start : Nat, end : Nat, list : Seq(Seq(Cells)), at : Nat] : 1 <= c.at /\ c.at <= Len(c.list)}
Offering(o) == o = <<>> \/ \E c \in Offers : o = <<c>>

LEMMA OfferIs ==
    ASSUME AreaTypes, NEW start \in Nat, NEW list \in Seq(Seq(Cells))
    PROVE  Offering(Offer(start, list))
<1>1. CASE list = <<>>
  BY <1>1, Zenon DEF Offer, Offering
<1>2. CASE list # <<>>
  <2> DEFINE c == [start |-> start, end |-> cursor, list |-> list, at |-> 1]
  <2>1. cursor \in Nat
    BY DEF AreaTypes
  <2>2. Len(list) \in Nat /\ 1 <= Len(list)
    BY <1>2
  <2>3. c \in Offers
    BY <2>1, <2>2 DEF Offers
  <2>4. Offer(start, list) = <<c>>
    BY <1>2, Zenon DEF Offer
  <2> QED BY <2>3, <2>4, Zenon DEF Offering
<1> QED BY <1>1, <1>2

LEMMA OfferedIs ==
    ASSUME ComposerAssumption, AreaTypes
    PROVE  Offering(Offered)
<1>1. PathOffer = <<>> \/ \E start \in Nat, list \in Seq(Seq(Cells)) : PathOffer = Offer(start, list)
  <2> DEFINE before == Upto(text, cursor)
             marks == {i \in DOMAIN before : text[i] = "@"}
             token == From(before, Max(marks))
             fits == {n \in Range(Names) : IsPrefix(token, n)}
             paths == Filtered(Names, fits)
             list == [i \in DOMAIN paths |-> <<"@">> \o paths[i]]
  <2>1. \/ PathOffer = <<>>
        \/ marks # {} /\ PathOffer = Offer(Max(marks) - 1, list)
    BY Zenon DEF PathOffer
  <2>2. before \in Seq(Cells)
    BY UptoIs DEF AreaTypes
  <2>3. marks \subseteq Nat /\ \A i \in marks : i <= Len(before) /\ i # 0
    BY <2>2
  <2>4. Len(before) \in Nat
    BY <2>2
  <2> HIDE DEF marks
  <2>5. marks # {} => Max(marks) - 1 \in Nat
    <3> HAVE marks # {}
    <3>1. Max(marks) \in marks /\ Max(marks) \in Nat
      BY <2>3, <2>4, GreatestIs
    <3>2. Max(marks) # 0
      BY <2>3, <3>1
    <3> QED BY <3>1, <3>2
  <2>6. list \in Seq(Seq(Cells))
    <3> HIDE DEF fits
    <3>1. Names \in Seq(Seq(Cells))
      BY Zenon DEF ComposerAssumption
    <3>2. paths \in Seq(Seq(Cells))
      BY <3>1, FilteredIs
    <3> HIDE DEF paths
    <3> DEFINE mark == "@"
    <3>3. mark \in Cells
      BY Zenon DEF ComposerAssumption
    <3> HIDE DEF mark
    <3>4. <<mark>> \in Seq(Cells)
      BY <3>3
    <3>5. DOMAIN paths = 1..Len(paths) /\ Len(paths) \in Nat /\ \A i \in 1..Len(paths) : paths[i] \in Seq(Cells)
      BY <3>2
    <3>6. \A i \in 1..Len(paths) : <<mark>> \o paths[i] \in Seq(Cells)
      BY <3>4, <3>5
    <3>7. list = [i \in 1..Len(paths) |-> <<mark>> \o paths[i]]
      BY <3>5, Zenon DEF mark
    <3> HIDE DEF list
    <3> QED BY <3>5, <3>6, <3>7
  <2> QED BY <2>1, <2>5, <2>6, Zenon
<1>2. Offering(PathOffer)
  <2>1. Offering(<<>>)
    BY DEF Offering
  <2> QED BY <1>1, <2>1, OfferIs, Zenon
<1>3. Offered = PathOffer \/ \E list \in Seq(Seq(Cells)) : Offered = Offer(0, list)
  <2> DEFINE before == Upto(text, cursor)
             fits == {c \in Range(Commands) : IsPrefix(before, c)}
             commands == Filtered(Commands, fits)
  <2>1. Offered = PathOffer \/ Offered = Offer(0, commands)
    BY Zenon DEF Offered
  <2> HIDE DEF fits
  <2>2. commands \in Seq(Seq(Cells))
    <3>1. Commands \in Seq(Seq(Cells))
      BY Zenon DEF ComposerAssumption
    <3> QED BY <3>1, FilteredIs
  <2> QED BY <2>1, <2>2, Zenon
<1>4. 0 \in Nat
  OBVIOUS
<1> QED BY <1>2, <1>3, <1>4, OfferIs, Zenon

LEMMA TurnedIs ==
    ASSUME NEW c \in Offers, NEW by \in {1, -1}
    PROVE  Turned(c, by) \in Offers
<1> DEFINE n == Len(c.list)
           k == (c.at - 1 + by + n) % n
           d == [start |-> c.start, end |-> c.end, list |-> c.list, at |-> k + 1]
<1>1. c.start \in Nat /\ c.end \in Nat /\ c.list \in Seq(Seq(Cells)) /\ c.at \in Nat /\ 1 <= c.at /\ c.at <= n /\ n \in Nat
  BY DEF Offers
<1>2. c = [start |-> c.start, end |-> c.end, list |-> c.list, at |-> c.at]
  BY DEF Offers
<1> HIDE DEF n
<1>3. k \in Nat /\ k < n
  BY <1>1, SMT
<1>4. Turned(c, by) = d
  BY <1>2 DEF Turned, n
<1> HIDE DEF k
<1>5. d \in Offers
  BY <1>1, <1>3 DEF Offers, n
<1> QED BY <1>4, <1>5

\* A candidate takes the place of what was typed.
LEMMA InsertCandidateDoes ==
    ASSUME AreaTypes, NEW c \in Offers, InsertCandidate(c), strayed \in BOOLEAN
    PROVE  /\ AreaTypes' /\ Carried(elements, elements') /\ Offering(completion')
           /\ pending' = Prune(pending) /\ undone' = undone
           /\ ~strayed' => ~strayed /\ (AreaForm => AreaForm')
<1> DEFINE new == c.list[c.at]
           end == c.start + Len(new)
           t == Upto(text, c.start) \o new \o From(text, c.end)
           d == [start |-> c.start, end |-> end, list |-> c.list, at |-> c.at]
<1>1. /\ c.start \in Nat /\ c.end \in Nat /\ c.list \in Seq(Seq(Cells)) /\ c.at \in Nat /\ 1 <= c.at
      /\ c.at <= Len(c.list) /\ c = [start |-> c.start, end |-> c.end, list |-> c.list, at |-> c.at]
  BY DEF Offers
<1>2. /\ SetText(t, end) /\ completion' = <<[c EXCEPT !.end = end]>> /\ pending' = Prune(pending)
      /\ Strayed /\ undone' = undone
  BY Zenon DEF InsertCandidate
<1>3. new \in Seq(Cells)
  BY <1>1
<1> HIDE DEF new
<1>4. end \in Nat
  BY <1>1, <1>3
<1> HIDE DEF end
<1>5. [c EXCEPT !.end = end] = d
  <2>1. c = [start |-> c.start, end |-> c.end, list |-> c.list, at |-> c.at]
    BY <1>1
  <2> QED BY <2>1
<1>6. d \in Offers
  BY <1>1, <1>4 DEF Offers
<1>7. t \in Seq(Cells)
  <2>1. text \in Seq(Cells)
    BY DEF AreaTypes
  <2>2. Upto(text, c.start) \in Seq(Cells) /\ From(text, c.end) \in Seq(Cells)
    BY <1>1, <2>1, UptoIs, FromIs
  <2> QED BY <1>3, <2>2
<1> HIDE DEF t
<1>8. /\ AreaTypes' /\ (AreaForm /\ cursor' <= Len(text') => AreaForm')
      /\ Carried(elements, elements')
  BY <1>2, <1>4, <1>7, SetTextDoes
<1>9. Offering(completion')
  BY <1>2, <1>5, <1>6, Zenon DEF Offering
<1>10. ASSUME ~strayed' PROVE ~strayed /\ ~(cursor' > Len(text'))
  BY <1>2, <1>10, Zenon DEF Strayed, Stray
<1>11. ASSUME ~(cursor' > Len(text')) PROVE cursor' <= Len(text')
  <2>1. cursor' \in Nat /\ Len(text') \in Nat
    BY <1>8 DEF AreaTypes
  <2> QED BY <1>11, <2>1
<1> QED BY <1>2, <1>8, <1>9, <1>10, <1>11

-----------------------------------------------------------------------------
(* The pastes of the prompt.                                               *)

\* The pastes whose placeholders were given out, when count were of each size.
GivenOut(count) ==
    {p \in [label : Labels, body : Bodies] : \E s \in Sizes : \E c \in 1..count[s] : p.label = Placeholder(s, c)}
Apart(ps) == \A i, j \in 1..Len(ps) : ps[i].label = ps[j].label => i = j
Shown(ps, els) == \A i \in 1..Len(ps) : \E e \in els : e.label = ps[i].label
Meets(ps, els) == Distinct(els) /\ \A e \in els : \E i \in 1..Len(ps) : ps[i].label = e.label

Numbered ==
    /\ keys \in Nat /\ keys <= MaxKeys
    /\ issued \in [Sizes -> Nat] /\ \A s \in Sizes : issued[s] <= keys
    /\ pending \in Seq(GivenOut(issued)) /\ Apart(pending)
Matched == Shown(pending, elements) /\ (~undone => Meets(pending, elements))

LEMMA PrunedIs ==
    ASSUME NEW S, NEW ps \in Seq(S), NEW els,
           NEW q, q = Filtered(ps, {p \in Range(ps) : \E e \in els : e.label = p.label})
    PROVE  /\ q \in Seq(S) /\ (Apart(ps) => Apart(q)) /\ Shown(q, els)
           /\ Meets(ps, els) => Meets(q, els)
<1> DEFINE T == {p \in Range(ps) : \E e \in els : e.label = p.label}
           n == Len(ps)
<1>1. q = Filtered(ps, T)
  OBVIOUS
<1>2. \A i \in 1..n : ps[i] \in Range(ps)
  <2>1. DOMAIN ps = 1..n
    OBVIOUS
  <2> QED BY <2>1, Zenon DEF Range
<1>3. \A p \in T : \E e \in els : e.label = p.label
  BY Zenon
<1>4. \A i \in 1..n : (\E e \in els : e.label = ps[i].label) => ps[i] \in T
  BY <1>2, Zenon
<1> HIDE DEF T
<1>5. q \in Seq(S) /\ FilterOf(q, ps, T, n)
  BY <1>1, FilteredIs
<1>6. /\ \A i \in 1..Len(q) : \E a \in 1..n : q[i] = ps[a] /\ ps[a] \in T
      /\ \A a \in 1..n : ps[a] \in T => \E i \in 1..Len(q) : q[i] = ps[a]
      /\ \A i, j \in 1..Len(q) : i < j => \E a, b \in 1..n : a < b /\ q[i] = ps[a] /\ q[j] = ps[b]
  BY <1>5, Zenon DEF FilterOf
<1>0. n \in Nat /\ Len(q) \in Nat
  BY <1>5
<1>10. n = Len(ps)
  OBVIOUS
<1> HIDE DEF n
<1>7. ASSUME Apart(ps) PROVE Apart(q)
  <2>1. ASSUME NEW i \in 1..Len(q), NEW j \in 1..Len(q), i < j PROVE q[i].label # q[j].label
    <3>1. PICK a, b \in 1..n : a < b /\ q[i] = ps[a] /\ q[j] = ps[b]
      BY <1>6, <2>1
    <3>2. a # b
      BY <3>1, <1>0, SMT
    <3> QED BY <1>7, <1>10, <3>1, <3>2, Zenon DEF Apart
  <2>2. \A i, j \in 1..Len(q) : i = j \/ i < j \/ j < i
    BY <1>0, SMT
  <2> QED BY <2>1, <2>2, Zenon DEF Apart
<1>8. Shown(q, els)
  BY <1>3, <1>6, Zenon DEF Shown
<1>9. ASSUME Meets(ps, els) PROVE Meets(q, els)
  <2>1. ASSUME NEW e \in els PROVE \E i \in 1..Len(q) : q[i].label = e.label
    <3>1. PICK a \in 1..n : ps[a].label = e.label
      BY <1>9, <1>10, Zenon DEF Meets
    <3>2. ps[a] \in T
      BY <1>4, <3>1, Zenon
    <3>3. PICK i \in 1..Len(q) : q[i] = ps[a]
      BY <1>6, <3>2, Zenon
    <3> QED BY <3>1, <3>3, Zenon
  <2> QED BY <1>9, <2>1, Zenon DEF Meets
<1> QED BY <1>5, <1>7, <1>8, <1>9

\* An edit leaves the pastes whose element is left.
LEMMA EditKeepsPastes ==
    ASSUME Numbered, Matched, Carried(elements, elements') \/ undone', undone => undone',
           pending' = Prune(pending), issued' = issued, keys' = keys + 1, keys < MaxKeys,
           ComposerAssumption
    PROVE  Numbered' /\ Matched'
<1> DEFINE els == elements'
           q == pending'
           S == GivenOut(issued)
<1>1. q = Filtered(pending, {p \in Range(pending) : \E e \in els : e.label = p.label})
  BY Zenon DEF Prune
<1>2. pending \in Seq(S) /\ Apart(pending)
  BY DEF Numbered
<1>3. q \in Seq(S) /\ Apart(q) /\ Shown(q, els) /\ (Meets(pending, els) => Meets(q, els))
  <2> HIDE DEF els, q, S
  <2> QED BY <1>1, <1>2, PrunedIs
<1>4. ASSUME ~undone' PROVE Meets(pending, els)
  <2>1. ~undone /\ Carried(elements, elements')
    BY <1>4
  <2>2. Distinct(elements) /\ \A e \in elements : \E i \in 1..Len(pending) : pending[i].label = e.label
    BY <2>1, Zenon DEF Matched, Meets
  <2>3. Distinct(elements') /\ \A f \in elements' : \E e \in elements : f.label = e.label
    BY <2>1, <2>2, Zenon DEF Carried
  <2>4. ASSUME NEW f \in elements' PROVE \E i \in 1..Len(pending) : pending[i].label = f.label
    <3>1. PICK e \in elements : f.label = e.label
      BY <2>3
    <3>2. PICK i \in 1..Len(pending) : pending[i].label = e.label
      BY <2>2
    <3> QED BY <3>1, <3>2, Zenon
  <2> QED BY <2>3, <2>4, Zenon DEF Meets
<1>5. Matched'
  BY <1>3, <1>4, Zenon DEF Matched
<1>6. Numbered'
  <2>1. keys' \in Nat /\ keys' <= MaxKeys /\ \A s \in Sizes : issued'[s] <= keys'
    <3>1. keys \in Nat /\ MaxKeys \in Nat /\ issued \in [Sizes -> Nat] /\ \A s \in Sizes : issued[s] <= keys
      BY Zenon DEF Numbered, ComposerAssumption
    <3>2. \A s \in Sizes : issued[s] \in Nat
      BY <3>1
    <3>3. \A s \in Sizes : issued[s] <= keys + 1
      BY <3>1, <3>2, SMT
    <3> QED BY <3>1, <3>3
  <2>2. issued' \in [Sizes -> Nat]
    BY DEF Numbered
  <2>3. pending' \in Seq(GivenOut(issued')) /\ Apart(pending')
    BY <1>3
  <2> QED BY <2>1, <2>2, <2>3, Zenon DEF Numbered
<1> QED BY <1>5, <1>6

\* A paste adds a placeholder that was not given out before.
LEMMA PasteKeepsPastes ==
    ASSUME ComposerAssumption, NEW body \in Bodies, AreaTypes, Numbered, Matched, Paste(body)
    PROVE  Numbered' /\ Matched' /\ AreaTypes' /\ (AreaForm => AreaForm')
<1> DEFINE size == SizeOf[body]
           count == issued[size] + 1
           label == Placeholder(size, count)
           new == [label |-> label, body |-> body]
           ps == Append(pending, new)
           S == GivenOut(issued')
<1>1. /\ keys < MaxKeys /\ keys' = keys + 1 /\ undone' = undone
      /\ issued' = [issued EXCEPT ![size] = @ + 1]
      /\ InsertElement(label)
      /\ pending' = Prune(ps)
  BY Zenon DEF Paste, Key, Pressed, Steady
<1>2. size \in Sizes
  BY DEF Sizes
<1>3. /\ keys \in Nat /\ keys <= MaxKeys /\ MaxKeys \in Nat
      /\ issued \in [Sizes -> Nat] /\ \A s \in Sizes : issued[s] <= keys
      /\ pending \in Seq(GivenOut(issued)) /\ Apart(pending)
  BY Zenon DEF Numbered, ComposerAssumption
<1>4. issued[size] \in Nat /\ issued[size] <= keys
  BY <1>2, <1>3
<1>5. count \in 1..MaxKeys /\ count \in Nat /\ count <= keys + 1
  BY <1>1, <1>3, <1>4
<1> HIDE DEF size, count
<1>6. label \in Labels
  BY <1>2, <1>5 DEF Labels
<1>7. issued' \in [Sizes -> Nat] /\ issued'[size] = count /\ \A s \in Sizes : s # size => issued'[s] = issued[s]
  BY <1>1, <1>2, <1>3, <1>4 DEF count
<1> HIDE DEF label
<1>8. \A s \in Sizes : issued[s] \in Nat
  BY <1>3
<1>9. \A s \in Sizes : (issued[s] <= issued'[s]) /\ (issued'[s] <= keys + 1)
  <2> TAKE s \in Sizes
  <2>1. CASE s = size
    <3>1. issued'[s] = count /\ count = issued[s] + 1
      BY <1>7, <2>1 DEF count
    <3> QED BY <1>5, <1>8, <3>1, SMT
  <2>2. CASE s # size
    <3>1. issued'[s] = issued[s] /\ issued[s] \in Nat /\ issued[s] <= keys
      BY <1>3, <1>7, <1>8, <2>2
    <3> QED BY <1>3, <3>1, SMT
  <2> QED BY <2>1, <2>2
<1>10. GivenOut(issued) \subseteq S
  <2>1. \A s \in Sizes : 1..issued[s] \subseteq 1..issued'[s]
    <3> TAKE s \in Sizes
    <3>1. issued[s] \in Nat /\ issued'[s] \in Nat /\ issued[s] <= issued'[s]
      BY <1>7, <1>8, <1>9
    <3> QED BY <3>1, SMT
  <2> QED BY <2>1, Zenon DEF GivenOut
<1>11. new \in S
  <2>1. count \in 1..issued'[size]
    BY <1>5, <1>7
  <2>2. new \in [label : Labels, body : Bodies] /\ new.label = label
    BY <1>6
  <2> QED BY <1>2, <2>1, <2>2, Zenon DEF GivenOut, label
<1>12. \A p \in GivenOut(issued) : p.label # label
  <2> SUFFICES ASSUME NEW p \in GivenOut(issued), p.label = label PROVE FALSE
    OBVIOUS
  <2>0. PICK s \in Sizes : \E c \in 1..issued[s] : p.label = Placeholder(s, c)
    BY Zenon DEF GivenOut
  <2>1. PICK c \in 1..issued[s] : p.label = Placeholder(s, c)
    BY <2>0, Zenon
  <2>2. c \in 1..MaxKeys /\ c <= issued[s]
    <3>1. issued[s] \in Nat /\ issued[s] <= keys
      BY <1>3, <1>8
    <3> QED BY <1>3, <3>1, SMT
  <2>3. Placeholder(s, c) = Placeholder(size, count)
    BY <2>1 DEF label
  <2>4. s = size /\ c = count
    BY <1>2, <1>5, <2>2, <2>3, LabelsDiffer
  <2>5. count = issued[size] + 1
    BY DEF count
  <2> QED BY <1>4, <2>2, <2>4, <2>5
<1>13. \A i \in 1..Len(pending) : pending[i].label # label
  <2>1. \A i \in 1..Len(pending) : pending[i] \in GivenOut(issued)
    BY <1>3
  <2> QED BY <1>12, <2>1, Zenon
<1> HIDE DEF S
<1>14. pending \in Seq(S)
  <2>1. \A i \in 1..Len(pending) : pending[i] \in S
    BY <1>3, <1>10
  <2> QED BY <1>3, <2>1
<1>15. new.label = label
  OBVIOUS
<1> HIDE DEF new
<1>16. /\ ps \in Seq(S) /\ Len(ps) = Len(pending) + 1 /\ ps[Len(pending) + 1] = new /\ Len(pending) \in Nat
       /\ \A i \in 1..Len(pending) : ps[i] = pending[i]
  BY <1>11, <1>14
<1>17. \A i \in 1..(Len(pending) + 1) : i \in 1..Len(pending) \/ i = Len(pending) + 1
  BY <1>16, SMT
<1> HIDE DEF ps
<1>18. Apart(ps)
  <2> SUFFICES ASSUME NEW i \in 1..Len(ps), NEW j \in 1..Len(ps), ps[i].label = ps[j].label PROVE i = j
    BY Zenon DEF Apart
  <2>1. CASE i \in 1..Len(pending) /\ j \in 1..Len(pending)
    BY <1>3, <1>16, <2>1, Zenon DEF Apart
  <2>2. CASE i \in 1..Len(pending) /\ j = Len(pending) + 1
    BY <1>13, <1>15, <1>16, <2>2, Zenon
  <2>3. CASE i = Len(pending) + 1 /\ j \in 1..Len(pending)
    BY <1>13, <1>15, <1>16, <2>3, Zenon
  <2> QED BY <1>16, <1>17, <2>1, <2>2, <2>3, Zenon
<1>19. /\ AreaTypes' /\ (AreaForm => AreaForm')
       /\ \A f \in elements' : f.label = label \/ \E e \in elements : f.label = e.label
       /\ Distinct(elements) /\ (\A e \in elements : e.label # label) => Distinct(elements')
  BY <1>1, <1>6, InsertElementDoes
<1>20. ASSUME ~undone' PROVE Meets(ps, elements')
  <2>1. Distinct(elements) /\ \A e \in elements : \E i \in 1..Len(pending) : pending[i].label = e.label
    BY <1>1, <1>20, Zenon DEF Matched, Meets
  <2>2. \A e \in elements : e.label # label
    BY <1>13, <2>1, Zenon
  <2>3. Distinct(elements')
    BY <1>19, <2>1, <2>2
  <2>4. 1..Len(pending) \subseteq 1..Len(ps) /\ Len(pending) + 1 \in 1..Len(ps)
    BY <1>16, SMT
  <2>5. \A e \in elements : \E i \in 1..Len(ps) : ps[i].label = e.label
    BY <1>16, <2>1, <2>4, Zenon
  <2>6. \E i \in 1..Len(ps) : ps[i].label = label
    BY <1>15, <1>16, <2>4, Zenon
  <2>7. \A f \in elements' : \E i \in 1..Len(ps) : ps[i].label = f.label
    <3> TAKE f \in elements'
    <3>1. CASE f.label = label
      BY <2>6, <3>1, Zenon
    <3>2. CASE \E e \in elements : f.label = e.label
      BY <2>5, <3>2, Zenon
    <3> QED BY <1>19, <3>1, <3>2
  <2> QED BY <2>3, <2>7, Zenon DEF Meets
<1> DEFINE els == elements'
           q == pending'
<1>21. q = Filtered(ps, {p \in Range(ps) : \E e \in els : e.label = p.label})
  BY <1>1, Zenon DEF Prune
<1>22. q \in Seq(S) /\ Apart(q) /\ Shown(q, els) /\ (Meets(ps, els) => Meets(q, els))
  <2> HIDE DEF els, q
  <2> QED BY <1>16, <1>18, <1>21, PrunedIs
<1>23. Matched'
  BY <1>20, <1>22, Zenon DEF Matched
<1>24. Numbered'
  <2>1. keys' \in Nat /\ keys' <= MaxKeys /\ \A s \in Sizes : issued'[s] <= keys'
    <3>1. keys + 1 \in Nat /\ keys + 1 <= MaxKeys
      BY <1>1, <1>3
    <3> QED BY <1>1, <1>9, <3>1
  <2>2. pending' \in Seq(GivenOut(issued')) /\ Apart(pending')
    BY <1>22 DEF S
  <2> QED BY <1>7, <2>1, <2>2, Zenon DEF Numbered
<1> QED BY <1>19, <1>23, <1>24

-----------------------------------------------------------------------------
(* The inductive invariant.                                                *)

Past == entries \in Seq(Seq(Cells)) /\ index \in 0..Len(entries) /\ draft \in Seq(Cells)
ComposerInv ==
    /\ AreaTypes /\ (~strayed => AreaForm)
    /\ Numbered /\ Matched
    /\ Offering(completion)
    /\ Past
    /\ strayed \in BOOLEAN /\ undone \in BOOLEAN

LEMMA ComposerStarts == ComposerAssumption /\ ComposerInit => ComposerInv
<1> SUFFICES ASSUME ComposerAssumption, ComposerInit PROVE ComposerInv
  OBVIOUS
<1>1. /\ text = <<>> /\ cursor = 0 /\ elements = {} /\ kill = <<>>
      /\ undos = <<>> /\ redos = <<>> /\ column = NoColumn
      /\ pending = <<>> /\ issued = Unissued /\ completion = <<>>
      /\ strayed = FALSE /\ undone = FALSE
      /\ entries = <<>> /\ index = 0 /\ draft = <<>> /\ keys = 0
  BY Zenon DEF ComposerInit
<1>2. /\ \A S : <<>> \in Seq(S)
      /\ Len(<<>>) = 0 /\ 0 \in Nat /\ 0 <= 0 /\ 0 \in 0..0 /\ 1..0 = {}
  BY SMT
<1>3. AreaTypes
  <2>1. Reaches({}) /\ {} \subseteq Spans
    BY DEF Reaches
  <2>2. column \in Nat \cup {NoColumn}
    BY <1>1
  <2> QED BY <1>1, <1>2, <2>1, <2>2, Zenon DEF AreaTypes
<1>4. AreaForm
  <2>1. Placed(<<>>, {}) /\ Between({}, 0)
    BY Zenon DEF Placed, Between
  <2> QED BY <1>1, <1>2, <2>1, Zenon DEF AreaForm, InForm
<1>5. Numbered
  <2>1. issued \in [Sizes -> Nat] /\ \A s \in Sizes : issued[s] <= keys
    <3>1. Unissued = [s \in Sizes |-> 0]
      BY DEF Unissued, Sizes
    <3> QED BY <1>1, <3>1
  <2>2. MaxKeys \in Nat
    BY Zenon DEF ComposerAssumption
  <2>3. keys \in Nat /\ keys <= MaxKeys
    BY <1>1, <2>2
  <2>4. Apart(<<>>)
    BY <1>2, Zenon DEF Apart
  <2> QED BY <1>1, <1>2, <2>1, <2>3, <2>4, Zenon DEF Numbered
<1>6. Matched
  <2>1. Shown(<<>>, {}) /\ Meets(<<>>, {})
    BY <1>2, Zenon DEF Shown, Meets, Distinct
  <2> QED BY <1>1, <2>1, Zenon DEF Matched
<1>7. Past
  BY <1>1, <1>2, Zenon DEF Past
<1>8. Offering(completion)
  BY <1>1, Zenon DEF Offering
<1>9. strayed \in BOOLEAN /\ undone \in BOOLEAN
  BY <1>1
<1> QED BY <1>3, <1>4, <1>5, <1>6, <1>7, <1>8, <1>9, Zenon DEF ComposerInv

\* An edit, told by what it does to the area.
LEMMA EditKeeps ==
    ASSUME ComposerAssumption, ComposerInv, Key, Edited, AreaTypes', ~strayed' => AreaForm',
           Carried(elements, elements') \/ undone', undone => undone',
           strayed' \in BOOLEAN, undone' \in BOOLEAN
    PROVE  ComposerInv'
<1>1. /\ keys < MaxKeys /\ keys' = keys + 1 /\ entries' = entries /\ pending' = Prune(pending)
      /\ completion' = <<>> /\ issued' = issued /\ index' = index /\ draft' = draft
  BY DEF Key, Edited, Pressed
<1>2. Numbered /\ Matched /\ Past
  BY DEF ComposerInv
<1>3. Numbered' /\ Matched'
  BY <1>1, <1>2, EditKeepsPastes
<1>4. Past' /\ Offering(completion')
  BY <1>1, <1>2, Zenon DEF Past, Offering
<1> QED BY <1>3, <1>4, Zenon DEF ComposerInv

LEMMA SteadyKeeps ==
    ASSUME ComposerAssumption, ComposerInv, Key, Edited, Steady, AreaTypes', AreaForm => AreaForm',
           Carried(elements, elements')
    PROVE  ComposerInv'
<1>1. strayed' = strayed /\ undone' = undone
  BY DEF Steady
<1>2. strayed \in BOOLEAN /\ undone \in BOOLEAN /\ (~strayed => AreaForm)
  BY DEF ComposerInv
<1> QED BY <1>1, <1>2, EditKeeps

LEMMA InsertKept == ASSUME ComposerAssumption, ComposerInv, NEW v \in Shorts, Insert(v) PROVE ComposerInv'
<1>1. v \in Seq(Cells)
  BY Zenon DEF ComposerAssumption
<1>2. Key /\ InsertText(v) /\ Edited /\ Steady
  BY DEF Insert
<1>3. AreaTypes
  BY DEF ComposerInv
<1> QED BY <1>1, <1>2, <1>3, InsertTextDoes, SteadyKeeps

LEMMA YankKept == ASSUME ComposerAssumption, ComposerInv, Yank PROVE ComposerInv'
<1>2. Key /\ InsertText(kill) /\ Edited /\ Steady
  BY DEF Yank
<1>3. AreaTypes
  BY DEF ComposerInv
<1>1. kill \in Seq(Cells)
  BY <1>3 DEF AreaTypes
<1> QED BY <1>1, <1>2, <1>3, InsertTextDoes, SteadyKeeps

LEMMA PasteKept == ASSUME ComposerAssumption, ComposerInv, NEW b \in Bodies, Paste(b) PROVE ComposerInv'
<1>1. /\ AreaTypes /\ Numbered /\ Matched /\ Past /\ strayed \in BOOLEAN /\ undone \in BOOLEAN
      /\ (~strayed => AreaForm)
  BY DEF ComposerInv
<1>2. Numbered' /\ Matched' /\ AreaTypes' /\ (AreaForm => AreaForm')
  BY <1>1, PasteKeepsPastes
<1>3. /\ strayed' = strayed /\ undone' = undone /\ completion' = <<>> /\ entries' = entries
      /\ index' = index /\ draft' = draft
  BY DEF Paste, Steady, Pressed
<1>4. Past' /\ Offering(completion')
  BY <1>1, <1>3, Zenon DEF Past, Offering
<1> QED BY <1>1, <1>2, <1>3, <1>4, Zenon DEF ComposerInv

LEMMA SameArea ==
    ASSUME AreaTypes, UNCHANGED area
    PROVE  AreaTypes' /\ (AreaForm => AreaForm') /\ Carried(elements, elements')
<1>1. /\ text' = text /\ cursor' = cursor /\ elements' = elements /\ kill' = kill
      /\ undos' = undos /\ redos' = redos /\ column' = column
  BY DEF area
<1>2. AreaTypes' /\ (AreaForm => AreaForm')
  BY <1>1, Zenon DEF AreaTypes, AreaForm
<1> QED BY <1>1, <1>2, SameCarried, Zenon

LEMMA ElementDeleted ==
    ASSUME ComposerAssumption, AreaTypes, NEW near, near \subseteq elements, near # {}, kill' = kill,
           DeleteRange(Leftmost(near).from, Leftmost(near).to)
    PROVE  AreaTypes' /\ (AreaForm => AreaForm') /\ Carried(elements, elements')
<1>1. elements \subseteq Spans /\ kill \in Seq(Cells)
  BY DEF AreaTypes
<1> DEFINE e == Leftmost(near)
<1>2. e \in near
  BY <1>1, LeftmostIs
<1> HIDE DEF e
<1>3. e \in Spans
  BY <1>1, <1>2
<1>4. e.from \in Nat /\ e.to \in Nat /\ e.from < e.to
  BY <1>3, SpanIs
<1>5. e.from <= e.to
  BY <1>4, SMT
<1>6. DeleteRange(e.from, e.to)
  BY DEF e
<1>7. kill' \in Seq(Cells)
  BY <1>1
<1> QED BY <1>4, <1>5, <1>6, <1>7, DeleteRangeDoes

LEMMA DeleteForwardDoes ==
    ASSUME ComposerAssumption, AreaTypes, DeleteForward
    PROVE  AreaTypes' /\ (AreaForm => AreaForm') /\ Carried(elements, elements')
<1> DEFINE near == Containing(elements, cursor)
<1>1. kill' = kill /\ IF near # {} THEN DeleteRange(Leftmost(near).from, Leftmost(near).to)
                                   ELSE DeleteRange(cursor, cursor + 1)
  BY DEF DeleteForward
<1>2. near \subseteq elements
  BY DEF Containing
<1> HIDE DEF near
<1>3. CASE near # {}
  BY <1>1, <1>2, <1>3, ElementDeleted
<1>4. CASE near = {}
  <2>1. cursor \in Nat /\ cursor + 1 \in Nat /\ cursor <= cursor + 1 /\ kill \in Seq(Cells)
    BY DEF AreaTypes
  <2>2. DeleteRange(cursor, cursor + 1) /\ kill' \in Seq(Cells)
    BY <1>1, <1>4, <2>1
  <2> QED BY <2>1, <2>2, DeleteRangeDoes
<1> QED BY <1>3, <1>4

LEMMA DeleteBackwardDoes ==
    ASSUME ComposerAssumption, AreaTypes, cursor > 0, DeleteBackward
    PROVE  AreaTypes' /\ (AreaForm => AreaForm') /\ Carried(elements, elements')
<1> DEFINE ending == {e \in elements : e.to = cursor}
           near == IF ending # {} THEN ending ELSE Containing(elements, cursor - 1)
<1>1. kill' = kill /\ IF near # {} THEN DeleteRange(Leftmost(near).from, Leftmost(near).to)
                                   ELSE DeleteRange(cursor - 1, cursor)
  BY DEF DeleteBackward
<1>2. near \subseteq elements
  BY DEF Containing
<1> HIDE DEF near
<1>3. CASE near # {}
  BY <1>1, <1>2, <1>3, ElementDeleted
<1>4. CASE near = {}
  <2>1. cursor \in Nat /\ cursor - 1 \in Nat /\ cursor - 1 <= cursor /\ kill \in Seq(Cells)
    BY DEF AreaTypes
  <2>2. DeleteRange(cursor - 1, cursor) /\ kill' \in Seq(Cells)
    BY <1>1, <1>4, <2>1
  <2> QED BY <2>1, <2>2, DeleteRangeDoes
<1> QED BY <1>3, <1>4

LEMMA BackspaceKept == ASSUME ComposerAssumption, ComposerInv, Backspace PROVE ComposerInv'
<1>1. Key /\ cursor > 0 /\ DeleteBackward /\ Edited /\ Steady
  BY DEF Backspace
<1>2. AreaTypes
  BY DEF ComposerInv
<1> QED BY <1>1, <1>2, DeleteBackwardDoes, SteadyKeeps

LEMMA DeleteKept == ASSUME ComposerAssumption, ComposerInv, Delete PROVE ComposerInv'
<1>1. Key /\ DeleteForward /\ Edited /\ Steady
  BY DEF Delete
<1>2. AreaTypes
  BY DEF ComposerInv
<1> QED BY <1>1, <1>2, DeleteForwardDoes, SteadyKeeps

LEMMA DismissKept == ASSUME ComposerAssumption, ComposerInv, Dismiss PROVE ComposerInv'
<1>1. Key /\ UNCHANGED area /\ Edited /\ Steady
  BY DEF Dismiss
<1>2. AreaTypes
  BY DEF ComposerInv
<1> QED BY <1>1, <1>2, SameArea, SteadyKeeps

LEMMA DeleteOrEofKept == ASSUME ComposerAssumption, ComposerInv, DeleteOrEof PROVE ComposerInv'
<1>1. /\ AreaTypes /\ Numbered /\ Matched /\ Past /\ strayed \in BOOLEAN /\ undone \in BOOLEAN
      /\ (~strayed => AreaForm) /\ Offering(completion)
  BY DEF ComposerInv
<1>2. /\ keys < MaxKeys /\ issued' = issued /\ index' = index /\ draft' = draft /\ completion' = completion
      /\ strayed' = strayed /\ undone' = undone /\ keys' = keys + 1 /\ entries' = entries
  BY DEF DeleteOrEof, Key, Steady, Pressed
<1>3. \/ UNCHANGED area /\ pending' = pending
      \/ UNCHANGED area /\ pending' = Prune(pending)
      \/ DeleteForward /\ pending' = Prune(pending)
  BY DEF DeleteOrEof
<1>4. AreaTypes' /\ (AreaForm => AreaForm') /\ Carried(elements, elements')
  BY <1>1, <1>3, SameArea, DeleteForwardDoes
<1>5. Past' /\ Offering(completion')
  BY <1>1, <1>2, Zenon DEF Past
<1>6. Numbered' /\ Matched'
  <2>1. CASE pending' = Prune(pending)
    BY <1>1, <1>2, <1>4, <2>1, EditKeepsPastes
  <2>2. CASE UNCHANGED area /\ pending' = pending
    <3>1. elements' = elements
      BY <2>2 DEF area
    <3>2. Matched'
      BY <1>1, <1>2, <2>2, <3>1, Zenon DEF Matched
    <3>3. keys \in Nat /\ MaxKeys \in Nat /\ issued \in [Sizes -> Nat] /\ \A s \in Sizes : issued[s] <= keys
      BY <1>1, Zenon DEF Numbered, ComposerAssumption
    <3>4. \A s \in Sizes : issued[s] \in Nat
      BY <3>3
    <3>5. keys' \in Nat /\ keys' <= MaxKeys /\ \A s \in Sizes : issued[s] <= keys'
      <4>1. \A s \in Sizes : issued[s] <= keys + 1
        BY <3>3, <3>4, SMT
      <4>2. keys + 1 \in Nat /\ keys + 1 <= MaxKeys
        BY <1>2, <3>3
      <4> QED BY <1>2, <4>1, <4>2
    <3>6. Numbered'
      BY <1>1, <1>2, <2>2, <3>5, Zenon DEF Numbered
    <3> QED BY <3>2, <3>6
  <2> QED BY <1>3, <2>1, <2>2
<1> QED BY <1>1, <1>2, <1>4, <1>5, <1>6, Zenon DEF ComposerInv

\* A move to a place that no element of a sound area contains.
LEMMA SteadyMove ==
    ASSUME ComposerAssumption, ComposerInv, Key, Edited, Steady, NEW n \in Nat, MoveTo(n, NoColumn),
           InForm(text, cursor, elements) => n <= Len(text) /\ Between(elements, n)
    PROVE  ComposerInv'
<1>1. AreaTypes
  BY DEF ComposerInv
<1>2. NoColumn \in Nat \cup {NoColumn}
  OBVIOUS
<1>3. /\ AreaTypes' /\ (AreaForm /\ n <= Len(text) /\ Between(elements, n) => AreaForm')
      /\ Carried(elements, elements')
  BY <1>1, <1>2, MoveDoes
<1>4. AreaForm => InForm(text, cursor, elements)
  BY DEF AreaForm
<1> QED BY <1>3, <1>4, SteadyKeeps

LEMMA LeftKept == ASSUME ComposerAssumption, ComposerInv, Left PROVE ComposerInv'
<1>1. Key /\ MoveTo(Back, NoColumn) /\ Edited /\ Steady
  BY DEF Left
<1>2. AreaTypes
  BY DEF ComposerInv
<1> QED BY <1>1, <1>2, BackIs, SteadyMove

LEMMA RightKept == ASSUME ComposerAssumption, ComposerInv, Right PROVE ComposerInv'
<1>1. Key /\ MoveTo(On, NoColumn) /\ Edited /\ Steady
  BY DEF Right
<1>2. AreaTypes
  BY DEF ComposerInv
<1> QED BY <1>1, <1>2, OnIs, SteadyMove

LEMMA HomeKept == ASSUME ComposerAssumption, ComposerInv, Home PROVE ComposerInv'
<1> DEFINE n == LineStart(cursor)
<1>1. Key /\ MoveTo(n, NoColumn) /\ Edited /\ Steady
  BY DEF Home
<1>2. AreaTypes
  BY DEF ComposerInv
<1>3. cursor \in Nat
  BY <1>2 DEF AreaTypes
<1>4. n \in Nat /\ n \in Starts
  BY <1>2, <1>3, LineStartIs
<1>5. n <= Len(text)
  BY <1>2, <1>4, StartsAre
<1> HIDE DEF n
<1>6. InForm(text, cursor, elements) => Between(elements, n)
  BY <1>2, <1>4, BreaksBetween
<1> QED BY <1>1, <1>4, <1>5, <1>6, SteadyMove

LEMMA EndKept == ASSUME ComposerAssumption, ComposerInv, End PROVE ComposerInv'
<1> DEFINE n == LineEnd(cursor)
<1>1. Key /\ MoveTo(n, NoColumn) /\ Edited /\ Steady
  BY DEF End
<1>2. AreaTypes
  BY DEF ComposerInv
<1>3. cursor \in Nat
  BY <1>2 DEF AreaTypes
<1>4. n \in Nat /\ n <= Len(text) /\ (n = Len(text) \/ (n + 1 \in 1..Len(text) /\ text[n + 1] = NL))
  BY <1>2, <1>3, LineEndIs
<1> HIDE DEF n
<1>6. InForm(text, cursor, elements) => Between(elements, n)
  BY <1>2, <1>4, BreaksBetween
<1> QED BY <1>1, <1>4, <1>6, SteadyMove

\* A move that is remembered when it strays.
LEMMA StrayingMove ==
    ASSUME ComposerAssumption, ComposerInv, Key, Edited, Strayed, UNCHANGED undone,
           NEW n \in Nat, NEW col \in Nat \cup {NoColumn}, MoveTo(n, col)
    PROVE  ComposerInv'
<1>1. AreaTypes /\ strayed \in BOOLEAN /\ undone \in BOOLEAN /\ (~strayed => AreaForm)
  BY DEF ComposerInv
<1>2. /\ AreaTypes' /\ (AreaForm /\ n <= Len(text) /\ Between(elements, n) => AreaForm')
      /\ Carried(elements, elements')
  BY <1>1, MoveDoes
<1>3. cursor' = n /\ text' = text /\ elements' = elements
  BY DEF MoveTo
<1>4. strayed' = (strayed \/ (cursor' > Len(text') \/ \E e \in elements' : e.from < cursor' /\ cursor' < e.to))
  BY Zenon DEF Strayed, Stray
<1>5. ASSUME ~strayed' PROVE AreaForm'
  <2>1. ~strayed /\ ~(n > Len(text)) /\ \A e \in elements : ~(e.from < n /\ n < e.to)
    BY <1>3, <1>4, <1>5
  <2>2. Len(text) \in Nat /\ elements \subseteq Spans
    BY <1>1 DEF AreaTypes
  <2>3. n <= Len(text)
    BY <2>1, <2>2
  <2>4. \A e \in elements : e.from \in Nat /\ e.to \in Nat
    BY <2>2, SpanIs
  <2>5. \A e \in elements : n <= e.from \/ e.to <= n
    BY <2>1, <2>4, SMT
  <2> QED BY <1>1, <1>2, <2>1, <2>3, <2>5, Zenon DEF Between
<1>6. strayed' \in BOOLEAN /\ undone' = undone
  BY <1>4
<1> QED BY <1>1, <1>2, <1>5, <1>6, EditKeeps

LEMMA WordLeftKept == ASSUME ComposerAssumption, ComposerInv, WordLeft PROVE ComposerInv'
<1>1. Key /\ MoveTo(PreviousWord, NoColumn) /\ Edited /\ Strayed /\ UNCHANGED undone
  BY DEF WordLeft
<1>2. AreaTypes
  BY DEF ComposerInv
<1>3. PreviousWord \in Nat
  BY <1>2, PreviousWordIs
<1> QED BY <1>1, <1>3, StrayingMove

LEMMA WordRightKept == ASSUME ComposerAssumption, ComposerInv, WordRight PROVE ComposerInv'
<1>1. Key /\ MoveTo(NextWord, NoColumn) /\ Edited /\ Strayed /\ UNCHANGED undone
  BY DEF WordRight
<1>2. AreaTypes
  BY DEF ComposerInv
<1>3. NextWord \in Nat
  BY <1>2, NextWordIs
<1> QED BY <1>1, <1>3, StrayingMove

LEMMA VerticalKept ==
    ASSUME ComposerAssumption, ComposerInv, Key, NEW start \in Nat, Vertical(start)
    PROVE  ComposerInv'
<1> DEFINE n == Min({start + Wanted, LineEnd(start)})
<1>1. MoveTo(n, Wanted) /\ Edited /\ Strayed /\ UNCHANGED undone
  BY DEF Vertical
<1>2. AreaTypes
  BY DEF ComposerInv
<1>3. n \in Nat
  BY <1>2, VerticalIs
<1> HIDE DEF n
<1>4. Wanted \in Nat \cup {NoColumn}
  BY <1>2, RowIs
<1> QED BY <1>1, <1>3, <1>4, StrayingMove

LEMMA SteadyKill ==
    ASSUME ComposerAssumption, ComposerInv, Key, Edited, Steady, NEW a \in Nat, NEW b \in Nat, KillRange(a, b),
           InForm(text, cursor, elements) => a <= b
    PROVE  ComposerInv'
<1> DEFINE n == Min({b, Len(text)})
<1>1. kill' = SubSeq(text, a + 1, n) /\ DeleteRange(a, b)
  BY DEF KillRange
<1>2. AreaTypes
  BY DEF ComposerInv
<1>3. text \in Seq(Cells) /\ Len(text) \in Nat
  BY <1>2 DEF AreaTypes
<1>4. n \in Nat /\ n <= Len(text)
  <2>1. b \in Int /\ Len(text) \in Int
    BY <1>3
  <2>2. n = IF b <= Len(text) THEN b ELSE Len(text)
    BY <2>1, LesserIs, Zenon
  <2> HIDE DEF n
  <2> QED BY <1>3, <2>2
<1> HIDE DEF n
<1>5. kill' \in Seq(Cells)
  <2> DEFINE m == a + 1
  <2>1. m \in Nat /\ 1 <= m
    OBVIOUS
  <2> HIDE DEF m
  <2>2. SubSeq(text, m, n) \in Seq(Cells)
    BY <1>3, <1>4, <2>1, SMT
  <2> QED BY <1>1, <2>2 DEF m
<1>6. AreaTypes' /\ (AreaForm /\ a <= b => AreaForm') /\ Carried(elements, elements')
  BY <1>1, <1>2, <1>5, DeleteRangeDoes
<1>7. AreaForm => InForm(text, cursor, elements)
  BY DEF AreaForm
<1> QED BY <1>6, <1>7, SteadyKeeps

LEMMA KillStartKept == ASSUME ComposerAssumption, ComposerInv, KillStart PROVE ComposerInv'
<1> DEFINE n == LineStart(cursor)
<1>1. Key /\ KillRange(n, cursor) /\ Edited /\ Steady
  BY DEF KillStart
<1>2. AreaTypes
  BY DEF ComposerInv
<1>3. cursor \in Nat
  BY <1>2 DEF AreaTypes
<1>4. n \in Nat /\ n <= cursor
  BY <1>2, <1>3, LineStartIs
<1> HIDE DEF n
<1> QED BY <1>1, <1>3, <1>4, SteadyKill

LEMMA KillEndKept == ASSUME ComposerAssumption, ComposerInv, KillEnd PROVE ComposerInv'
<1> DEFINE end == LineEnd(cursor)
           upto == IF end = cursor /\ end < Len(text) THEN end + 1 ELSE end
<1>1. Key /\ KillRange(cursor, upto) /\ Edited /\ Steady
  BY DEF KillEnd
<1>2. AreaTypes
  BY DEF ComposerInv
<1>3. cursor \in Nat
  BY <1>2 DEF AreaTypes
<1>4. end \in Nat /\ (cursor <= Len(text) => cursor <= end)
  BY <1>2, <1>3, LineEndIs
<1> HIDE DEF end
<1>5. upto \in Nat /\ (cursor <= Len(text) => cursor <= upto)
  BY <1>3, <1>4
<1> HIDE DEF upto
<1>6. InForm(text, cursor, elements) => cursor <= Len(text)
  BY Zenon DEF InForm
<1> QED BY <1>1, <1>3, <1>5, <1>6, SteadyKill

LEMMA KillWordKept == ASSUME ComposerAssumption, ComposerInv, KillWord PROVE ComposerInv'
<1>1. Key /\ KillRange(PreviousWord, cursor) /\ Edited /\ Steady
  BY DEF KillWord
<1>2. AreaTypes
  BY DEF ComposerInv
<1>3. cursor \in Nat
  BY <1>2 DEF AreaTypes
<1>4. PreviousWord \in Nat /\ PreviousWord <= cursor
  BY <1>2, PreviousWordIs
<1> QED BY <1>1, <1>3, <1>4, SteadyKill

LEMMA LastAndFront ==
    ASSUME NEW S, NEW s \in Seq(S), s # <<>>
    PROVE  Last(s) \in S /\ Front(s) \in Seq(S)
<1>1. Len(s) \in Nat /\ Len(s) >= 1 /\ \A i \in 1..Len(s) : s[i] \in S
  OBVIOUS
<1>2. s[Len(s)] \in S /\ SubSeq(s, 1, Len(s) - 1) \in Seq(S)
  BY <1>1, SMT
<1> QED BY <1>2, Zenon DEF Last, Front

LEMMA UndoKept == ASSUME ComposerAssumption, ComposerInv, Undo PROVE ComposerInv'
<1> DEFINE s == Last(undos)
           past == Front(undos)
           future == Append(redos, Snapshot)
<1>1. /\ Key /\ undos # <<>> /\ Restore(s, past, future) /\ Edited /\ undone' = TRUE
      /\ strayed' = strayed
  BY DEF Undo
<1>2. AreaTypes /\ strayed \in BOOLEAN /\ (~strayed => AreaForm)
  BY DEF ComposerInv
<1>3. undos \in Seq(Snapshots) /\ redos \in Seq(Snapshots)
  BY <1>2 DEF AreaTypes
<1>4. Snapshot \in Snapshots /\ (AreaForm => Snapshot \in Sounds)
  BY <1>2, SnapshotIs
<1>5. s \in Snapshots /\ past \in Seq(Snapshots)
  BY <1>1, <1>3, LastAndFront
<1>6. future \in Seq(Snapshots)
  BY <1>3, <1>4
<1>7. AreaForm => s \in Sounds /\ past \in Seq(Sounds) /\ future \in Seq(Sounds)
  <2> HAVE AreaForm
  <2>1. undos \in Seq(Sounds) /\ redos \in Seq(Sounds)
    BY DEF AreaForm
  <2>2. s \in Sounds /\ past \in Seq(Sounds)
    BY <1>1, <2>1, LastAndFront
  <2>3. future \in Seq(Sounds)
    BY <1>4, <2>1
  <2> QED BY <2>2, <2>3
<1> HIDE DEF s, past, future
<1>8. AreaTypes' /\ (AreaForm => AreaForm')
  BY <1>1, <1>2, <1>5, <1>6, <1>7, RestoreDoes
<1> QED BY <1>1, <1>2, <1>8, EditKeeps

LEMMA RedoKept == ASSUME ComposerAssumption, ComposerInv, Redo PROVE ComposerInv'
<1> DEFINE s == Last(redos)
           past == Append(undos, Snapshot)
           future == Front(redos)
<1>1. /\ Key /\ redos # <<>> /\ Restore(s, past, future) /\ Edited /\ undone' = TRUE
      /\ strayed' = strayed
  BY DEF Redo
<1>2. AreaTypes /\ strayed \in BOOLEAN /\ (~strayed => AreaForm)
  BY DEF ComposerInv
<1>3. undos \in Seq(Snapshots) /\ redos \in Seq(Snapshots)
  BY <1>2 DEF AreaTypes
<1>4. Snapshot \in Snapshots /\ (AreaForm => Snapshot \in Sounds)
  BY <1>2, SnapshotIs
<1>5. s \in Snapshots /\ future \in Seq(Snapshots)
  BY <1>1, <1>3, LastAndFront
<1>6. past \in Seq(Snapshots)
  BY <1>3, <1>4
<1>7. AreaForm => s \in Sounds /\ past \in Seq(Sounds) /\ future \in Seq(Sounds)
  <2> HAVE AreaForm
  <2>1. undos \in Seq(Sounds) /\ redos \in Seq(Sounds)
    BY DEF AreaForm
  <2>2. s \in Sounds /\ future \in Seq(Sounds)
    BY <1>1, <2>1, LastAndFront
  <2>3. past \in Seq(Sounds)
    BY <1>4, <2>1
  <2> QED BY <2>2, <2>3
<1> HIDE DEF s, past, future
<1>8. AreaTypes' /\ (AreaForm => AreaForm')
  BY <1>1, <1>2, <1>5, <1>6, <1>7, RestoreDoes
<1> QED BY <1>1, <1>2, <1>8, EditKeeps

\* A candidate or an entry of the history in the place of the text.
LEMMA TextSet ==
    ASSUME ComposerAssumption, ComposerInv, Key, Pressed, issued' = issued, AreaTypes',
           Carried(elements, elements'), Offering(completion'), pending' = Prune(pending), undone' = undone,
           ~strayed' => ~strayed /\ (AreaForm => AreaForm'), strayed' \in BOOLEAN, Past'
    PROVE  ComposerInv'
<1>1. keys < MaxKeys /\ keys' = keys + 1
  BY DEF Key, Pressed
<1>2. Numbered /\ Matched /\ undone \in BOOLEAN /\ (~strayed => AreaForm)
  BY DEF ComposerInv
<1>3. Numbered' /\ Matched'
  BY <1>1, <1>2, EditKeepsPastes
<1> QED BY <1>2, <1>3, Zenon DEF ComposerInv

LEMMA CandidateKept ==
    ASSUME ComposerAssumption, ComposerInv, Key, Pressed, NEW c \in Offers, InsertCandidate(c),
           UNCHANGED <<issued, index, draft>>
    PROVE  ComposerInv'
<1>1. AreaTypes /\ strayed \in BOOLEAN /\ Past
  BY DEF ComposerInv
<1>2. /\ AreaTypes' /\ Carried(elements, elements') /\ Offering(completion')
      /\ pending' = Prune(pending) /\ undone' = undone
      /\ ~strayed' => ~strayed /\ (AreaForm => AreaForm')
  BY <1>1, InsertCandidateDoes
<1>3. Past'
  <2>1. entries' = entries /\ index' = index /\ draft' = draft
    BY DEF Pressed
  <2> QED BY <1>1, <2>1, Zenon DEF Past
<1>4. strayed' \in BOOLEAN
  <2>1. \E b : strayed' = (strayed \/ b)
    BY Zenon DEF InsertCandidate, Strayed, Stray
  <2> QED BY <2>1
<1> QED BY <1>2, <1>3, <1>4, TextSet

LEMMA OfferingIs == ASSUME NEW o, Offering(o), o # <<>> PROVE o[1] \in Offers
BY DEF Offering

LEMMA TabKept == ASSUME ComposerAssumption, ComposerInv, Tab PROVE ComposerInv'
<1>1. /\ Key /\ Pressed /\ UNCHANGED <<issued, index, draft>>
      /\ \/ completion # <<>> /\ InsertCandidate(Turned(completion[1], 1))
         \/ Offered # <<>> /\ InsertCandidate(Offered[1])
  BY Zenon DEF Tab
<1>2. AreaTypes /\ Offering(completion)
  BY DEF ComposerInv
<1>3. Offering(Offered)
  BY <1>2, OfferedIs
<1>4. CASE completion # <<>> /\ InsertCandidate(Turned(completion[1], 1))
  <2>1. completion[1] \in Offers /\ 1 \in {1, -1}
    BY <1>2, <1>4, OfferingIs
  <2>2. Turned(completion[1], 1) \in Offers
    BY <2>1, TurnedIs
  <2> QED BY <1>1, <1>4, <2>2, CandidateKept
<1>5. CASE Offered # <<>> /\ InsertCandidate(Offered[1])
  <2>1. Offered[1] \in Offers
    BY <1>3, <1>5, OfferingIs
  <2> QED BY <1>1, <1>5, <2>1, CandidateKept
<1> QED BY <1>1, <1>4, <1>5

LEMMA NavigateKept == ASSUME ComposerAssumption, ComposerInv, NEW by \in {1, -1}, Navigate(by) PROVE ComposerInv'
<1> DEFINE c == Offered[1]
           offer == [c EXCEPT !.at = IF by > 0 THEN 1 ELSE Len(c.list)]
<1>1. /\ Key /\ Pressed /\ UNCHANGED <<issued, index, draft>>
      /\ \/ completion # <<>> /\ InsertCandidate(Turned(completion[1], by))
         \/ Offered # <<>> /\ InsertCandidate(offer)
  BY Zenon DEF Navigate
<1>2. AreaTypes /\ Offering(completion)
  BY DEF ComposerInv
<1>3. Offering(Offered)
  BY <1>2, OfferedIs
<1>4. CASE completion # <<>> /\ InsertCandidate(Turned(completion[1], by))
  <2>1. completion[1] \in Offers
    BY <1>2, <1>4, OfferingIs
  <2>2. Turned(completion[1], by) \in Offers
    BY <2>1, TurnedIs
  <2> QED BY <1>1, <1>4, <2>2, CandidateKept
<1>5. CASE Offered # <<>> /\ InsertCandidate(offer)
  <2>1. c \in Offers
    BY <1>3, <1>5, OfferingIs
  <2> HIDE DEF c
  <2> DEFINE spot == IF by > 0 THEN 1 ELSE Len(c.list)
  <2>2. /\ c.start \in Nat /\ c.end \in Nat /\ c.list \in Seq(Seq(Cells)) /\ c.at \in Nat
        /\ 1 <= c.at /\ c.at <= Len(c.list)
        /\ c = [start |-> c.start, end |-> c.end, list |-> c.list, at |-> c.at]
    BY <2>1 DEF Offers
  <2>3. spot \in Nat /\ 1 <= spot /\ spot <= Len(c.list)
    BY <2>2
  <2> HIDE DEF spot
  <2>4. offer = [start |-> c.start, end |-> c.end, list |-> c.list, at |-> spot]
    <3>1. c = [start |-> c.start, end |-> c.end, list |-> c.list, at |-> c.at]
      BY <2>2
    <3> QED BY <3>1 DEF spot
  <2>5. [start |-> c.start, end |-> c.end, list |-> c.list, at |-> spot] \in Offers
    BY <2>2, <2>3 DEF Offers
  <2>6. offer \in Offers
    BY <2>4, <2>5
  <2> HIDE DEF offer
  <2> QED BY <1>1, <1>5, <2>6, CandidateKept
<1> QED BY <1>1, <1>4, <1>5

LEMMA RecallKept ==
    ASSUME ComposerAssumption, ComposerInv, Key, NEW t \in Seq(Cells), Recall(t), Past'
    PROVE  ComposerInv'
<1>1. /\ SetText(t, Len(t)) /\ pending' = Prune(pending) /\ completion' = <<>> /\ Pressed
      /\ issued' = issued /\ undone' = undone
      /\ strayed' = (strayed \/ (cursor' > Len(text') \/ \E e \in elements' : e.from < cursor' /\ cursor' < e.to))
  BY DEF Recall, Strayed, Stray
<1>2. AreaTypes /\ strayed \in BOOLEAN
  BY DEF ComposerInv
<1>3. Len(t) \in Nat
  OBVIOUS
<1>4. /\ AreaTypes' /\ (AreaForm /\ cursor' <= Len(text') => AreaForm')
      /\ Carried(elements, elements')
  BY <1>1, <1>2, <1>3, SetTextDoes
<1>5. Offering(completion')
  BY <1>1, Zenon DEF Offering
<1>6. strayed' \in BOOLEAN
  BY <1>1
<1>7. ASSUME ~strayed' PROVE ~strayed /\ cursor' <= Len(text')
  <2>1. ~strayed /\ ~(cursor' > Len(text'))
    BY <1>1, <1>7
  <2>2. cursor' \in Nat /\ Len(text') \in Nat
    BY <1>4 DEF AreaTypes
  <2> QED BY <2>1, <2>2
<1> QED BY <1>1, <1>4, <1>5, <1>6, <1>7, TextSet

LEMMA UpKept == ASSUME ComposerAssumption, ComposerInv, Up PROVE ComposerInv'
<1> DEFINE S == {s \in Starts : s < Row}
           i == IF index = 0 THEN Len(entries) ELSE IF index = 1 THEN 1 ELSE index - 1
<1>1. AreaTypes /\ Past
  BY DEF ComposerInv
<1>2. Key
  BY DEF Up
<1>3. \/ Row > 0 /\ Vertical(Max(S))
      \/ /\ entries # <<>> /\ index' = i
         /\ draft' = (IF index = 0 THEN text ELSE draft)
         /\ Recall(entries[index'])
  BY Zenon DEF Up
<1>4. CASE Row > 0 /\ Vertical(Max(S))
  <2>1. Row \in Nat
    BY <1>1, RowIs
  <2>2. S \subseteq Nat /\ 0 \in S /\ \A x \in S : x <= Row
    BY <1>1, <1>4, <2>1, StartsAre
  <2> HIDE DEF S
  <2>3. Max(S) \in Nat
    BY <2>1, <2>2, GreatestIs
  <2> QED BY <1>2, <1>4, <2>3, VerticalKept
<1>5. CASE /\ entries # <<>> /\ index' = i
           /\ draft' = (IF index = 0 THEN text ELSE draft)
           /\ Recall(entries[index'])
  <2>1. entries \in Seq(Seq(Cells)) /\ index \in 0..Len(entries) /\ draft \in Seq(Cells) /\ text \in Seq(Cells)
    BY <1>1 DEF Past, AreaTypes
  <2>2. Len(entries) \in Nat /\ Len(entries) >= 1
    BY <1>5, <2>1
  <2>3. i \in 1..Len(entries)
    BY <2>1, <2>2, SMT
  <2> DEFINE k == index'
  <2>4. k \in 1..Len(entries) /\ k \in 0..Len(entries)
    BY <1>5, <2>2, <2>3
  <2> HIDE DEF k, i
  <2>5. entries[k] \in Seq(Cells)
    BY <2>1, <2>4
  <2>6. entries' = entries
    BY <1>5, Zenon DEF Recall, Pressed
  <2>7. draft' \in Seq(Cells)
    BY <1>5, <2>1
  <2>8. Past'
    BY <2>1, <2>4, <2>6, <2>7 DEF Past, k
  <2>9. Recall(entries[k])
    BY <1>5 DEF k
  <2> QED BY <1>2, <2>5, <2>8, <2>9, RecallKept
<1> QED BY <1>3, <1>4, <1>5

LEMMA DownKept == ASSUME ComposerAssumption, ComposerInv, Down PROVE ComposerInv'
<1> DEFINE S == {s \in Starts : s > Row}
<1>1. AreaTypes /\ Past
  BY DEF ComposerInv
<1>2. Key
  BY DEF Down
<1>3. \/ S # {} /\ Vertical(Min(S))
      \/ index > 0 /\ index = Len(entries) /\ index' = 0 /\ draft' = <<>> /\ Recall(draft)
      \/ index > 0 /\ index # Len(entries) /\ index' = index + 1 /\ draft' = draft /\ Recall(entries[index'])
  BY Zenon DEF Down
<1>7. entries \in Seq(Seq(Cells)) /\ index \in 0..Len(entries) /\ draft \in Seq(Cells) /\ Len(entries) \in Nat
  BY <1>1 DEF Past
<1>4. CASE S # {} /\ Vertical(Min(S))
  <2>2. S \subseteq Nat
    BY <1>1, StartsAre
  <2> HIDE DEF S
  <2>3. Min(S) \in Nat
    BY <1>4, <2>2, LeastIs
  <2> QED BY <1>2, <1>4, <2>3, VerticalKept
<1>5. CASE index > 0 /\ index = Len(entries) /\ index' = 0 /\ draft' = <<>> /\ Recall(draft)
  <2>1. entries' = entries
    BY <1>5, Zenon DEF Recall, Pressed
  <2>2. index' \in 0..Len(entries') /\ draft' \in Seq(Cells)
    BY <1>5, <1>7, <2>1
  <2>3. Past'
    BY <1>7, <2>1, <2>2, Zenon DEF Past
  <2> QED BY <1>2, <1>5, <1>7, <2>3, RecallKept
<1>6. CASE index > 0 /\ index # Len(entries) /\ index' = index + 1 /\ draft' = draft /\ Recall(entries[index'])
  <2> DEFINE k == index'
  <2>1. entries' = entries
    BY <1>6, Zenon DEF Recall, Pressed
  <2>2. k \in 1..Len(entries) /\ k \in 0..Len(entries)
    BY <1>6, <1>7
  <2> HIDE DEF k
  <2>3. Past'
    BY <1>6, <1>7, <2>1, <2>2 DEF Past, k
  <2>4. entries[k] \in Seq(Cells)
    BY <1>7, <2>2
  <2>5. Recall(entries[k])
    BY <1>6 DEF k
  <2> QED BY <1>2, <2>3, <2>4, <2>5, RecallKept
<1> QED BY <1>3, <1>4, <1>5, <1>6

LEMMA SubmitKept == ASSUME ComposerAssumption, ComposerInv, Submit PROVE ComposerInv'
<1> DEFINE line == Trimmed(text)
<1>1. /\ keys < MaxKeys /\ keys' = keys + 1
      /\ entries' = (IF entries # <<>> /\ Last(entries) = line THEN entries ELSE Append(entries, line))
      /\ index' = 0 /\ draft' = <<>>
      /\ text' = <<>> /\ cursor' = 0 /\ elements' = {} /\ kill' = <<>>
      /\ undos' = <<>> /\ redos' = <<>> /\ column' = NoColumn
      /\ pending' = <<>> /\ issued' = Unissued /\ completion' = <<>>
      /\ strayed' = FALSE /\ undone' = FALSE
  BY Zenon DEF Submit, Key
<1>2. /\ \A S : <<>> \in Seq(S)
      /\ Len(<<>>) = 0 /\ 0 \in Nat /\ 0 <= 0 /\ 1..0 = {}
  BY SMT
<1>0. AreaTypes /\ Numbered /\ Past
  BY DEF ComposerInv
<1>3. AreaTypes'
  <2>1. Reaches({}) /\ {} \subseteq Spans
    BY DEF Reaches
  <2>2. column' \in Nat \cup {NoColumn}
    BY <1>1
  <2> QED BY <1>1, <1>2, <2>1, <2>2, Zenon DEF AreaTypes
<1>4. AreaForm'
  <2>1. Placed(<<>>, {}) /\ Between({}, 0)
    BY Zenon DEF Placed, Between
  <2> QED BY <1>1, <1>2, <2>1, Zenon DEF AreaForm, InForm
<1>5. Numbered'
  <2>0. keys \in Nat /\ MaxKeys \in Nat
    BY <1>0, Zenon DEF Numbered, ComposerAssumption
  <2>1. keys' \in Nat /\ keys' <= MaxKeys
    BY <1>1, <2>0
  <2>2. issued' \in [Sizes -> Nat] /\ \A s \in Sizes : issued'[s] <= keys'
    <3>1. Unissued = [s \in Sizes |-> 0]
      BY DEF Unissued, Sizes
    <3>2. 0 <= keys'
      BY <2>1
    <3> QED BY <1>1, <3>1, <3>2
  <2>3. Apart(<<>>)
    BY <1>2, Zenon DEF Apart
  <2> QED BY <1>1, <1>2, <2>1, <2>2, <2>3, Zenon DEF Numbered
<1>6. Matched'
  <2>1. Shown(<<>>, {}) /\ Meets(<<>>, {})
    BY <1>2, Zenon DEF Shown, Meets, Distinct
  <2> QED BY <1>1, <2>1, Zenon DEF Matched
<1>7. Past'
  <2>1. text \in Seq(Cells) /\ entries \in Seq(Seq(Cells))
    BY <1>0 DEF AreaTypes, Past
  <2>2. line \in Seq(Cells)
    BY <2>1, TrimmedIs
  <2> HIDE DEF line
  <2>3. entries' \in Seq(Seq(Cells))
    BY <1>1, <2>1, <2>2
  <2>4. Len(entries') \in Nat
    BY <2>3
  <2>5. 0 \in 0..Len(entries')
    BY <2>4
  <2> QED BY <1>1, <1>2, <2>3, <2>5, Zenon DEF Past
<1>8. Offering(completion')
  BY <1>1, Zenon DEF Offering
<1>9. strayed' \in BOOLEAN /\ undone' \in BOOLEAN
  BY <1>1
<1> QED BY <1>3, <1>4, <1>5, <1>6, <1>7, <1>8, <1>9, Zenon DEF ComposerInv

\* The invariant speaks of neither the prompt sent nor the wait for a key.
LEMMA UnseenKept ==
    ASSUME ComposerInv,
           UNCHANGED <<area, pending, issued, history, completion, keys, strayed, undone>>
    PROVE  ComposerInv'
<1>1. /\ text' = text /\ cursor' = cursor /\ elements' = elements /\ kill' = kill
      /\ undos' = undos /\ redos' = redos /\ column' = column
      /\ pending' = pending /\ issued' = issued /\ completion' = completion /\ keys' = keys
      /\ strayed' = strayed /\ undone' = undone /\ entries' = entries /\ index' = index /\ draft' = draft
  BY DEF area, history
<1>2. AreaTypes' /\ (AreaForm => AreaForm')
  BY <1>1, Zenon DEF ComposerInv, AreaTypes, AreaForm
<1>0. Numbered /\ Matched /\ strayed \in BOOLEAN /\ undone \in BOOLEAN /\ (~strayed => AreaForm)
  BY DEF ComposerInv
<1>3. Numbered' /\ Matched'
  <2>1. keys' = keys /\ issued' = issued /\ pending' = pending /\ elements' = elements /\ undone' = undone
    BY <1>1
  <2>2. Numbered'
    BY <1>0, <2>1 DEF Numbered
  <2>3. Matched'
    BY <1>0, <2>1 DEF Matched
  <2> QED BY <2>2, <2>3
<1>5. strayed' = strayed /\ undone' = undone
  BY <1>1
<1>4. Past' /\ Offering(completion')
  BY <1>1, Zenon DEF ComposerInv, Past
<1> QED BY <1>0, <1>2, <1>3, <1>4, <1>5 DEF ComposerInv

LEMMA ComposerKept ==
    ASSUME ComposerAssumption, ComposerInv, [ComposerNext]_composerVars
    PROVE  ComposerInv'
<1>1. CASE \E v \in Shorts : Insert(v)
  BY <1>1, InsertKept
<1>2. CASE \E b \in Bodies : Paste(b)
  BY <1>2, PasteKept
<1>3. CASE Backspace \/ Delete \/ DeleteOrEof
  BY <1>3, BackspaceKept, DeleteKept, DeleteOrEofKept
<1>4. CASE Left \/ Right \/ Home \/ End \/ WordLeft \/ WordRight
  BY <1>4, LeftKept, RightKept, HomeKept, EndKept, WordLeftKept, WordRightKept
<1>5. CASE KillStart \/ KillEnd \/ KillWord \/ Yank \/ Undo \/ Redo \/ Dismiss
  BY <1>5, KillStartKept, KillEndKept, KillWordKept, YankKept, UndoKept, RedoKept, DismissKept
<1>6. CASE Tab \/ Navigate(1) \/ Navigate(-1) \/ Up \/ Down
  <2>1. 1 \in {1, -1} /\ -1 \in {1, -1}
    OBVIOUS
  <2> QED BY <1>6, <2>1, TabKept, NavigateKept, UpKept, DownKept
<1>7. CASE Submit
  BY <1>7, SubmitKept
<1>8. CASE Cancel \/ WordFails
  <2>1. UNCHANGED <<area, pending, issued, history, completion, keys, strayed, undone>>
    BY <1>8 DEF Cancel, WordFails, Leave
  <2> QED BY <2>1, UnseenKept
<1>9. CASE UNCHANGED composerVars
  <2>1. UNCHANGED <<area, pending, issued, history, completion, keys, strayed, undone>>
    BY <1>9 DEF composerVars
  <2> QED BY <2>1, UnseenKept
<1> QED BY <1>1, <1>2, <1>3, <1>4, <1>5, <1>6, <1>7, <1>8, <1>9, Zenon DEF ComposerNext

-----------------------------------------------------------------------------
(* Sequences put together from pieces of at most one cell.                 *)

ChainUpTo(sh, g, n) == g = [m \in 0..n |-> IF m = 0 THEN <<>> ELSE g[m - 1] \o sh[m]]
Chain(g, sh, N) ==
    /\ g[0] = <<>>
    /\ \A n \in 1..N : g[n] = g[n - 1] \o sh[n] /\ sh[n] \in Seq(Cells) /\ Len(sh[n]) <= 1

LEMMA ChainExists == ASSUME NEW sh, NEW n \in Nat PROVE \E g : ChainUpTo(sh, g, n)
<1> DEFINE K == {k \in Nat : \E g : ChainUpTo(sh, g, k)}
<1>1. 0 \in K
  <2> DEFINE g == [m \in 0..0 |-> <<>>]
  <2>1. \A m \in 0..0 : m = 0
    BY SMT
  <2>2. ChainUpTo(sh, g, 0)
    BY <2>1, Zenon DEF ChainUpTo
  <2> QED BY <2>2
<1>2. ASSUME NEW k \in Nat, k \in K PROVE k + 1 \in K
  <2>1. PICK g : ChainUpTo(sh, g, k)
    BY <1>2
  <2> DEFINE h == [m \in 0..(k + 1) |-> IF m = k + 1 THEN g[k] \o sh[k + 1] ELSE g[m]]
  <2>2. /\ \A m \in 0..(k + 1) : m = k + 1 \/ m \in 0..k
        /\ \A m \in 0..k : m # k + 1 /\ m \in 0..(k + 1)
        /\ \A m \in 0..(k + 1) : m # 0 => m - 1 \in 0..k
        /\ (k + 1) - 1 = k /\ k + 1 # 0 /\ k + 1 \in Nat
    BY SMT
  <2>3. \A m \in 0..k : g[m] = IF m = 0 THEN <<>> ELSE g[m - 1] \o sh[m]
    BY <2>1, Zenon DEF ChainUpTo
  <2>4. \A m \in 0..k : h[m] = g[m]
    BY <2>2, Zenon
  <2>5. \A m \in 0..(k + 1) : h[m] = IF m = 0 THEN <<>> ELSE h[m - 1] \o sh[m]
    <3> TAKE m \in 0..(k + 1)
    <3>1. CASE m = k + 1
      BY <3>1, <2>2, <2>4, Zenon
    <3>2. CASE m \in 0..k
      BY <3>2, <2>2, <2>3, <2>4, Zenon
    <3> QED BY <3>1, <3>2, <2>2
  <2>6. ChainUpTo(sh, h, k + 1)
    BY <2>5, Zenon DEF ChainUpTo
  <2> QED BY <2>2, <2>6, Zenon
<1> HIDE DEF K
<1>3. Nat \subseteq K
  BY <1>1, <1>2, AllNumbers
<1> QED BY <1>3 DEF K

LEMMA ChainTyped ==
    ASSUME NEW g, NEW sh, NEW N \in Nat, Chain(g, sh, N)
    PROVE  \A n \in 0..N : g[n] \in Seq(Cells)
<1> DEFINE K == {k \in Nat : k <= N => g[k] \in Seq(Cells)}
<1>1. 0 \in K
  <2>1. g[0] = <<>>
    BY DEF Chain
  <2>2. <<>> \in Seq(Cells) /\ 0 \in Nat
    OBVIOUS
  <2> QED BY <2>1, <2>2, Zenon
<1>2. ASSUME NEW k \in Nat, k \in K PROVE k + 1 \in K
  <2> SUFFICES ASSUME k + 1 <= N PROVE g[k + 1] \in Seq(Cells)
    OBVIOUS
  <2>1. k + 1 \in 1..N /\ (k + 1) - 1 = k /\ k <= N
    BY SMT
  <2>2. g[k + 1] = g[k] \o sh[k + 1] /\ sh[k + 1] \in Seq(Cells)
    BY <2>1, Zenon DEF Chain
  <2>3. g[k] \in Seq(Cells)
    BY <1>2, <2>1
  <2>4. g[k] \o sh[k + 1] \in Seq(Cells)
    BY <2>2, <2>3
  <2> QED BY <2>2, <2>4
<1> HIDE DEF K
<1>3. Nat \subseteq K
  BY <1>1, <1>2, AllNumbers
<1>4. \A n \in 0..N : n \in Nat /\ n <= N
  BY SMT
<1> QED BY <1>3, <1>4, Zenon DEF K

\* One piece more.
Link(g, sh, n) ==
    /\ g[n - 1] \in Seq(Cells) /\ g[n] \in Seq(Cells) /\ sh[n] \in Seq(Cells)
    /\ g[n] = g[n - 1] \o sh[n] /\ Len(sh[n]) \in {0, 1} /\ Len(g[n]) = Len(g[n - 1]) + Len(sh[n])
    /\ Len(g[n]) \in Nat /\ Len(g[n - 1]) \in Nat
    /\ \A i \in 1..Len(g[n - 1]) : g[n][i] = g[n - 1][i]
    /\ Len(sh[n]) = 1 => g[n][Len(g[n])] = sh[n][1]

LEMMA ChainLink ==
    ASSUME NEW g, NEW sh, NEW N \in Nat, Chain(g, sh, N), NEW n \in 1..N
    PROVE  n - 1 \in 0..N /\ n \in 0..N /\ Link(g, sh, n)
<1>1. n - 1 \in 0..N /\ n \in 0..N
  BY SMT
<1> DEFINE a == g[n - 1]
           s == sh[n]
           b == g[n]
<1>2. a \in Seq(Cells) /\ b \in Seq(Cells)
  BY <1>1, ChainTyped
<1>3. b = a \o s /\ s \in Seq(Cells) /\ Len(s) <= 1
  BY DEF Chain
<1> HIDE DEF a, b, s
<1>4. /\ a \o s \in Seq(Cells) /\ Len(a) \in Nat /\ Len(s) \in Nat /\ Len(a \o s) = Len(a) + Len(s)
      /\ \A i \in 1..Len(a) : (a \o s)[i] = a[i]
      /\ \A i \in 1..Len(s) : (a \o s)[Len(a) + i] = s[i]
  BY <1>2, <1>3, ConcatIs
<1>5. Len(s) \in {0, 1}
  <2> DEFINE w == Len(s)
  <2>1. w \in Nat /\ w <= 1
    BY <1>3, <1>4
  <2> HIDE DEF w
  <2>2. w \in {0, 1}
    BY <2>1, SMT
  <2> QED BY <2>2 DEF w
<1>6. Len(s) = 1 => b[Len(b)] = s[1]
  <2> HAVE Len(s) = 1
  <2>1. 1 \in 1..Len(s)
    BY <1>4
  <2>2. (a \o s)[Len(a) + 1] = s[1]
    BY <1>4, <2>1, Zenon
  <2>3. Len(b) = Len(a) + 1
    BY <1>3, <1>4
  <2> QED BY <1>3, <2>2, <2>3, Zenon
<1>7. Len(b) = Len(a) + Len(s) /\ \A i \in 1..Len(a) : b[i] = a[i]
  BY <1>3, <1>4, Zenon
<1>8. Len(b) \in Nat
  BY <1>2
<1>9. Len(a) \in Nat
  BY <1>4
<1> QED BY <1>1, <1>2, <1>3, <1>5, <1>6, <1>7, <1>8, <1>9, Zenon DEF a, b, s, Link

\* What was put together first stays in front.
LEMMA ChainPrefix ==
    ASSUME NEW g, NEW sh, NEW N \in Nat, Chain(g, sh, N), NEW a \in 0..N, NEW b \in a..N
    PROVE  Len(g[a]) <= Len(g[b]) /\ \A i \in 1..Len(g[a]) : g[b][i] = g[a][i]
<1> DEFINE Good(k) == Len(g[a]) <= Len(g[k]) /\ \A i \in 1..Len(g[a]) : g[k][i] = g[a][i]
           K == {k \in Nat : a <= k /\ k <= N => Good(k)}
<1>0. g[a] \in Seq(Cells) /\ Len(g[a]) \in Nat
  <2>1. g[a] \in Seq(Cells)
    BY ChainTyped
  <2> QED BY <2>1
<1>00. a \in Nat
  OBVIOUS
<1>1. 0 \in K
  <2>1. a <= 0 => a = 0
    BY <1>00
  <2>2. Good(a)
    BY <1>0
  <2> HIDE DEF Good
  <2> QED BY <2>1, <2>2
<1>2. ASSUME NEW k \in Nat, k \in K PROVE k + 1 \in K
  <2> SUFFICES ASSUME a <= k + 1, k + 1 <= N PROVE Good(k + 1)
    BY DEF K
  <2>1. CASE a = k + 1
    BY <1>0, <2>1
  <2>2. CASE a <= k
    <3>1. k + 1 \in 1..N /\ (k + 1) - 1 = k /\ k <= N
      BY SMT
    <3>2. Good(k)
      BY <1>2, <2>2, <3>1
    <3>3. Len(g[k + 1]) = Len(g[k]) + Len(sh[k + 1]) /\ Len(g[k]) \in Nat /\ Len(sh[k + 1]) \in {0, 1}
          /\ \A i \in 1..Len(g[k]) : g[k + 1][i] = g[k][i]
      <4>1. Link(g, sh, k + 1)
        BY <3>1, ChainLink
      <4>2. /\ Len(g[k + 1]) = Len(g[(k + 1) - 1]) + Len(sh[k + 1]) /\ Len(g[(k + 1) - 1]) \in Nat
            /\ Len(sh[k + 1]) \in {0, 1}
            /\ \A i \in 1..Len(g[(k + 1) - 1]) : g[k + 1][i] = g[(k + 1) - 1][i]
        BY <4>1, Zenon DEF Link
      <4> QED BY <3>1, <4>2, Zenon
    <3> DEFINE x == Len(g[a])
               y == Len(g[k])
               z == Len(g[k + 1])
               w == Len(sh[k + 1])
    <3>4. z = y + w /\ y \in Nat /\ w \in {0, 1} /\ x <= y /\ x \in Nat
      BY <1>0, <3>2, <3>3
    <3>5. \A i \in 1..x : g[k][i] = g[a][i]
      BY <3>2
    <3>6. \A i \in 1..y : g[k + 1][i] = g[k][i]
      BY <3>3
    <3> HIDE DEF x, y, z, w
    <3>7. x <= z /\ 1..x \subseteq 1..y
      BY <3>4, SMT
    <3>8. \A i \in 1..x : g[k + 1][i] = g[a][i]
      BY <3>5, <3>6, <3>7, Zenon
    <3> QED BY <3>7, <3>8 DEF x, z
  <2>3. a <= k \/ a = k + 1
    BY <1>00, SMT
  <2> QED BY <2>1, <2>2, <2>3
<1> HIDE DEF K
<1>3. Nat \subseteq K
  BY <1>1, <1>2, AllNumbers
<1>4. b \in K /\ a <= b /\ b <= N
  BY <1>3, <1>00
<1> QED BY <1>4, Zenon DEF K

\* Every cell comes from a piece.
LEMMA ChainCell ==
    ASSUME NEW g, NEW sh, NEW N \in Nat, Chain(g, sh, N), NEW q \in 1..Len(g[N])
    PROVE  \E n \in 1..N : Len(g[n]) = q /\ Len(sh[n]) = 1 /\ g[N][q] = sh[n][1]
<1> DEFINE D == {n \in 0..N : Len(g[n]) >= q}
           n == Min(D)
<1>1. \A k \in 0..N : g[k] \in Seq(Cells)
  BY ChainTyped
<1>0. N \in 0..N /\ 0 \in 0..N
  BY SMT
<1>2. Len(g[N]) \in Nat /\ q \in Nat /\ 1 <= q /\ q <= Len(g[N])
  <2>1. g[N] \in Seq(Cells)
    BY <1>0, <1>1
  <2>2. Len(g[N]) \in Nat
    BY <2>1
  <2> QED BY <2>2
<1>3. N \in D /\ D \subseteq Nat /\ D # {}
  <2>1. N \in D
    BY <1>0, <1>2
  <2>2. D \subseteq 0..N
    BY Zenon
  <2> HIDE DEF D
  <2> QED BY <2>1, <2>2, SMT
<1>4. \A k \in D : k \in 0..N /\ Len(g[k]) >= q
  BY Zenon
<1>5. \A k \in 0..N : Len(g[k]) >= q => k \in D
  BY Zenon
<1> HIDE DEF D
<1>6. n \in D /\ \A k \in D : n <= k
  BY <1>3, LeastIs
<1> HIDE DEF n
<1>7. n \in 0..N /\ Len(g[n]) >= q
  BY <1>4, <1>6
<1>8. n # 0
  <2>1. g[0] = <<>> /\ Len(<<>>) = 0
    BY DEF Chain
  <2>2. Len(g[0]) = 0
    BY <2>1
  <2> QED BY <1>2, <1>7, <2>2
<1>9. n \in 1..N
  BY <1>7, <1>8, SMT
<1>10. /\ n - 1 \in 0..N /\ Len(g[n]) = Len(g[n - 1]) + Len(sh[n]) /\ Len(sh[n]) \in {0, 1} /\ Len(g[n - 1]) \in Nat
       /\ Len(sh[n]) = 1 => g[n][Len(g[n])] = sh[n][1]
  <2>1. n - 1 \in 0..N /\ Link(g, sh, n)
    BY <1>9, ChainLink
  <2> QED BY <2>1, Zenon DEF Link
<1>11. ~(Len(g[n - 1]) >= q)
  <2>1. ~(n <= n - 1)
    BY <1>9, SMT
  <2> QED BY <1>5, <1>6, <1>10, <2>1, Zenon
<1> DEFINE x == Len(g[n - 1])
           y == Len(g[n])
           w == Len(sh[n])
<1>12. y = x + w /\ w \in {0, 1} /\ x \in Nat /\ ~(x >= q) /\ y >= q /\ q \in Nat
  BY <1>2, <1>7, <1>10, <1>11
<1> HIDE DEF x, y, w
<1>13. y = q /\ w = 1
  BY <1>12, SMT
<1>14. n \in 0..N /\ N \in n..N
  BY <1>9, SMT
<1>15. \A i \in 1..Len(g[n]) : g[N][i] = g[n][i]
  BY <1>14, ChainPrefix, Zenon
<1>16. q \in 1..q
  BY <1>2
<1>17. g[N][q] = g[n][q]
  BY <1>13, <1>15, <1>16, Zenon DEF y
<1>18. g[n][q] = sh[n][1]
  BY <1>10, <1>13, Zenon DEF y, w
<1> QED BY <1>9, <1>13, <1>17, <1>18, Zenon DEF y, w

-----------------------------------------------------------------------------
(* The text with pastes put back.                                          *)

\* A prompt that can be sent: what the invariant says of it.
Clear ==
    /\ text \in Seq(Cells) /\ elements \subseteq Spans /\ Placed(text, elements)
    /\ pending \in Seq(GivenOut(issued)) /\ Apart(pending)
    /\ Shown(pending, elements) /\ Meets(pending, elements)
Pieces(R) == [n \in 1..Len(text) |-> Shows(R, n)]
Under(e, n) == e.from < n /\ n <= e.to

LEMMA BodyOfIs ==
    ASSUME ComposerAssumption, Clear, NEW i \in 1..Len(pending)
    PROVE  /\ BodyOf(pending[i].label) = pending[i].body
           /\ pending[i].body \in Bodies /\ pending[i].body \in Cells /\ pending[i].label \in Labels
<1> DEFINE l == pending[i].label
           p == CHOOSE p \in Range(pending) : p.label = l
<1>1. DOMAIN pending = 1..Len(pending) /\ pending[i] \in GivenOut(issued)
  BY DEF Clear
<1>2. pending[i] \in Range(pending) /\ pending[i].label = l
  BY <1>1, Zenon DEF Range
<1>3. p \in Range(pending) /\ p.label = l
  BY <1>2, Zenon
<1>4. BodyOf(l) = p.body
  BY Zenon DEF BodyOf
<1> HIDE DEF p
<1>5. PICK j \in 1..Len(pending) : p = pending[j]
  BY <1>1, <1>3, Zenon DEF Range
<1>6. j = i
  BY <1>3, <1>5, Zenon DEF Clear, Apart
<1>7. pending[i] \in [label : Labels, body : Bodies]
  BY <1>1, Zenon DEF GivenOut
<1>8. Bodies \subseteq Cells
  BY Zenon DEF ComposerAssumption
<1>9. pending[i].body \in Bodies /\ pending[i].label \in Labels
  BY <1>7
<1> QED BY <1>4, <1>5, <1>6, <1>8, <1>9

LEMMA BodyOfElement ==
    ASSUME ComposerAssumption, Clear, NEW e \in elements
    PROVE  BodyOf(e.label) \in Bodies /\ BodyOf(e.label) \in Cells
<1>1. PICK i \in 1..Len(pending) : pending[i].label = e.label
  BY Zenon DEF Clear, Meets
<1> QED BY <1>1, BodyOfIs, Zenon

LEMMA ElementIs ==
    ASSUME ComposerAssumption, Clear, NEW e \in elements
    PROVE  /\ e.from \in Nat /\ e.to \in Nat /\ Len(e.label) \in Nat /\ Len(e.label) >= 3
           /\ e.to = e.from + Len(e.label) /\ e.to <= Len(text) /\ e.label \in Seq(Cells)
           /\ \A i \in 1..Len(e.label) : text[e.from + i] = e.label[i] /\ e.label[i] \notin Bodies
<1>1. e \in Spans
  BY DEF Clear
<1>2. e.from \in Nat /\ e.to \in Nat /\ e.label \in Labels
  BY <1>1, SpanIs
<1>3. Len(e.label) \in Nat /\ Len(e.label) >= 3 /\ e.label \in Seq(Cells) /\ \A i \in 1..Len(e.label) : e.label[i] \notin Bodies
  BY <1>2, LabelIs
<1>4. /\ e.to = e.from + Len(e.label) /\ e.to <= Len(text)
      /\ \A i \in 1..Len(e.label) : text[e.from + i] = e.label[i]
  BY Zenon DEF Clear, Placed
<1> QED BY <1>2, <1>3, <1>4, Zenon

LEMMA OneUnder ==
    ASSUME ComposerAssumption, Clear, NEW e \in elements, NEW f \in elements, NEW n \in Nat, Under(e, n), Under(f, n)
    PROVE  e = f
<1>1. e = f \/ e.to <= f.from \/ f.to <= e.from
  BY Zenon DEF Clear, Placed
<1>2. e.from \in Nat /\ e.to \in Nat /\ f.from \in Nat /\ f.to \in Nat
  BY ElementIs, Zenon
<1>3. e.from < n /\ n <= e.to /\ f.from < n /\ n <= f.to
  BY DEF Under
<1> QED BY <1>1, <1>2, <1>3, SMT

LEMMA OneCell == /\ \A c \in Cells : <<c>> \in Seq(Cells) /\ Len(<<c>>) <= 1
                 /\ <<>> \in Seq(Cells) /\ Len(<<>>) <= 1
OBVIOUS

LEMMA ShowsIs ==
    ASSUME ComposerAssumption, Clear, NEW R, R \subseteq elements, NEW n \in 1..Len(text)
    PROVE  /\ (\A e \in R : ~Under(e, n)) => Shows(R, n) = <<text[n]>>
           /\ \A e \in R : Under(e, n) /\ n # e.to => Shows(R, n) = <<>>
           /\ \A e \in R : n = e.to => Shows(R, n) = <<BodyOf(e.label)>>
           /\ Shows(R, n) \in Seq(Cells) /\ Len(Shows(R, n)) <= 1
<1> DEFINE over == {e \in R : e.from < n /\ n <= e.to}
           end == CHOOSE e \in over : e.to = n
<1>0. n \in Nat
  OBVIOUS
<1>1. over = {} => Shows(R, n) = <<text[n]>>
  BY Zenon DEF Shows
<1>2. over # {} /\ (\E e \in over : e.to = n) => Shows(R, n) = <<BodyOf(end.label)>>
  BY Zenon DEF Shows
<1>3. over # {} /\ ~(\E e \in over : e.to = n) => Shows(R, n) = <<>>
  BY Zenon DEF Shows
<1>4. (\E e \in over : e.to = n) => end \in over /\ end.to = n
  BY Zenon
<1>5. \A e \in R : Under(e, n) <=> e \in over
  BY Zenon DEF Under
<1>6. \A e \in over : e \in R /\ e \in elements /\ Under(e, n)
  BY Zenon DEF Under
<1> HIDE DEF over, end
<1>7. \A e, f \in over : e = f
  BY <1>0, <1>6, OneUnder
<1>8. ASSUME \A e \in R : ~Under(e, n) PROVE Shows(R, n) = <<text[n]>>
  <2>1. over = {}
    BY <1>6, <1>8
  <2> QED BY <1>1, <2>1
<1>9. ASSUME NEW e \in R, Under(e, n), n # e.to PROVE Shows(R, n) = <<>>
  <2>1. e \in over
    BY <1>5, <1>9
  <2>2. ~(\E f \in over : f.to = n)
    BY <1>7, <1>9, <2>1
  <2> QED BY <1>3, <2>1, <2>2
<1>10. ASSUME NEW e \in R, n = e.to PROVE Shows(R, n) = <<BodyOf(e.label)>> /\ BodyOf(e.label) \in Cells
  <2>1. e \in elements
    OBVIOUS
  <2>2. e.from \in Nat /\ e.to \in Nat /\ e.to = e.from + Len(e.label) /\ Len(e.label) \in Nat /\ Len(e.label) >= 3
    BY <2>1, ElementIs, Zenon
  <2>3. e.from < n /\ n <= e.to
    BY <1>10, <2>2, SMT
  <2>4. e \in over
    BY <1>5, <2>3, Zenon DEF Under
  <2>5. end = e
    BY <1>4, <1>7, <1>10, <2>4
  <2>6. BodyOf(e.label) \in Cells
    BY <2>1, BodyOfElement
  <2> QED BY <1>2, <1>10, <2>4, <2>5, <2>6
<1>11. Shows(R, n) \in Seq(Cells) /\ Len(Shows(R, n)) <= 1
  <2>1. CASE over = {}
    <3>1. text[n] \in Cells
      BY DEF Clear
    <3> QED BY <1>1, <2>1, <3>1, OneCell, Zenon
  <2>2. CASE over # {}
    <3>1. PICK e \in over : TRUE
      BY <2>2
    <3>2. e \in R /\ Under(e, n)
      BY <1>6
    <3>3. CASE n = e.to
      BY <1>10, <3>2, <3>3, OneCell, Zenon
    <3>4. CASE n # e.to
      BY <1>9, <3>2, <3>4, OneCell, Zenon
    <3> QED BY <3>3, <3>4
  <2> QED BY <2>1, <2>2
<1> QED BY <1>8, <1>9, <1>10, <1>11

LEMMA PutBackIs ==
    ASSUME ComposerAssumption, Clear, NEW R, R \subseteq elements
    PROVE  \E g : Chain(g, Pieces(R), Len(text)) /\ PutBack(R) = g[Len(text)]
<1> DEFINE N == Len(text)
           Made(f) == f = [n \in 0..N |-> IF n = 0 THEN <<>> ELSE f[n - 1] \o Shows(R, n)]
           h == CHOOSE f : Made(f)
           sh == Pieces(R)
<1>1. N \in Nat
  BY DEF Clear
<1>2. PutBack(R) = h[N]
  BY Zenon DEF PutBack
<1>3. \A n \in 1..N : sh[n] = Shows(R, n)
  BY Zenon DEF Pieces
<1>4. /\ \A n \in 0..N : n # 0 => n \in 1..N
      /\ \A n \in 1..N : n # 0 /\ n \in 0..N
      /\ 0 \in 0..N
  BY <1>1, SMT
<1> HIDE DEF sh
<1>5. PICK f : ChainUpTo(sh, f, N)
  BY <1>1, ChainExists
<1> HIDE DEF N
<1>6. f = [n \in 0..N |-> IF n = 0 THEN <<>> ELSE f[n - 1] \o sh[n]]
  BY <1>5, Zenon DEF ChainUpTo
<1>7. [n \in 0..N |-> IF n = 0 THEN <<>> ELSE f[n - 1] \o sh[n]]
        = [n \in 0..N |-> IF n = 0 THEN <<>> ELSE f[n - 1] \o Shows(R, n)]
  <2>1. \A n \in 0..N : (IF n = 0 THEN <<>> ELSE f[n - 1] \o sh[n]) = (IF n = 0 THEN <<>> ELSE f[n - 1] \o Shows(R, n))
    BY <1>3, <1>4, Zenon
  <2> QED BY <2>1, Zenon
<1>8. Made(f)
  BY <1>6, <1>7, Zenon
<1>9. Made(h)
  BY <1>8, Zenon
<1> HIDE DEF h
<1>10. \A n \in 0..N : h[n] = IF n = 0 THEN <<>> ELSE h[n - 1] \o Shows(R, n)
  BY <1>9, Zenon
<1>11. h[0] = <<>> /\ \A n \in 1..N : h[n] = h[n - 1] \o sh[n]
  BY <1>3, <1>4, <1>10, Zenon
<1>12. \A n \in 1..N : sh[n] \in Seq(Cells) /\ Len(sh[n]) <= 1
  <2> TAKE n \in 1..N
  <2>1. n \in 1..Len(text)
    BY DEF N
  <2>2. Shows(R, n) \in Seq(Cells) /\ Len(Shows(R, n)) <= 1
    BY <2>1, ShowsIs, Zenon
  <2> QED BY <1>3, <2>2, Zenon
<1>13. Chain(h, sh, N)
  BY <1>11, <1>12, Zenon DEF Chain
<1> QED BY <1>2, <1>13, Zenon DEF N, sh

\* A piece of it.
LEMMA PieceIs ==
    ASSUME ComposerAssumption, Clear, NEW R, R \subseteq elements, NEW g, Chain(g, Pieces(R), Len(text)),
           NEW n \in 1..Len(text)
    PROVE  /\ Pieces(R)[n] = Shows(R, n) /\ Link(g, Pieces(R), n) /\ g[n] = g[n - 1] \o Shows(R, n)
           /\ n - 1 \in 0..Len(text) /\ n \in 0..Len(text)
<1>1. Len(text) \in Nat
  BY DEF Clear
<1>2. Pieces(R)[n] = Shows(R, n)
  BY Zenon DEF Pieces
<1>3. n - 1 \in 0..Len(text) /\ n \in 0..Len(text) /\ Link(g, Pieces(R), n)
  BY <1>1, ChainLink
<1> QED BY <1>2, <1>3, Zenon DEF Link

\* An element put back adds its paste and nothing else.
LEMMA StretchIs ==
    ASSUME ComposerAssumption, Clear, NEW R, R \subseteq elements, NEW g, Chain(g, Pieces(R), Len(text)),
           NEW e \in R
    PROVE  /\ \A n \in e.from..e.to : n # e.to => g[n] = g[e.from]
           /\ g[e.to] = g[e.from] \o <<BodyOf(e.label)>>
<1>1. /\ e.from \in Nat /\ e.to \in Nat /\ Len(e.label) \in Nat /\ Len(e.label) >= 3
      /\ e.to = e.from + Len(e.label) /\ e.to <= Len(text)
  <2>1. e \in elements
    OBVIOUS
  <2> QED BY <2>1, ElementIs, Zenon
<1> DEFINE a == e.from
           b == e.to
           N == Len(text)
           Good(k) == a <= k /\ k < b => g[k] = g[a]
           K == {k \in Nat : Good(k)}
<1>2. a \in Nat /\ b \in Nat /\ a < b /\ b <= N /\ N \in Nat
  <2>1. N \in Nat
    BY DEF Clear
  <2> QED BY <1>1, <2>1, SMT
<1>3. \A n \in 1..N : g[n] = g[n - 1] \o Shows(R, n)
  BY PieceIs, Zenon
<1>4. \A n \in 1..N : Under(e, n) /\ n # b => Shows(R, n) = <<>>
  BY ShowsIs, Zenon
<1>5. \A n \in 1..N : n = b => Shows(R, n) = <<BodyOf(e.label)>>
  BY ShowsIs, Zenon
<1>6. \A n \in Nat : a < n /\ n <= b <=> Under(e, n)
  BY Zenon DEF Under
<1>7. \A n \in 0..N : g[n] \in Seq(Cells)
  BY <1>2, ChainTyped
<1> HIDE DEF a, b, N
<1>8. 0 \in K
  <2>1. a <= 0 => a = 0
    BY <1>2
  <2> QED BY <2>1
<1>9. ASSUME NEW k \in Nat, k \in K PROVE k + 1 \in K
  <2> SUFFICES ASSUME a <= k + 1, k + 1 < b PROVE g[k + 1] = g[a]
    OBVIOUS
  <2>1. CASE a = k + 1
    BY <2>1
  <2>2. CASE a <= k
    <3>1. k + 1 \in 1..N /\ (k + 1) - 1 = k /\ k < b /\ a < k + 1 /\ k + 1 <= b /\ k + 1 # b /\ k \in 0..N /\ k + 1 \in Nat
      BY <1>2, <2>2, SMT
    <3>2. g[k] = g[a]
      BY <1>9, <2>2, <3>1
    <3>3. g[k + 1] = g[k] \o Shows(R, k + 1)
      BY <1>3, <3>1, Zenon
    <3>4. Shows(R, k + 1) = <<>>
      BY <1>4, <1>6, <3>1, Zenon
    <3>5. g[k] \in Seq(Cells)
      BY <1>7, <3>1
    <3>6. g[k] \o <<>> = g[k]
      BY <3>5
    <3> QED BY <3>2, <3>3, <3>4, <3>6, Zenon
  <2>3. a <= k \/ a = k + 1
    BY <1>2, SMT
  <2> QED BY <2>1, <2>2, <2>3
<1> HIDE DEF K
<1>10. Nat \subseteq K
  BY <1>8, <1>9, AllNumbers
<1>11. \A n \in a..b : n # b => g[n] = g[a]
  <2>1. \A n \in a..b : n \in Nat /\ a <= n /\ (n # b => n < b)
    BY <1>2, SMT
  <2> QED BY <1>10, <2>1, Zenon DEF K
<1>12. b \in 1..N /\ b - 1 \in a..b /\ b - 1 # b
  BY <1>2, SMT
<1>13. g[b] = g[a] \o <<BodyOf(e.label)>>
  BY <1>3, <1>5, <1>11, <1>12, Zenon
<1> QED BY <1>11, <1>13 DEF a, b

\* An element not put back shows its label.
Gap(g, e) ==
    /\ \A j \in 0..Len(e.label) : Len(g[e.from + j]) = Len(g[e.from]) + j
    /\ \A j \in 1..Len(e.label) : g[Len(text)][Len(g[e.from]) + j] = e.label[j]

LEMMA GapIs ==
    ASSUME ComposerAssumption, Clear, NEW R, R \subseteq elements, NEW g, Chain(g, Pieces(R), Len(text)),
           NEW e \in elements, e \notin R
    PROVE  Gap(g, e)
<1> DEFINE a == e.from
           m == Len(e.label)
           N == Len(text)
           P == Len(g[a])
           K == {k \in Nat : k <= m => Len(g[a + k]) = P + k}
<1>1. /\ a \in Nat /\ m \in Nat /\ a + m <= N /\ N \in Nat /\ e.to = a + m
      /\ \A i \in 1..m : text[a + i] = e.label[i]
  <2>1. N \in Nat
    BY DEF Clear
  <2>2. /\ e.from \in Nat /\ Len(e.label) \in Nat /\ e.to = e.from + Len(e.label) /\ e.to <= Len(text)
        /\ \A i \in 1..Len(e.label) : text[e.from + i] = e.label[i]
    BY ElementIs, Zenon
  <2>3. a + m <= N
    BY <2>2
  <2> QED BY <2>1, <2>2, <2>3, Zenon
<1>2. \A n \in 1..N : Under(e, n) => Shows(R, n) = <<text[n]>>
  <2> TAKE n \in 1..N
  <2> HAVE Under(e, n)
  <2>1. n \in Nat
    OBVIOUS
  <2>2. \A f \in R : ~Under(f, n)
    <3> SUFFICES ASSUME NEW f \in R, Under(f, n) PROVE FALSE
      OBVIOUS
    <3>1. f \in elements
      OBVIOUS
    <3>2. f = e
      BY <2>1, <3>1, OneUnder
    <3> QED BY <3>2
  <2> QED BY <2>2, ShowsIs, Zenon
<1>3. \A n \in 1..N : /\ Link(g, Pieces(R), n) /\ Pieces(R)[n] = Shows(R, n)
                      /\ n - 1 \in 0..N /\ n \in 0..N
  BY PieceIs, Zenon
<1>4. \A j \in 1..m : a + j \in 1..N /\ (a + j) - 1 = a + (j - 1) /\ a < a + j /\ a + j <= a + m
  BY <1>1, SMT
<1>5. \A j \in 1..m : Under(e, a + j)
  BY <1>1, <1>4, Zenon DEF Under
<1>7. \A n \in 0..N : g[n] \in Seq(Cells)
  BY <1>1, ChainTyped
<1>6. P \in Nat
  <2>1. a \in 0..N
    BY <1>1, SMT
  <2>2. g[a] \in Seq(Cells)
    BY <1>7, <2>1
  <2> QED BY <2>2
\* The piece of one cell of the label.
<1>8. \A j \in 1..m : /\ Len(g[a + j]) = Len(g[a + (j - 1)]) + 1 /\ g[a + j][Len(g[a + j])] = e.label[j]
                      /\ Len(g[a + j]) \in Nat /\ a + j \in 0..N
  <2> TAKE j \in 1..m
  <2> DEFINE n == a + j
  <2>1. n \in 1..N /\ n - 1 = a + (j - 1)
    BY <1>4
  <2>2. Shows(R, n) = <<text[n]>>
    BY <1>2, <1>5, <2>1
  <2>3. text[n] = e.label[j]
    BY <1>1
  <2> HIDE DEF n
  <2>4. Link(g, Pieces(R), n) /\ Pieces(R)[n] = <<text[n]>> /\ n \in 0..N
    BY <1>3, <2>1, <2>2, Zenon
  <2>5. Len(<<text[n]>>) = 1 /\ <<text[n]>>[1] = text[n]
    OBVIOUS
  <2>6. Len(g[n]) = Len(g[n - 1]) + 1 /\ g[n][Len(g[n])] = text[n] /\ Len(g[n]) \in Nat
    BY <2>4, <2>5, Zenon DEF Link
  <2> QED BY <2>1, <2>3, <2>4, <2>6, Zenon DEF n
<1> HIDE DEF a, m, N, P
<1>9. 0 \in K
  <2>1. a + 0 = a /\ P + 0 = P
    BY <1>1, <1>6, SMT
  <2>2. Len(g[a + 0]) = P + 0
    BY <2>1, Zenon DEF P
  <2> QED BY <2>2
<1>10. ASSUME NEW k \in Nat, k \in K PROVE k + 1 \in K
  <2> SUFFICES ASSUME k + 1 <= m PROVE Len(g[a + (k + 1)]) = P + (k + 1)
    OBVIOUS
  <2>1. k + 1 \in 1..m /\ (k + 1) - 1 = k /\ k <= m
    BY <1>1, SMT
  <2>2. Len(g[a + k]) = P + k
    BY <1>10, <2>1
  <2>3. Len(g[a + (k + 1)]) = Len(g[a + k]) + 1
    BY <1>8, <2>1, Zenon
  <2> QED BY <1>6, <2>2, <2>3
<1> HIDE DEF K
<1>11. Nat \subseteq K
  BY <1>9, <1>10, AllNumbers
<1>12. \A j \in 0..m : Len(g[a + j]) = P + j
  <2>1. \A j \in 0..m : j \in Nat /\ j <= m
    BY SMT
  <2> QED BY <1>11, <2>1, Zenon DEF K
<1>13. \A j \in 1..m : g[N][P + j] = e.label[j]
  <2> TAKE j \in 1..m
  <2> DEFINE n == a + j
             x == Len(g[n])
  <2>1. j \in 0..m /\ 1 <= j
    BY <1>1
  <2>2. x = P + j
    BY <1>12, <2>1
  <2>3. n \in 0..N /\ g[n][x] = e.label[j] /\ x \in Nat
    BY <1>8, Zenon
  <2> HIDE DEF n
  <2>4. N \in n..N
    BY <1>1, <2>3
  <2>7. Chain(g, Pieces(R), N)
    BY Zenon DEF N
  <2>8. n \in 0..N /\ N \in Nat
    BY <1>1, <2>3
  <2>5. \A i \in 1..x : g[N][i] = g[n][i]
    BY <2>4, <2>7, <2>8, ChainPrefix
  <2> HIDE DEF x
  <2>6. x \in 1..x
    BY <1>6, <2>1, <2>2, <2>3, SMT
  <2> QED BY <2>2, <2>3, <2>5, <2>6, Zenon
<1> QED BY <1>12, <1>13, Zenon DEF Gap, a, m, N, P

LEMMA OccursAt ==
    ASSUME NEW t \in Seq(Cells), NEW v \in Seq(Cells), Len(v) >= 1, NEW i \in Nat
    PROVE  i \in Occurrences(t, v) <=> /\ 1 <= i /\ i + Len(v) - 1 <= Len(t)
                                       /\ \A j \in 1..Len(v) : t[i + j - 1] = v[j]
<1> DEFINE n == Len(v)
           top == Len(t)
           s == SubSeq(t, i, i + n - 1)
<1>1. n \in Nat /\ top \in Nat /\ n >= 1
  OBVIOUS
<1>2. i \in Occurrences(t, v) <=> i \in 1..(top - n + 1) /\ s = v
  BY Zenon DEF Occurrences
<1>3. i \in 1..(top - n + 1) <=> 1 <= i /\ i + n - 1 <= top
  <2> HIDE DEF n, top
  <2> QED BY <1>1, SMT
<1>4. ASSUME 1 <= i, i + n - 1 <= top
      PROVE  s = v <=> \A j \in 1..n : t[i + j - 1] = v[j]
  <2> DEFINE k == i + n - 1
  <2>1. k \in Int /\ k <= top /\ k >= i
    BY <1>1, <1>4
  <2>2. k - i + 1 = n
    BY <1>1
  <2> HIDE DEF k
  <2>3. SubSeq(t, i, k) \in Seq(Cells) /\ Len(SubSeq(t, i, k)) = k - i + 1
        /\ \A j \in 1..(k - i + 1) : SubSeq(t, i, k)[j] = t[i + j - 1]
    BY <1>4, <2>1, SMT
  <2>4. s \in Seq(Cells) /\ Len(s) = n /\ \A j \in 1..n : s[j] = t[i + j - 1]
    BY <2>2, <2>3, Zenon DEF k
  <2> HIDE DEF s
  <2>5. ASSUME \A j \in 1..n : t[i + j - 1] = v[j] PROVE s = v
    <3>1. \A j \in 1..Len(s) : s[j] = v[j]
      BY <2>4, <2>5, Zenon
    <3> QED BY <2>4, <3>1, SameSequence, Zenon
  <2> QED BY <2>4, <2>5, Zenon
<1> HIDE DEF s
<1> QED BY <1>2, <1>3, <1>4, Zenon

\* A cell that is no paste comes from outside the elements put back.
LEMMA PlainCell ==
    ASSUME ComposerAssumption, Clear, NEW R, R \subseteq elements, NEW n \in 1..Len(text),
           Len(Shows(R, n)) = 1, Shows(R, n)[1] \notin Bodies
    PROVE  (\A f \in R : ~Under(f, n)) /\ Shows(R, n)[1] = text[n]
<1>1. \A c : Len(<<c>>) = 1 /\ <<c>>[1] = c
  OBVIOUS
<1>2. Len(<<>>) # 1
  OBVIOUS
<1>3. \A f \in R : ~Under(f, n)
  <2> SUFFICES ASSUME NEW f \in R, Under(f, n) PROVE FALSE
    OBVIOUS
  <2>1. f \in elements
    OBVIOUS
  <2>2. CASE n = f.to
    <3>1. Shows(R, n) = <<BodyOf(f.label)>>
      BY <2>2, ShowsIs, Zenon
    <3>2. BodyOf(f.label) \in Bodies
      BY <2>1, BodyOfElement
    <3> QED BY <1>1, <3>1, <3>2, Zenon
  <2>3. CASE n # f.to
    <3>1. Shows(R, n) = <<>>
      BY <2>3, ShowsIs, Zenon
    <3> QED BY <1>2, <3>1, Zenon
  <2> QED BY <2>2, <2>3
<1>4. Shows(R, n) = <<text[n]>>
  BY <1>3, ShowsIs, Zenon
<1> QED BY <1>1, <1>3, <1>4, Zenon

\* The cell after such a cell, if it is no paste either, is the next one of the text.
LEMMA NextCell ==
    ASSUME ComposerAssumption, Clear, NEW R, R \subseteq elements, NEW g, Chain(g, Pieces(R), Len(text)),
           NEW n \in 1..Len(text), n # Len(text), \A f \in R : ~Under(f, n),
           g[Len(text)][Len(g[n]) + 1] \notin Bodies
    PROVE  /\ \A f \in R : ~Under(f, n + 1)
           /\ Len(g[n + 1]) = Len(g[n]) + 1
           /\ g[Len(text)][Len(g[n]) + 1] = text[n + 1]
<1> DEFINE N == Len(text)
<1>0. N \in Nat
  BY DEF Clear
<1>1. n \in Nat /\ n + 1 \in 1..N /\ (n + 1) - 1 = n /\ n \in 0..N /\ n + 1 \in 0..N
  BY <1>0
<1>2. \A k \in 0..N : g[k] \in Seq(Cells)
  BY <1>0, ChainTyped
<1>3. \A k \in 0..N : \A i \in 1..Len(g[k]) : g[N][i] = g[k][i]
  <2>1. \A k \in 0..N : N \in k..N
    BY <1>0, SMT
  <2>2. Chain(g, Pieces(R), N)
    OBVIOUS
  <2> HIDE DEF N
  <2> QED BY <1>0, <2>1, <2>2, ChainPrefix
<1>4. \A k \in 0..N : Len(g[k]) \in Nat
  <2> TAKE k \in 0..N
  <2>1. g[k] \in Seq(Cells)
    BY <1>2
  <2> QED BY <2>1
<1>5. \A f \in R : ~Under(f, n + 1)
  <2> SUFFICES ASSUME NEW f \in R, Under(f, n + 1) PROVE FALSE
    OBVIOUS
  <2>1. f.from \in Nat /\ f.to \in Nat /\ f.to <= N /\ f.from < n + 1 /\ n + 1 <= f.to /\ ~(f.from < n /\ n <= f.to)
    <3>1. f \in elements
      OBVIOUS
    <3>2. f.from \in Nat /\ f.to \in Nat /\ f.to <= N
      BY <3>1, ElementIs, Zenon
    <3> QED BY <3>2, Zenon DEF Under
  <2>2. f.from = n /\ f.to \in 0..N
    BY <1>0, <1>1, <2>1, SMT
  <2>3. g[f.to] = g[f.from] \o <<BodyOf(f.label)>>
    BY StretchIs, Zenon
  <2>4. BodyOf(f.label) \in Bodies /\ BodyOf(f.label) \in Cells
    <3>1. f \in elements
      OBVIOUS
    <3> QED BY <3>1, BodyOfElement
  <2> DEFINE q == g[n]
             c == BodyOf(f.label)
  <2>5. q \in Seq(Cells) /\ c \in Cells /\ g[f.to] = q \o <<c>>
    BY <1>1, <1>2, <2>2, <2>3, <2>4, Zenon
  <2> HIDE DEF q, c
  <2>6. Len(g[f.to]) = Len(q) + 1 /\ g[f.to][Len(q) + 1] = c /\ Len(q) + 1 \in 1..(Len(q) + 1)
    BY <2>5
  <2>7. g[N][Len(q) + 1] = c
    BY <1>3, <2>2, <2>6, Zenon
  <2> QED BY <2>4, <2>7, Zenon DEF q, c
<1>6. Shows(R, n + 1) = <<text[n + 1]>>
  BY <1>1, <1>5, ShowsIs, Zenon
<1>7. g[n + 1] = g[n] \o <<text[n + 1]>>
  <2>1. g[n + 1] = g[(n + 1) - 1] \o Shows(R, n + 1)
    BY <1>1, PieceIs, Zenon
  <2> QED BY <1>1, <1>6, <2>1, Zenon
<1> DEFINE q == g[n]
           c == text[n + 1]
<1>8. q \in Seq(Cells) /\ g[n + 1] = q \o <<c>>
  BY <1>1, <1>2, <1>7, Zenon
<1>9. c \in Cells
  BY <1>1 DEF Clear
<1> HIDE DEF q, c
<1>10. Len(g[n + 1]) = Len(q) + 1 /\ g[n + 1][Len(q) + 1] = c /\ Len(q) + 1 \in 1..(Len(q) + 1)
  BY <1>8, <1>9
<1>11. g[N][Len(q) + 1] = c
  BY <1>1, <1>3, <1>10, Zenon
<1> QED BY <1>5, <1>10, <1>11, Zenon DEF q, c

\* A label found in the text with pastes put back is found in the text.
LEMMA FoundInText ==
    ASSUME ComposerAssumption, Clear, NEW R, R \subseteq elements, NEW g, Chain(g, Pieces(R), Len(text)),
           NEW v \in Seq(Cells), Len(v) >= 1, \A i \in 1..Len(v) : v[i] \notin Bodies,
           NEW q \in Occurrences(g[Len(text)], v)
    PROVE  \E n \in Occurrences(text, v) : n \in 1..Len(text) /\ Len(g[n]) = q /\ Len(g[n - 1]) = q - 1
<1> DEFINE N == Len(text)
           m == Len(v)
           t == g[N]
<1>0. N \in Nat /\ m \in Nat /\ 1 <= m
  BY DEF Clear
<1>1. t \in Seq(Cells)
  <2>1. N \in 0..N
    BY <1>0, SMT
  <2> QED BY <1>0, <2>1, ChainTyped
<1>2. q \in Nat /\ q \in Int
  BY DEF Occurrences
<1>3. 1 <= q /\ q + m - 1 <= Len(t) /\ \A j \in 1..m : t[q + j - 1] = v[j]
  <2>1. q \in Occurrences(t, v)
    OBVIOUS
  <2> HIDE DEF t
  <2> QED BY <1>1, <1>2, <2>1, OccursAt
<1>4. Len(t) \in Nat
  BY <1>1
<1>5. q \in 1..Len(t) /\ q + 1 - 1 = q /\ 1 \in 1..m
  <2> HIDE DEF m, t
  <2> QED BY <1>0, <1>2, <1>3, <1>4, SMT
<1>6. PICK n \in 1..N : Len(g[n]) = q /\ Len(Pieces(R)[n]) = 1 /\ t[q] = Pieces(R)[n][1]
  BY <1>0, <1>5, ChainCell
<1>7. Pieces(R)[n] = Shows(R, n) /\ Link(g, Pieces(R), n)
  BY PieceIs, Zenon
<1>8. t[q] = v[1] /\ v[1] \notin Bodies
  BY <1>3, <1>5, Zenon
<1>9. (\A f \in R : ~Under(f, n)) /\ text[n] = v[1]
  <2>1. Len(Shows(R, n)) = 1 /\ Shows(R, n)[1] \notin Bodies /\ Shows(R, n)[1] = v[1]
    BY <1>6, <1>7, <1>8, Zenon
  <2>2. (\A f \in R : ~Under(f, n)) /\ Shows(R, n)[1] = text[n]
    BY <2>1, PlainCell
  <2> QED BY <2>1, <2>2, Zenon
<1> DEFINE Good(k) == /\ n + k <= N /\ Len(g[n + k]) = q + k /\ \A f \in R : ~Under(f, n + k)
                      /\ text[n + k] = v[k + 1]
           K == {k \in Nat : k < m => Good(k)}
<1>10. n \in Nat /\ 1 <= n /\ n <= N
  BY <1>0
<1> HIDE DEF N, m, t
<1>11. 0 \in K
  <2>1. n + 0 = n /\ q + 0 = q /\ 0 + 1 = 1
    BY <1>2, <1>10, SMT
  <2>2. Good(0)
    BY <1>6, <1>9, <1>10, <2>1, Zenon
  <2> QED BY <2>2
<1>12. ASSUME NEW k \in Nat, k \in K PROVE k + 1 \in K
  <2> SUFFICES ASSUME k + 1 < m PROVE Good(k + 1)
    OBVIOUS
  <2>1. k < m /\ k + 2 \in 1..m /\ (k + 1) + 1 = k + 2 /\ n + k \in Nat /\ (n + k) + 1 = n + (k + 1)
        /\ q + (k + 2) - 1 = (q + k) + 1 /\ (q + k) + 1 <= q + m - 1 /\ (q + k) + 1 = q + (k + 1) /\ 1 <= n + k
    BY <1>0, <1>2, <1>10, SMT
  <2>2. n + k <= N /\ Len(g[n + k]) = q + k /\ \A f \in R : ~Under(f, n + k)
    BY <1>12, <2>1, Zenon
  <2>3. n + k # N
    <3> SUFFICES ASSUME n + k = N PROVE FALSE
      OBVIOUS
    <3>1. Len(t) = q + k
      BY <2>2 DEF t
    <3> DEFINE x == Len(t)
    <3>2. q + m - 1 <= x /\ (q + k) + 1 <= q + m - 1 /\ x = q + k
      BY <1>3, <2>1, <3>1
    <3> HIDE DEF x
    <3> QED BY <1>0, <1>2, <3>2, SMT
  <2>4. n + k \in 1..N
    BY <1>0, <2>1, <2>2, SMT
  <2>5. t[(q + k) + 1] = v[k + 2] /\ v[k + 2] \notin Bodies
    <3>1. t[q + (k + 2) - 1] = v[k + 2]
      BY <1>3, <2>1, Zenon
    <3>2. v[k + 2] \notin Bodies
      BY <2>1, Zenon DEF m
    <3> QED BY <2>1, <3>1, <3>2, Zenon
  <2> DEFINE x == n + k
  <2>6. /\ x \in 1..Len(text) /\ x # Len(text) /\ \A f \in R : ~Under(f, x)
        /\ g[Len(text)][Len(g[x]) + 1] \notin Bodies
    BY <2>2, <2>3, <2>4, <2>5, Zenon DEF N, t
  <2>7. x + 1 = n + (k + 1) /\ Len(g[x]) = q + k
    BY <2>1, <2>2
  <2> HIDE DEF x
  <2>8. /\ \A f \in R : ~Under(f, x + 1)
        /\ Len(g[x + 1]) = Len(g[x]) + 1
        /\ g[Len(text)][Len(g[x]) + 1] = text[x + 1]
    BY <2>6, NextCell
  <2>9. \A f \in R : ~Under(f, n + (k + 1))
    BY <2>7, <2>8, Zenon
  <2>10. Len(g[n + (k + 1)]) = q + (k + 1)
    BY <2>1, <2>7, <2>8, Zenon
  <2>11. text[n + (k + 1)] = v[(k + 1) + 1]
    BY <2>1, <2>5, <2>7, <2>8, Zenon DEF N, t
  <2>12. n + (k + 1) <= N
    <3>1. x \in Nat /\ x <= N /\ x # N
      BY <2>2, <2>3, <2>1 DEF x
    <3> QED BY <1>0, <2>7, <3>1, SMT
  <2> QED BY <2>9, <2>10, <2>11, <2>12, Zenon
<1> HIDE DEF K
<1>13. Nat \subseteq K
  BY <1>11, <1>12, AllNumbers
<1>14. \A k \in Nat : k < m => n + k <= N /\ text[n + k] = v[k + 1]
  BY <1>13, Zenon DEF K
<1>15. n + m - 1 <= N
  <2>1. m - 1 \in Nat /\ m - 1 < m /\ n + (m - 1) = n + m - 1
    BY <1>0, <1>10, SMT
  <2> QED BY <1>14, <2>1, Zenon
<1>16. \A j \in 1..m : text[n + j - 1] = v[j]
  <2> TAKE j \in 1..m
  <2>1. j - 1 \in Nat /\ j - 1 < m /\ n + (j - 1) = n + j - 1 /\ (j - 1) + 1 = j
    BY <1>0, <1>10, SMT
  <2> QED BY <1>14, <2>1, Zenon
<1>17. n \in Occurrences(text, v)
  <2>1. text \in Seq(Cells)
    BY DEF Clear
  <2>2. 1 <= n /\ n + Len(v) - 1 <= Len(text) /\ \A j \in 1..Len(v) : text[n + j - 1] = v[j]
    BY <1>10, <1>15, <1>16, Zenon DEF m, N
  <2> QED BY <1>10, <2>1, <2>2, OccursAt
<1>18. Len(g[n - 1]) = q - 1
  <2>1. Len(g[n]) = Len(g[n - 1]) + Len(Pieces(R)[n]) /\ Len(g[n - 1]) \in Nat
    BY <1>7, Zenon DEF Link
  <2> DEFINE x == Len(g[n - 1])
  <2>2. q = x + 1 /\ x \in Nat
    BY <1>6, <2>1, Zenon
  <2> HIDE DEF x
  <2>3. x = q - 1
    BY <1>2, <2>2, SMT
  <2> QED BY <2>3 DEF x
<1>19. n \in 1..Len(text)
  BY DEF N
<1> QED BY <1>6, <1>17, <1>18, <1>19, Zenon

\* If a label is first found at its own place in the text, it is so in the text with pastes put back.
LEMMA FirstIs ==
    ASSUME ComposerAssumption, Clear, NEW R, R \subseteq elements, NEW g, Chain(g, Pieces(R), Len(text)),
           NEW e \in elements, e \notin R, Min(Occurrences(text, e.label)) = e.from + 1
    PROVE  /\ Occurrences(g[Len(text)], e.label) # {}
           /\ Min(Occurrences(g[Len(text)], e.label)) = Len(g[e.from]) + 1
<1> DEFINE N == Len(text)
           v == e.label
           m == Len(v)
           a == e.from
           t == g[N]
           P == Len(g[a])
           O == Occurrences(t, v)
<1>0. N \in Nat
  BY DEF Clear
<1>1. /\ a \in Nat /\ m \in Nat /\ m >= 3 /\ a + m <= N /\ v \in Seq(Cells)
      /\ \A i \in 1..m : v[i] \notin Bodies
  <2>1. /\ a \in Nat /\ m \in Nat /\ m >= 3 /\ e.to = a + m /\ e.to <= N /\ v \in Seq(Cells)
        /\ \A i \in 1..m : v[i] \notin Bodies
    BY ElementIs, Zenon
  <2> QED BY <2>1, Zenon
<1>2. Chain(g, Pieces(R), N)
  OBVIOUS
<1>3. /\ \A j \in 0..m : Len(g[a + j]) = P + j
      /\ \A j \in 1..m : t[P + j] = v[j]
  <2>1. Gap(g, e)
    BY GapIs
  <2> QED BY <2>1, Zenon DEF Gap
<1>4. \A q \in O : \E n \in Occurrences(text, v) : n \in 1..N /\ Len(g[n]) = q /\ Len(g[n - 1]) = q - 1
  <2>1. Len(v) >= 1
    BY <1>1, SMT
  <2>2. v \in Seq(Cells) /\ \A i \in 1..Len(v) : v[i] \notin Bodies
    BY <1>1
  <2> HIDE DEF v
  <2> QED BY <2>1, <2>2, FoundInText
<1>5. \A n \in Occurrences(text, v) : a + 1 <= n /\ n \in Nat
  <2> DEFINE S == Occurrences(text, v)
  <2>1. \A n \in S : n \in Nat
    BY DEF Occurrences
  <2>2. Min(S) = a + 1
    OBVIOUS
  <2> HIDE DEF S
  <2>3. \A n \in S : Min(S) <= n
    <3> SUFFICES ASSUME S # {} PROVE \A n \in S : Min(S) <= n
      OBVIOUS
    <3>1. S \subseteq Nat
      BY <2>1
    <3> QED BY <3>1, LeastIs
  <2> QED BY <2>1, <2>2, <2>3, Zenon DEF S
<1> HIDE DEF N, m, a, t, P, v
<1>6. a \in 0..N /\ a + m \in 0..N /\ N \in a..N /\ N \in (a + m)..N /\ N \in 0..N /\ m \in 0..m
  BY <1>0, <1>1, SMT
<1>7. P \in Nat /\ t \in Seq(Cells) /\ Len(t) \in Nat
  <2>1. g[a] \in Seq(Cells) /\ t \in Seq(Cells)
    BY <1>0, <1>2, <1>6, ChainTyped DEF t
  <2> QED BY <2>1 DEF P
<1>8. P + m <= Len(t)
  <2>1. Len(g[a + m]) <= Len(g[N])
    BY <1>0, <1>2, <1>6, ChainPrefix
  <2>2. Len(g[a + m]) = P + m
    BY <1>3, <1>6
  <2> QED BY <2>1, <2>2 DEF t
<1>9. P + 1 \in O
  <2> DEFINE i == P + 1
  <2>1. i \in Nat /\ 1 <= i /\ i + m - 1 = P + m /\ \A j \in 1..m : i + j - 1 = P + j
    BY <1>1, <1>7, SMT
  <2> HIDE DEF i
  <2>2. i + m - 1 <= Len(t) /\ \A j \in 1..m : t[i + j - 1] = v[j]
    BY <1>3, <1>8, <2>1, Zenon
  <2>3. Len(v) >= 1
    BY <1>1, SMT DEF m
  <2>4. i \in O
    BY <1>1, <1>7, <2>1, <2>2, <2>3, OccursAt DEF m
  <2> QED BY <2>4 DEF i
<1>10. ASSUME NEW q \in O PROVE P + 1 <= q /\ q \in Nat
  <2>1. PICK n \in Occurrences(text, v) : n \in 1..N /\ Len(g[n]) = q /\ Len(g[n - 1]) = q - 1
    BY <1>4
  <2>2. a + 1 <= n /\ n \in Nat
    BY <1>5
  <2>3. n - 1 \in a..N /\ n - 1 \in 0..N
    <3>1. n \in Nat /\ 1 <= n /\ n <= N
      BY <1>0, <2>1
    <3> QED BY <1>0, <1>1, <2>2, <3>1, SMT
  <2>4. P <= Len(g[n - 1])
    BY <1>0, <1>2, <1>6, <2>3, ChainPrefix DEF P
  <2>5. q \in Nat
    BY DEF Occurrences
  <2>6. P <= q - 1
    BY <2>1, <2>4
  <2> QED BY <1>7, <2>5, <2>6, SMT
<1> HIDE DEF O
<1>11. Min(O) \in O /\ \A x \in O : Min(O) <= x
  <2>1. O \subseteq Nat /\ O # {}
    BY <1>9, <1>10
  <2> QED BY <2>1, LeastIs
<1> DEFINE x == Min(O)
<1>12. x \in Nat /\ P + 1 <= x /\ x <= P + 1
  BY <1>9, <1>10, <1>11
<1> HIDE DEF x
<1>13. x = P + 1
  BY <1>7, <1>12, SMT
<1> QED BY <1>9, <1>13, Zenon DEF x, O, t, v, P, a, N

\* What one more element put back changes in the pieces: nothing but its own.
LEMMA ShowsSame ==
    ASSUME NEW R, NEW e, NEW n, ~Under(e, n)
    PROVE  Shows(R \cup {e}, n) = Shows(R, n)
<1> DEFINE over(S) == {f \in S : f.from < n /\ n <= f.to}
           one == over(R)
           two == over(R \cup {e})
<1>1. ~(e.from < n /\ n <= e.to)
  BY Zenon DEF Under
<1>2. one = two
  BY <1>1
<1> DEFINE Of(S) == IF S = {} THEN <<text[n]>>
                    ELSE IF \E f \in S : f.to = n THEN <<BodyOf((CHOOSE f \in S : f.to = n).label)>>
                    ELSE <<>>
<1>3. Shows(R, n) = Of(one)
  BY Zenon DEF Shows
<1>4. Shows(R \cup {e}, n) = Of(two)
  BY Zenon DEF Shows
<1> HIDE DEF one, two, Of
<1> QED BY <1>2, <1>3, <1>4, Zenon

\* One cell c in the place of those from P + 1 to P + k.
Swap(q, P, k, c) == Upto(q, P) \o <<c>> \o From(q, P + k)

LEMMA SwapStarts ==
    ASSUME NEW p \in Seq(Cells), NEW q \in Seq(Cells), NEW k \in Nat, Len(q) = Len(p) + k, NEW c \in Cells,
           \A i \in 1..Len(p) : q[i] = p[i]
    PROVE  Swap(q, Len(p), k, c) = p \o <<c>>
<1> DEFINE P == Len(p)
<1>1. P \in Nat /\ P + k \in Nat /\ Len(q) = P + k /\ Len(q) \in Nat
  OBVIOUS
<1>2. /\ Upto(q, P) \in Seq(Cells) /\ Len(Upto(q, P)) = IF P <= Len(q) THEN P ELSE Len(q)
      /\ \A i \in 1..Len(Upto(q, P)) : Upto(q, P)[i] = q[i]
  BY <1>1, UptoIs
<1>3. From(q, P + k) \in Seq(Cells) /\ Len(From(q, P + k)) = IF P + k <= Len(q) THEN Len(q) - (P + k) ELSE 0
  BY <1>1, FromIs
<1> DEFINE u == Upto(q, P)
           w == From(q, P + k)
           x == Len(q)
<1>4. u \in Seq(Cells) /\ Len(u) = (IF P <= x THEN P ELSE x) /\ \A i \in 1..Len(u) : u[i] = q[i]
  BY <1>2
<1>5. w \in Seq(Cells) /\ Len(w) = IF P + k <= x THEN x - (P + k) ELSE 0
  BY <1>3
<1> HIDE DEF u, w, P, x
<1>6. x = P + k /\ P \in Nat
  BY <1>1 DEF x
<1>7. Len(u) = P
  BY <1>4, <1>6
<1>8. Len(w) = 0
  BY <1>5, <1>6
<1>9. \A i \in 1..Len(u) : u[i] = p[i]
  BY <1>4, <1>7 DEF P
<1>10. u = p
  BY <1>4, <1>7, <1>9, SameSequence DEF P
<1>11. w = <<>>
  BY <1>5, <1>8
<1>12. u \o <<c>> \o w = p \o <<c>>
  BY <1>10, <1>11
<1> QED BY <1>12, Zenon DEF Swap, u, w, P

LEMMA SwapGoesOn ==
    ASSUME NEW q \in Seq(Cells), NEW s \in Seq(Cells), NEW P \in Nat, NEW k \in Nat, P + k <= Len(q), NEW c \in Cells
    PROVE  Swap(q \o s, P, k, c) = Swap(q, P, k, c) \o s
<1> DEFINE r == q \o s
           y == P + k
           uq == Upto(q, P)
           ur == Upto(r, P)
           wq == From(q, y)
           wr == From(r, y)
<1>1. /\ r \in Seq(Cells) /\ Len(q) \in Nat /\ Len(s) \in Nat /\ Len(r) = Len(q) + Len(s)
      /\ \A i \in 1..Len(q) : r[i] = q[i]
      /\ \A i \in 1..Len(s) : r[Len(q) + i] = s[i]
  BY ConcatIs
<1>2. y \in Nat /\ P <= y /\ y <= Len(q)
  OBVIOUS
<1>0. r = q \o s
  OBVIOUS
<1> HIDE DEF r, y
<1>3. /\ uq \in Seq(Cells) /\ Len(uq) = (IF P <= Len(q) THEN P ELSE Len(q))
      /\ \A i \in 1..Len(uq) : uq[i] = q[i]
  BY UptoIs
<1>4. /\ ur \in Seq(Cells) /\ Len(ur) = (IF P <= Len(r) THEN P ELSE Len(r))
      /\ \A i \in 1..Len(ur) : ur[i] = r[i]
  BY <1>1, UptoIs
<1>5. /\ wq \in Seq(Cells) /\ Len(wq) = (IF y <= Len(q) THEN Len(q) - y ELSE 0)
      /\ \A i \in 1..Len(wq) : wq[i] = q[y + i]
  BY <1>2, FromIs
<1>6. /\ wr \in Seq(Cells) /\ Len(wr) = (IF y <= Len(r) THEN Len(r) - y ELSE 0)
      /\ \A i \in 1..Len(wr) : wr[i] = r[y + i]
  BY <1>1, <1>2, FromIs
<1> HIDE DEF uq, ur, wq, wr
<1> DEFINE lq == Len(q)
           ls == Len(s)
           lr == Len(r)
<1>7. lq \in Nat /\ ls \in Nat /\ lr = lq + ls /\ y <= lq
  BY <1>1, <1>2
<1>8. Len(uq) = (IF P <= lq THEN P ELSE lq) /\ Len(ur) = (IF P <= lr THEN P ELSE lr)
      /\ Len(wq) = (IF y <= lq THEN lq - y ELSE 0) /\ Len(wr) = (IF y <= lr THEN lr - y ELSE 0)
  BY <1>3, <1>4, <1>5, <1>6
<1> HIDE DEF lq, ls, lr
<1>9. Len(uq) = P /\ Len(ur) = P /\ Len(wq) = lq - y /\ Len(wr) = (lq - y) + ls /\ 1..P \subseteq 1..lq
  BY <1>2, <1>7, <1>8, SMT
<1>10. ur = uq
  <2>1. \A i \in 1..Len(ur) : ur[i] = uq[i]
    BY <1>1, <1>3, <1>4, <1>9, Zenon DEF lq
  <2> QED BY <1>3, <1>4, <1>9, <2>1, SameSequence
<1>11. wr = wq \o s
  <2> DEFINE ws == wq \o s
  <2>1. /\ ws \in Seq(Cells) /\ Len(ws) = Len(wq) + Len(s)
        /\ \A i \in 1..Len(wq) : ws[i] = wq[i]
        /\ \A i \in 1..Len(s) : ws[Len(wq) + i] = s[i]
    <3>1. wq \in Seq(Cells) /\ s \in Seq(Cells)
      BY <1>5
    <3> QED BY <3>1, ConcatIs
  <2> HIDE DEF ws
  <2>2. Len(ws) = (lq - y) + ls
    BY <1>9, <2>1 DEF ls
  <2>3. \A i \in 1..Len(wr) : wr[i] = ws[i]
    <3> TAKE i \in 1..Len(wr)
    <3>0. i \in Nat /\ 1 <= i /\ i <= (lq - y) + ls
      BY <1>2, <1>7, <1>9
    <3>1. CASE i <= lq - y
      <4>1. i \in 1..Len(wq) /\ y + i \in 1..lq
        BY <1>2, <1>7, <1>9, <3>0, <3>1, SMT
      <4>2. wr[i] = r[y + i] /\ wq[i] = q[y + i] /\ ws[i] = wq[i]
        BY <1>5, <1>6, <2>1, <4>1, Zenon
      <4>3. r[y + i] = q[y + i]
        BY <1>1, <4>1, Zenon DEF lq
      <4> QED BY <4>2, <4>3, Zenon
    <3>2. CASE ~(i <= lq - y)
      <4> DEFINE j == i - (lq - y)
      <4>1. j \in 1..ls /\ y + i = lq + j /\ i = (lq - y) + j
        BY <1>2, <1>7, <3>0, <3>2, SMT
      <4> HIDE DEF j
      <4>2. wr[i] = r[y + i]
        BY <1>6
      <4>3. r[lq + j] = s[j]
        BY <1>1, <4>1, Zenon DEF lq, ls
      <4>4. ws[(lq - y) + j] = s[j]
        BY <1>9, <2>1, <4>1, Zenon DEF ls
      <4> QED BY <4>1, <4>2, <4>3, <4>4, Zenon
    <3> QED BY <3>1, <3>2
  <2>4. wr = ws
    BY <1>6, <1>9, <2>1, <2>2, <2>3, SameSequence
  <2> QED BY <2>4 DEF ws
<1>12. Swap(r, P, k, c) = ur \o <<c>> \o wr /\ Swap(q, P, k, c) = uq \o <<c>> \o wq
  BY Zenon DEF Swap, ur, wr, uq, wq, y
<1>13. uq \o <<c>> \o (wq \o s) = (uq \o <<c>> \o wq) \o s
  BY <1>3, <1>5, SMTT(30)
<1> QED BY <1>0, <1>10, <1>11, <1>12, <1>13, Zenon

\* One more element put back: the first place its label is found gets its paste.
LEMMA OneMoreIs ==
    ASSUME ComposerAssumption, Clear, NEW R, R \subseteq elements, NEW e \in elements, e \notin R,
           NEW g, Chain(g, Pieces(R), Len(text)), NEW h, Chain(h, Pieces(R \cup {e}), Len(text))
    PROVE  h[Len(text)] = Swap(g[Len(text)], Len(g[e.from]), Len(e.label), BodyOf(e.label))
<1> DEFINE N == Len(text)
           a == e.from
           m == Len(e.label)
           b == a + m
           c == BodyOf(e.label)
           P == Len(g[a])
           Q == R \cup {e}
<1>0. N \in Nat
  BY DEF Clear
<1>1. a \in Nat /\ m \in Nat /\ m >= 3 /\ b <= N /\ e.to = b /\ c \in Cells
  <2>1. a \in Nat /\ m \in Nat /\ m >= 3 /\ e.to = a + m /\ e.to <= N
    BY ElementIs, Zenon
  <2>2. c \in Cells
    BY BodyOfElement
  <2> QED BY <2>1, <2>2, Zenon
<1>2. Q \subseteq elements /\ e \in Q
  OBVIOUS
<1>3. Chain(g, Pieces(R), N) /\ Chain(h, Pieces(Q), N)
  OBVIOUS
<1>4. \A n \in 0..N : g[n] \in Seq(Cells) /\ h[n] \in Seq(Cells)
  <2>1. \A n \in 0..N : g[n] \in Seq(Cells)
    BY <1>0, ChainTyped
  <2>2. \A n \in 0..N : h[n] \in Seq(Cells)
    BY <1>0, <1>3, ChainTyped
  <2> QED BY <2>1, <2>2
<1>5. \A n \in 1..N : g[n] = g[n - 1] \o Shows(R, n) /\ Shows(R, n) \in Seq(Cells)
  BY PieceIs, ShowsIs, Zenon
<1>6. \A n \in 1..N : h[n] = h[n - 1] \o Shows(Q, n)
  <2> HIDE DEF Q
  <2> QED BY <1>2, <1>3, PieceIs, Zenon
<1>7. \A n \in 1..N : n <= a \/ b < n => h[n] = h[n - 1] \o Shows(R, n)
  <2> TAKE n \in 1..N
  <2> HAVE n <= a \/ b < n
  <2>1. ~(a < n /\ n <= b)
    <3>1. n \in Nat /\ b \in Nat
      BY <1>0, <1>1
    <3> QED BY <1>1, <3>1, SMT
  <2>2. ~Under(e, n)
    BY <1>1, <2>1, Zenon DEF Under
  <2>3. Shows(Q, n) = Shows(R, n)
    BY <2>2, ShowsSame
  <2> QED BY <1>6, <2>3, Zenon
<1>8. h[b] = h[a] \o <<c>>
  <2> HIDE DEF Q
  <2>1. h[e.to] = h[e.from] \o <<BodyOf(e.label)>>
    BY <1>2, <1>3, StretchIs
  <2> QED BY <1>1, <2>1, Zenon
<1>9. g[0] = <<>> /\ h[0] = <<>>
  BY <1>3, Zenon DEF Chain
<1>10. Len(g[b]) = P + m
  <2>1. Gap(g, e)
    BY GapIs
  <2>2. m \in 0..m
    BY <1>1
  <2> QED BY <2>1, <2>2, Zenon DEF Gap
<1> HIDE DEF N, a, m, b, c, P, Q
<1>11. b \in Nat /\ a \in 0..N /\ b \in 0..N /\ b \in a..N /\ a <= b /\ N \in Nat
  BY <1>0, <1>1, SMT DEF b
\* Before the element the two are the same.
<1>12. h[a] = g[a]
  <2> DEFINE K == {k \in Nat : k <= a => h[k] = g[k]}
  <2>1. 0 \in K
    BY <1>9
  <2>2. ASSUME NEW k \in Nat, k \in K PROVE k + 1 \in K
    <3> SUFFICES ASSUME k + 1 <= a PROVE h[k + 1] = g[k + 1]
      OBVIOUS
    <3>1. k + 1 \in 1..N /\ (k + 1) - 1 = k /\ k <= a
      BY <1>1, <1>11, SMT
    <3>2. h[k] = g[k]
      BY <2>2, <3>1
    <3>3. h[k + 1] = h[(k + 1) - 1] \o Shows(R, k + 1) /\ g[k + 1] = g[(k + 1) - 1] \o Shows(R, k + 1)
      BY <1>5, <1>7, <3>1, Zenon
    <3> QED BY <3>1, <3>2, <3>3, Zenon
  <2> HIDE DEF K
  <2>3. Nat \subseteq K
    BY <2>1, <2>2, AllNumbers
  <2>4. a \in K /\ a <= a
    BY <1>1, <2>3
  <2> QED BY <2>4, Zenon DEF K
\* At its end it is swapped.
<1>13. h[b] = Swap(g[b], P, m, c)
  <2> DEFINE p == g[a]
             q == g[b]
  <2>1. p \in Seq(Cells) /\ q \in Seq(Cells)
    BY <1>4, <1>11
  <2>2. \A i \in 1..Len(g[a]) : g[b][i] = g[a][i]
    BY <1>3, <1>11, ChainPrefix, Zenon
  <2>3. Len(q) = Len(p) + m /\ \A i \in 1..Len(p) : q[i] = p[i]
    BY <1>10, <2>2 DEF P
  <2> HIDE DEF p, q
  <2>4. Swap(q, Len(p), m, c) = p \o <<c>>
    BY <1>1, <2>1, <2>3, SwapStarts
  <2> QED BY <1>8, <1>12, <2>4, Zenon DEF p, q, P
\* Behind it both go on alike.
<1>14. P \in Nat
  <2>1. g[a] \in Seq(Cells)
    BY <1>4, <1>11
  <2> QED BY <2>1 DEF P
<1>15. \A n \in 0..N : b <= n => P + m <= Len(g[n])
  <2> TAKE n \in 0..N
  <2> HAVE b <= n
  <2>1. n \in b..N
    BY <1>11
  <2>2. Len(g[b]) <= Len(g[n])
    BY <1>3, <1>11, <2>1, ChainPrefix
  <2> QED BY <1>10, <2>2
<1> DEFINE K == {k \in Nat : b <= k /\ k <= N => h[k] = Swap(g[k], P, m, c)}
<1>16. 0 \in K
  <2>1. b <= 0 => b = 0
    BY <1>11
  <2> QED BY <1>13, <2>1
<1>17. ASSUME NEW k \in Nat, k \in K PROVE k + 1 \in K
  <2> SUFFICES ASSUME b <= k + 1, k + 1 <= N PROVE h[k + 1] = Swap(g[k + 1], P, m, c)
    OBVIOUS
  <2>1. CASE b = k + 1
    BY <1>13, <2>1
  <2>2. CASE b <= k
    <3>1. k + 1 \in 1..N /\ (k + 1) - 1 = k /\ k <= N /\ k \in 0..N /\ b < k + 1
      BY <1>11, <2>2, SMT
    <3>2. h[k] = Swap(g[k], P, m, c)
      BY <1>17, <2>2, <3>1
    <3>3. /\ h[k + 1] = h[(k + 1) - 1] \o Shows(R, k + 1) /\ g[k + 1] = g[(k + 1) - 1] \o Shows(R, k + 1)
          /\ Shows(R, k + 1) \in Seq(Cells)
      BY <1>5, <1>7, <3>1, Zenon
    <3> DEFINE q == g[k]
               s == Shows(R, k + 1)
    <3>4. q \in Seq(Cells) /\ s \in Seq(Cells) /\ P + m <= Len(q)
      BY <1>4, <1>15, <2>2, <3>1, <3>3
    <3> HIDE DEF q, s
    <3>5. Swap(q \o s, P, m, c) = Swap(q, P, m, c) \o s
      BY <1>1, <1>14, <3>4, SwapGoesOn, SMTT(30)
    <3> QED BY <3>1, <3>2, <3>3, <3>5, Zenon DEF q, s
  <2>3. b <= k \/ b = k + 1
    BY <1>11, SMT
  <2> QED BY <2>1, <2>2, <2>3
<1> HIDE DEF K
<1>18. Nat \subseteq K
  BY <1>16, <1>17, AllNumbers
<1>19. N \in K /\ b <= N /\ N <= N
  BY <1>0, <1>1, <1>18
<1>20. h[N] = Swap(g[N], P, m, c)
  BY <1>19, Zenon DEF K
<1> QED BY <1>20, Zenon DEF N, P, a, m, c

LEMMA ReplaceIs ==
    ASSUME ComposerAssumption, Clear, NEW R, R \subseteq elements, NEW e \in elements, e \notin R,
           Min(Occurrences(text, e.label)) = e.from + 1,
           NEW p, p.label = e.label, p.body = BodyOf(e.label)
    PROVE  ReplaceFirst(PutBack(R), p) = PutBack(R \cup {e})
<1> DEFINE N == Len(text)
           Q == R \cup {e}
           v == e.label
<1>1. PICK g : Chain(g, Pieces(R), N) /\ PutBack(R) = g[N]
  BY PutBackIs
<1>2. Q \subseteq elements
  OBVIOUS
<1>3. PICK h : Chain(h, Pieces(Q), N) /\ PutBack(Q) = h[N]
  <2> HIDE DEF Q, N
  <2> QED BY <1>2, PutBackIs DEF N
<1> DEFINE t == g[N]
           P == Len(g[e.from])
           m == Len(v)
<1>4. Occurrences(t, v) # {} /\ Min(Occurrences(t, v)) = P + 1
  BY <1>1, FirstIs
<1>5. h[N] = Swap(t, P, m, BodyOf(v))
  BY <1>1, <1>3, OneMoreIs
<1>6. m \in Nat /\ P \in Nat
  <2>1. m \in Nat /\ e.from \in Nat /\ e.to = e.from + m /\ e.to <= N
    BY ElementIs, Zenon
  <2>2. N \in Nat
    BY DEF Clear
  <2>3. e.from \in 0..N
    <3> HIDE DEF N, m
    <3> QED BY <2>1, <2>2, SMT
  <2>4. g[e.from] \in Seq(Cells)
    BY <1>1, <2>2, <2>3, ChainTyped
  <2> QED BY <2>1, <2>4
<1>7. ReplaceFirst(t, p) = Upto(t, Min(Occurrences(t, v)) - 1) \o <<BodyOf(v)>> \o From(t, Min(Occurrences(t, v)) + m - 1)
  BY <1>4, Zenon DEF ReplaceFirst
<1>8. (P + 1) - 1 = P /\ (P + 1) + m - 1 = P + m
  <2> HIDE DEF P, m
  <2> QED BY <1>6, SMT
<1> HIDE DEF P, m, t, v, Q, N
<1>9. ReplaceFirst(t, p) = Upto(t, (P + 1) - 1) \o <<BodyOf(v)>> \o From(t, (P + 1) + m - 1)
  BY <1>4, <1>7, Zenon
<1>10. ReplaceFirst(t, p) = Upto(t, P) \o <<BodyOf(v)>> \o From(t, P + m)
  BY <1>8, <1>9, Zenon
<1>11. ReplaceFirst(t, p) = h[N]
  BY <1>5, <1>10, Zenon DEF Swap
<1> QED BY <1>1, <1>3, <1>11, Zenon DEF t, Q

\* With no element put back the text is as it was.
LEMMA NonePutBack == ASSUME ComposerAssumption, Clear PROVE PutBack({}) = text
<1> DEFINE N == Len(text)
           none == {}
<1>0. text \in Seq(Cells) /\ N \in Nat
  BY DEF Clear
<1>1. none \subseteq elements
  OBVIOUS
<1>2. PICK g : Chain(g, Pieces(none), N) /\ PutBack(none) = g[N]
  <2> HIDE DEF none
  <2> QED BY <1>1, PutBackIs
<1>3. \A n \in 1..N : Shows(none, n) = <<text[n]>>
  <2>1. \A n \in 1..N : (\A e \in none : ~Under(e, n)) => Shows(none, n) = <<text[n]>>
    <3> HIDE DEF none
    <3> QED BY <1>1, ShowsIs, Zenon
  <2> QED BY <2>1
<1> HIDE DEF none
<1>4. \A n \in 1..N : g[n] = g[n - 1] \o <<text[n]>> /\ text[n] \in Cells
  <2> TAKE n \in 1..N
  <2>1. g[n] = g[n - 1] \o Shows(none, n)
    BY <1>1, <1>2, PieceIs, Zenon
  <2>2. text[n] \in Cells
    BY <1>0
  <2> QED BY <1>3, <2>1, <2>2, Zenon
<1>5. g[0] = <<>>
  BY <1>2, Zenon DEF Chain
<1> DEFINE Good(k) == g[k] \in Seq(Cells) /\ Len(g[k]) = k /\ \A i \in 1..k : g[k][i] = text[i]
           K == {k \in Nat : k <= N => Good(k)}
<1>9. N = Len(text)
  OBVIOUS
<1> HIDE DEF N
<1>6. 0 \in K
  <2>1. Good(0)
    BY <1>5
  <2> HIDE DEF Good
  <2> QED BY <2>1
<1>7. ASSUME NEW k \in Nat, k \in K PROVE k + 1 \in K
  <2> SUFFICES ASSUME k + 1 <= N PROVE Good(k + 1)
    OBVIOUS
  <2>1. k + 1 \in 1..N /\ (k + 1) - 1 = k /\ k <= N
    BY <1>0, SMT
  <2>2. Good(k)
    BY <1>7, <2>1
  <2> DEFINE q == g[k]
             c == text[k + 1]
             r == g[k + 1]
  <2>3. r = q \o <<c>> /\ c \in Cells
    BY <1>4, <2>1, Zenon
  <2>4. q \in Seq(Cells) /\ Len(q) = k /\ \A i \in 1..k : q[i] = text[i]
    BY <2>2
  <2>6. c = text[k + 1]
    OBVIOUS
  <2> HIDE DEF q, c, r
  <2>5. r \in Seq(Cells) /\ Len(r) = k + 1 /\ r[k + 1] = c /\ \A i \in 1..k : r[i] = q[i]
    BY <2>3, <2>4
  <2>7. \A i \in 1..(k + 1) : i \in 1..k \/ i = k + 1
    BY SMT
  <2>8. \A i \in 1..(k + 1) : r[i] = text[i]
    BY <2>4, <2>5, <2>6, <2>7, Zenon
  <2> QED BY <2>5, <2>8 DEF r
<1> HIDE DEF K
<1>8. Nat \subseteq K
  BY <1>6, <1>7, AllNumbers
<1>10. N \in K /\ N <= N
  BY <1>0, <1>8
<1>11. Good(N)
  BY <1>10, Zenon DEF K
<1> DEFINE r == g[N]
<1>12. r \in Seq(Cells) /\ Len(r) = Len(text) /\ \A i \in 1..Len(r) : r[i] = text[i]
  BY <1>9, <1>11
<1> HIDE DEF r
<1>13. r = text
  BY <1>0, <1>12, SameSequence
<1> QED BY <1>2, <1>13 DEF r, none

\* The replacements one after another.
ReplacedUpTo(t, d, n) == d = [k \in 0..n |-> IF k = 0 THEN t ELSE ReplaceFirst(d[k - 1], pending[k])]

LEMMA ReplacedExists == ASSUME NEW t, NEW n \in Nat PROVE \E d : ReplacedUpTo(t, d, n)
<1> DEFINE K == {k \in Nat : \E d : ReplacedUpTo(t, d, k)}
<1>1. 0 \in K
  <2> DEFINE d == [m \in 0..0 |-> t]
  <2>1. \A m \in 0..0 : m = 0
    BY SMT
  <2>2. ReplacedUpTo(t, d, 0)
    BY <2>1, Zenon DEF ReplacedUpTo
  <2> QED BY <2>2
<1>2. ASSUME NEW k \in Nat, k \in K PROVE k + 1 \in K
  <2>1. PICK d : ReplacedUpTo(t, d, k)
    BY <1>2
  <2> DEFINE h == [m \in 0..(k + 1) |-> IF m = k + 1 THEN ReplaceFirst(d[k], pending[k + 1]) ELSE d[m]]
  <2>2. /\ \A m \in 0..(k + 1) : m = k + 1 \/ m \in 0..k
        /\ \A m \in 0..k : m # k + 1 /\ m \in 0..(k + 1)
        /\ \A m \in 0..(k + 1) : m # 0 => m - 1 \in 0..k
        /\ (k + 1) - 1 = k /\ k + 1 # 0 /\ k + 1 \in Nat
    BY SMT
  <2>3. \A m \in 0..k : d[m] = IF m = 0 THEN t ELSE ReplaceFirst(d[m - 1], pending[m])
    BY <2>1, Zenon DEF ReplacedUpTo
  <2>4. \A m \in 0..k : h[m] = d[m]
    BY <2>2, Zenon
  <2>5. \A m \in 0..(k + 1) : h[m] = IF m = 0 THEN t ELSE ReplaceFirst(h[m - 1], pending[m])
    <3> TAKE m \in 0..(k + 1)
    <3>1. CASE m = k + 1
      BY <3>1, <2>2, <2>4, Zenon
    <3>2. CASE m \in 0..k
      BY <3>2, <2>2, <2>3, <2>4, Zenon
    <3> QED BY <3>1, <3>2, <2>2
  <2>6. ReplacedUpTo(t, h, k + 1)
    BY <2>5, Zenon DEF ReplacedUpTo
  <2> QED BY <2>2, <2>6, Zenon
<1> HIDE DEF K
<1>3. Nat \subseteq K
  BY <1>1, <1>2, AllNumbers
<1> QED BY <1>3 DEF K

LEMMA ExpandIs ==
    ASSUME NEW t, Len(pending) \in Nat
    PROVE  \E d : /\ Expand(t) = d[Len(pending)] /\ d[0] = t
                  /\ \A k \in 1..Len(pending) : d[k] = ReplaceFirst(d[k - 1], pending[k])
<1> DEFINE n == Len(pending)
           done == CHOOSE d : ReplacedUpTo(t, d, n)
<1>1. ReplacedUpTo(t, done, n)
  BY ReplacedExists, Zenon
<1>2. Expand(t) = done[n]
  BY Zenon DEF Expand, ReplacedUpTo
<1>3. n \in Nat
  OBVIOUS
<1> HIDE DEF n, done
<1>4. \A k \in 0..n : done[k] = IF k = 0 THEN t ELSE ReplaceFirst(done[k - 1], pending[k])
  BY <1>1, Zenon DEF ReplacedUpTo
<1>5. 0 \in 0..n /\ \A k \in 1..n : k \in 0..n /\ k # 0
  BY <1>3, SMT
<1>6. done[0] = t /\ \A k \in 1..n : done[k] = ReplaceFirst(done[k - 1], pending[k])
  BY <1>4, <1>5, Zenon
<1> QED BY <1>2, <1>6, Zenon DEF n

\* The pastes are put back one after another, each at the place of its own element.
LEMMA ExpandsToMeant ==
    ASSUME ComposerAssumption, Clear, \A e \in elements : Min(Occurrences(text, e.label)) = e.from + 1
    PROVE  Expand(text) = Meant
<1> DEFINE n == Len(pending)
           R(k) == {e \in elements : \E i \in 1..k : pending[i].label = e.label}
<1>1. n \in Nat
  BY DEF Clear
<1>2. PICK d : /\ Expand(text) = d[n] /\ d[0] = text
               /\ \A k \in 1..n : d[k] = ReplaceFirst(d[k - 1], pending[k])
  BY <1>1, ExpandIs
<1>3. \A k : R(k) \subseteq elements
  BY Zenon
<1>4. R(0) = {}
  <2>1. 1..0 = {}
    BY SMT
  <2> QED BY <2>1
<1>5. R(n) = elements
  <2>1. \A e \in elements : \E i \in 1..n : pending[i].label = e.label
    BY Zenon DEF Clear, Meets
  <2> QED BY <2>1, Zenon
<1>6. ASSUME NEW k \in Nat, k + 1 <= n
      PROVE  \E e \in elements : e.label = pending[k + 1].label /\ e \notin R(k) /\ R(k + 1) = R(k) \cup {e}
  <2>1. k + 1 \in 1..n /\ \A i \in 1..k : i \in 1..n /\ i # k + 1
    BY <1>1, <1>6, SMT
  <2>2. PICK e \in elements : e.label = pending[k + 1].label
    BY <2>1, Zenon DEF Clear, Shown
  <2>3. \A f \in elements : f.label = e.label => f = e
    BY Zenon DEF Clear, Meets, Distinct
  <2>4. \A i \in 1..k : pending[i].label # pending[k + 1].label
    BY <2>1, Zenon DEF Clear, Apart
  <2>5. e \notin R(k)
    BY <2>2, <2>4, Zenon
  <2>6. \A i \in 1..(k + 1) : i \in 1..k \/ i = k + 1
    BY SMT
  <2>7. 1..k \subseteq 1..(k + 1) /\ k + 1 \in 1..(k + 1)
    BY SMT
  <2>8. R(k + 1) = R(k) \cup {e}
    <3>1. ASSUME NEW f \in R(k + 1) PROVE f \in R(k) \cup {e}
      BY <2>2, <2>3, <2>6, <3>1, Zenon
    <3>2. ASSUME NEW f \in R(k) \cup {e} PROVE f \in R(k + 1)
      BY <2>2, <2>7, <3>2, Zenon
    <3> QED BY <3>1, <3>2, Zenon
  <2> QED BY <2>2, <2>5, <2>8
<1> HIDE DEF R, n
<1> DEFINE K == {k \in Nat : k <= n => d[k] = PutBack(R(k))}
<1>7. 0 \in K
  <2>1. d[0] = PutBack(R(0))
    BY <1>2, <1>4, NonePutBack, Zenon
  <2> QED BY <2>1
<1>8. ASSUME NEW k \in Nat, k \in K PROVE k + 1 \in K
  <2> SUFFICES ASSUME k + 1 <= n PROVE d[k + 1] = PutBack(R(k + 1))
    OBVIOUS
  <2>1. k + 1 \in 1..n /\ (k + 1) - 1 = k /\ k <= n
    BY <1>1, SMT
  <2>2. d[k] = PutBack(R(k))
    BY <1>8, <2>1
  <2>3. PICK e \in elements : e.label = pending[k + 1].label /\ e \notin R(k) /\ R(k + 1) = R(k) \cup {e}
    BY <1>6
  <2> DEFINE p == pending[k + 1]
             S == R(k)
  <2>4. p.body = BodyOf(p.label)
    <3>1. k + 1 \in 1..Len(pending)
      BY <2>1 DEF n
    <3> HIDE DEF p
    <3>2. BodyOf(pending[k + 1].label) = pending[k + 1].body
      BY <3>1, BodyOfIs
    <3> QED BY <3>2 DEF p
  <2>5. /\ S \subseteq elements /\ e \notin S /\ Min(Occurrences(text, e.label)) = e.from + 1
        /\ p.label = e.label /\ p.body = BodyOf(e.label)
    BY <1>3, <2>3, <2>4, Zenon
  <2> HIDE DEF p, S
  <2>6. ReplaceFirst(PutBack(S), p) = PutBack(S \cup {e})
    BY <2>5, ReplaceIs
  <2>7. d[k + 1] = ReplaceFirst(d[k], p)
    BY <1>2, <2>1, Zenon DEF p
  <2> QED BY <2>2, <2>3, <2>6, <2>7, Zenon DEF S
<1> HIDE DEF K
<1>9. Nat \subseteq K
  BY <1>7, <1>8, AllNumbers
<1>10. n \in K /\ n <= n
  BY <1>1, <1>9
<1>11. d[n] = PutBack(R(n))
  BY <1>10, Zenon DEF K
<1> QED BY <1>2, <1>5, <1>11, Zenon DEF Meant
-----------------------------------------------------------------------------
\* The pastes of a prompt arrive.
LEMMA InvGivesPastes == ComposerAssumption /\ ComposerInv => PastesArrive
<1> SUFFICES ASSUME ComposerAssumption, ComposerInv PROVE PastesArrive
  OBVIOUS
<1>1. AreaTypes /\ (~strayed => AreaForm) /\ Numbered /\ Matched
  BY DEF ComposerInv
<1>2. text \in Seq(Cells) /\ elements \subseteq Spans
  BY <1>1 DEF AreaTypes
<1>3. ~strayed => Placed(text, elements)
  BY <1>1, Zenon DEF AreaForm, InForm
<1>4. ASSUME ~strayed, NEW e \in elements PROVE SubSeq(text, e.from + 1, e.to) = e.label
  <2>1. e.from \in Nat /\ e.to \in Nat /\ e.label \in Labels
    <3>1. e \in Spans
      BY <1>2
    <3> QED BY <3>1, SpanIs
  <2>2. /\ e.to = e.from + Len(e.label) /\ e.to <= Len(text)
        /\ \A i \in 1..Len(e.label) : text[e.from + i] = e.label[i]
    BY <1>3, <1>4, Zenon DEF Placed
  <2>3. e.label \in Seq(Cells) /\ Len(e.label) \in Nat /\ Len(e.label) >= 3
    BY <2>1, LabelIs
  <2> DEFINE a == e.from
             b == e.to
             l == e.label
             m == Len(l)
             s == SubSeq(text, a + 1, b)
  <2>4. a \in Nat /\ m \in Nat /\ b = a + m /\ b <= Len(text) /\ l \in Seq(Cells)
        /\ \A i \in 1..m : text[a + i] = l[i]
    BY <2>1, <2>2, <2>3, Zenon
  <2>5. Len(l) = m
    OBVIOUS
  <2> HIDE DEF a, b, l, m
  <2>6. s \in Seq(Cells) /\ Len(s) = m /\ \A i \in 1..m : s[i] = text[a + i]
    <3>1. a \in Nat /\ b \in Nat /\ m \in Nat /\ b = a + m /\ b <= Len(text)
      BY <2>4
    <3> QED BY <1>2, <3>1, SMT
  <2> HIDE DEF s
  <2>7. \A i \in 1..Len(s) : s[i] = l[i]
    BY <2>4, <2>6, Zenon
  <2>8. s = l
    BY <2>4, <2>5, <2>6, <2>7, SameSequence
  <2> QED BY <2>8 DEF s, l, a, b
<1>5. ASSUME ~strayed, ~undone, \A e \in elements : Min(Occurrences(text, e.label)) = e.from + 1
      PROVE  Expand(text) = Meant
  <2>1. Clear
    BY <1>1, <1>2, <1>3, <1>5, Zenon DEF Clear, Numbered, Matched
  <2> QED BY <1>5, <2>1, ExpandsToMeant
<1> QED BY <1>4, <1>5, Zenon DEF PastesArrive

\* As long as nothing was undone, no motion left the cursor inside an element or beyond the
\* text, and no placeholder is spelled before its own place (also not as the beginning of
\* the numbered one of another paste): what Enter sends holds each paste at its placeholder,
\* whatever was typed, moved, deleted and completed before (PasteManager.expand after the
\* editor's own bookkeeping of its elements).
THEOREM PastesArriveCorrect == ComposerSpec => []PastesArrive
<1>1. ComposerInit => ComposerInv
  BY ComposerStarts, ComposerAssumption
<1>2. ComposerInv /\ [ComposerNext]_composerVars => ComposerInv'
  BY ComposerKept, ComposerAssumption
<1>3. ComposerInv => PastesArrive
  BY InvGivesPastes, ComposerAssumption
<1> QED BY <1>1, <1>2, <1>3, PTL DEF ComposerSpec

-----------------------------------------------------------------------------
(* The types of the workflow, beyond its invariant.                        *)

\* What the state of the workflow is, beside what WorkflowInv says of it.
Phases == {"planning", "planned", "repair", "revalidate", "check", "completion",
           "completion_validation", "report", "done"} \cup ToSet(Order)
Plans ==
    /\ asked \in (0..PlannerAttempts) \X (0..PlanAttempts)
    /\ kept \in {"none", "sound", "unsound"} /\ plan \in {"none", "accepted", "sound", "strategy"}
OnDisk ==
    /\ contract \subseteq Symbols
    /\ DOMAIN disk = Files /\ \A f \in Files : disk[f] \in Contents(f) \cup {Absent}
    /\ evidence \in [changed : BOOLEAN, passed : {"none", "yes", "no"}]
    /\ last \in [ok : BOOLEAN, error : Errors \cup {NoError}]
Flags ==
    /\ blocked \in BOOLEAN /\ finished \in BOOLEAN /\ fresh \in BOOLEAN
    /\ result \in {"none", "success", "failed", "cancelled"}
WorkflowTypes == pc \in Phases /\ Plans /\ OnDisk /\ Flags

LEMMA PhasesOfOrder ==
    /\ Phases = {"planning", "planned", "repair", "revalidate", "check", "completion",
                 "completion_validation", "report", "done", "skeleton", "tests", "implementation",
                 "validation"}
<1>1. Order \in Seq({"skeleton", "tests", "implementation", "validation"}) /\ Len(Order) = 4
      /\ Order[1] = "skeleton" /\ Order[2] = "tests" /\ Order[3] = "implementation" /\ Order[4] = "validation"
  BY DEF Order
<1>2. ToSet(Order) = {"skeleton", "tests", "implementation", "validation"}
  <2>1. ToSet(Order) = {Order[i] : i \in 1..4}
    BY <1>1 DEF ToSet
  <2> QED BY <1>1, <2>1
<1> QED BY <1>2, Zenon DEF Phases

LEMMA WorkflowTypesStart ==
    ASSUME {PlanAttempts, PlannerAttempts} \subseteq Nat, WorkflowInit
    PROVE  WorkflowTypes
<1>1. pc \in Phases
  BY Zenon DEF WorkflowInit, Phases
<1>2. Plans
  BY DEF WorkflowInit, Plans
<1>3. OnDisk
  <2>1. contract \subseteq Symbols /\ disk = [f \in Files |-> Absent]
    BY DEF WorkflowInit
  <2>2. evidence = [changed |-> FALSE, passed |-> "none"] /\ last = [ok |-> FALSE, error |-> NoError]
    BY DEF WorkflowInit, NoResult
  <2>3. evidence \in [changed : BOOLEAN, passed : {"none", "yes", "no"}]
    BY <2>2
  <2>4. last \in [ok : BOOLEAN, error : Errors \cup {NoError}]
    BY <2>2
  <2> QED BY <2>1, <2>3, <2>4 DEF OnDisk
<1>4. Flags
  BY Zenon DEF WorkflowInit, Flags
<1> QED BY <1>1, <1>2, <1>3, <1>4 DEF WorkflowTypes

LEMMA PlanningTyped ==
    ASSUME {PlanAttempts, PlannerAttempts} \subseteq Nat, WorkflowTypes,
           AttemptFails \/ AttemptKept \/ AttemptAccepted \/ FallsBack \/ Approved \/ Rejected
    PROVE  WorkflowTypes'
<1>1. OnDisk' /\ fresh' = fresh /\ blocked' = blocked
  <2>1. UNCHANGED Disk /\ blocked' = blocked
    BY Zenon DEF AttemptFails, AttemptKept, AttemptAccepted, FallsBack, Approved, Rejected, Repairing
  <2> QED BY <2>1, Zenon DEF WorkflowTypes, OnDisk, Disk
<1>2. pc' \in Phases
  BY PhasesOfOrder, Zenon DEF WorkflowTypes, AttemptFails, AttemptKept, AttemptAccepted, FallsBack, Approved, Rejected
<1>3. Flags'
  <2>1. finished' = finished /\ result' \in {result, "cancelled"}
    BY Zenon DEF AttemptFails, AttemptKept, AttemptAccepted, FallsBack, Approved, Rejected, Outcome
  <2> QED BY <1>1, <2>1, Zenon DEF WorkflowTypes, Flags
<1>4. Plans'
  <2>1. asked \in (0..PlannerAttempts) \X (0..PlanAttempts) /\ Plans
    BY DEF WorkflowTypes, Plans
  <2>2. CASE AttemptFails
    <3>1. asked' \in (0..PlannerAttempts) \X (0..PlanAttempts)
      BY <2>1, <2>2 DEF AttemptFails
    <3> QED BY <2>1, <2>2, <3>1 DEF AttemptFails, Plans
  <2>3. CASE AttemptKept
    BY <2>1, <2>3 DEF AttemptKept, Plans
  <2>4. CASE AttemptAccepted
    BY <2>1, <2>4 DEF AttemptAccepted, Plans
  <2>5. CASE FallsBack
    BY <2>1, <2>5 DEF FallsBack, Plans
  <2>6. CASE Approved \/ Rejected
    BY <2>1, <2>6, Zenon DEF Approved, Rejected, Plans, Planning
  <2> QED BY <2>2, <2>3, <2>4, <2>5, <2>6
<1> QED BY <1>1, <1>2, <1>3, <1>4 DEF WorkflowTypes

\* What is written over the files of the plan is again content of theirs.
LEMMA WrittenOver ==
    ASSUME DOMAIN disk = Files, \A f \in Files : disk[f] \in Contents(f) \cup {Absent},
           NEW made, DOMAIN made \subseteq Files, \A f \in DOMAIN made : made[f] \in Contents(f),
           disk' = Over(made)
    PROVE  DOMAIN disk' = Files /\ \A f \in Files : disk'[f] \in Contents(f) \cup {Absent}
BY DEF Over

LEMMA WrittenFiles ==
    ASSUME NEW fs \in SUBSET Files, NEW made \in Written(fs)
    PROVE  DOMAIN made = fs /\ \A f \in fs : made[f] \in Contents(f)
BY DEF Written

LEMMA RepairedFiles ==
    ASSUME NEW made \in Repaired
    PROVE  DOMAIN made \subseteq Files /\ \A f \in DOMAIN made : made[f] \in Contents(f)
<1>1. PICK fs \in SUBSET Files : made \in Written(fs)
  BY Zenon DEF Repaired
<1> QED BY <1>1, WrittenFiles, Zenon

LEMMA StageTyped ==
    ASSUME WorkflowTypes, WriteStage \/ StageFails
    PROVE  WorkflowTypes'
<1>0. OnDisk /\ Plans /\ Flags /\ pc \in Phases
  BY DEF WorkflowTypes
<1>1. CASE WriteStage
  <2>1. UNCHANGED <<asked, kept, plan, last, blocked, result, finished>> /\ fresh' = FALSE
    BY <1>1, Zenon DEF WriteStage, Planning, Repairing, Outcome
  <2>2. Plans' /\ Flags'
    BY <1>0, <2>1, Zenon DEF Plans, Flags
  <2>3. pc' \in Phases
    <3>1. pc \in {"skeleton", "tests", "implementation"} /\ pc' = Following(pc)
      BY <1>1, Zenon DEF WriteStage
    <3> QED BY <3>1, FollowingStep, PhasesOfOrder, Zenon
  <2>4. PICK made \in Written(StageFiles(pc)) :
          /\ IF pc = "implementation"
             THEN made["source"] \in Generated /\ contract' = Symbol(made["source"])
             ELSE UNCHANGED contract
          /\ disk' = Over(made)
    BY <1>1, Zenon DEF WriteStage
  <2>5. StageFiles(pc) \in SUBSET Files
    BY DEF StageFiles, Files
  <2>6. DOMAIN made \subseteq Files /\ \A f \in DOMAIN made : made[f] \in Contents(f)
    BY <2>5, WrittenFiles, Zenon
  <2>7. DOMAIN disk' = Files /\ \A f \in Files : disk'[f] \in Contents(f) \cup {Absent}
    BY <1>0, <2>4, <2>6, WrittenOver, Zenon DEF OnDisk
  <2>8. contract' \subseteq Symbols
    <3>1. CASE pc = "implementation"
      <4>1. made["source"] \in Sources /\ contract' = Symbol(made["source"])
        BY <2>4, <3>1, Zenon DEF Generated
      <4>2. ASSUME NEW c \in Sources PROVE Symbol(c) \subseteq Symbols
        <5>1. CASE c = Broken
          <6>1. c.is = "broken"
            BY <5>1 DEF Broken
          <6>2. c.is # "source"
            BY <6>1, Zenon
          <6> QED BY <6>2 DEF Symbol
        <5>2. CASE c \in [is : {"source"}, defs : SUBSET Symbols]
          BY <5>2 DEF Symbol
        <5> QED BY <5>1, <5>2, Zenon DEF Sources
      <4> QED BY <4>1, <4>2, Zenon
    <3>2. CASE pc # "implementation"
      BY <1>0, <2>4, <3>2, Zenon DEF OnDisk
    <3> QED BY <3>1, <3>2
  <2>9. evidence' \in [changed : BOOLEAN, passed : {"none", "yes", "no"}]
    <3> DEFINE some == evidence.changed \/ StageFiles(pc) # {}
    <3>1. evidence' = [evidence EXCEPT !.changed = some]
      BY <1>1, Zenon DEF WriteStage
    <3>2. some \in BOOLEAN /\ evidence \in [changed : BOOLEAN, passed : {"none", "yes", "no"}]
      BY <1>0, Zenon DEF OnDisk
    <3> HIDE DEF some
    <3> QED BY <3>1, <3>2
  <2>10. OnDisk'
    BY <1>0, <2>1, <2>7, <2>8, <2>9, Zenon DEF OnDisk
  <2> QED BY <2>2, <2>3, <2>10 DEF WorkflowTypes
<1>2. CASE StageFails
  <2>1. /\ pc' = "done" /\ result' = "failed"
        /\ UNCHANGED <<asked, kept, plan, last, blocked, finished, contract, disk, evidence, fresh>>
    BY <1>2, Zenon DEF StageFails, Fails, Planning, Repairing
  <2>2. Plans' /\ Flags' /\ OnDisk'
    BY <1>0, <2>1, Zenon DEF Plans, Flags, OnDisk
  <2> QED BY <2>1, <2>2, PhasesOfOrder, Zenon DEF WorkflowTypes
<1> QED BY <1>1, <1>2

LEMMA ValidatedTyped ==
    ASSUME OnDisk, NEW r, Validated(r), UNCHANGED <<contract, disk>>
    PROVE  OnDisk' /\ fresh' = TRUE
<1>1. r \in [ok : BOOLEAN, error : Errors \cup {NoError}]
  <2>1. r \in Outcomes
    BY Zenon DEF Validated
  <2>2. CASE r \in [ok : {FALSE}, error : Errors]
    BY <2>2
  <2>3. CASE r = [ok |-> TRUE, error |-> NoError]
    BY <2>3
  <2> QED BY <2>1, <2>2, <2>3, Zenon DEF Outcomes
<1>2. evidence' \in [changed : BOOLEAN, passed : {"none", "yes", "no"}]
  <2> DEFINE what == IF r.ok THEN "yes" ELSE "no"
  <2>1. evidence' = [evidence EXCEPT !.passed = what]
    BY Zenon DEF Validated
  <2>2. what \in {"none", "yes", "no"} /\ evidence \in [changed : BOOLEAN, passed : {"none", "yes", "no"}]
    BY Zenon DEF OnDisk
  <2> HIDE DEF what
  <2> QED BY <2>1, <2>2
<1>3. last' = r /\ fresh' = TRUE
  BY Zenon DEF Validated
<1> QED BY <1>1, <1>2, <1>3, Zenon DEF OnDisk

LEMMA ValidateTyped ==
    ASSUME WorkflowTypes, \E r \in Outcomes : Validate(r) \/ Revalidate(r) \/ CompletionValidate(r)
    PROVE  WorkflowTypes'
<1>0. OnDisk /\ Plans /\ Flags /\ pc \in Phases
  BY DEF WorkflowTypes
<1>1. PICK r \in Outcomes : Validate(r) \/ Revalidate(r) \/ CompletionValidate(r)
  OBVIOUS
<1>2. /\ Validated(r) /\ UNCHANGED <<contract, disk, asked, kept, plan, result, finished>>
      /\ pc' \in {"check", "repair", "completion"}
      /\ blocked' \in {blocked, (~r.ok /\ (r = last \/ attempts = MaxRepairs))}
  BY <1>1, Zenon DEF Validate, Revalidate, CompletionValidate, Planning, Outcome, Repairing
<1>3. OnDisk' /\ fresh' = TRUE
  BY <1>0, <1>2, ValidatedTyped
<1>4. blocked' \in BOOLEAN
  BY <1>0, <1>2, Zenon DEF Flags
<1>5. Plans' /\ Flags'
  BY <1>0, <1>2, <1>3, <1>4, Zenon DEF Plans, Flags
<1> QED BY <1>2, <1>3, <1>5, PhasesOfOrder, Zenon DEF WorkflowTypes

LEMMA RepairTyped ==
    ASSUME WorkflowTypes, Repair \/ CompletionRepair
    PROVE  WorkflowTypes'
<1>0. OnDisk /\ Plans /\ Flags /\ pc \in Phases
  BY DEF WorkflowTypes
<1>1. /\ UNCHANGED <<asked, kept, plan, contract, evidence, last, result, finished>>
      /\ pc' \in {"revalidate", "completion_validation"} /\ fresh' = FALSE /\ blocked' = FALSE
      /\ \E files \in Repaired : disk' = Over(files)
  BY Zenon DEF Repair, CompletionRepair, Planning, Outcome
<1>2. DOMAIN disk' = Files /\ \A f \in Files : disk'[f] \in Contents(f) \cup {Absent}
  BY <1>0, <1>1, RepairedFiles, WrittenOver, Zenon DEF OnDisk
<1>3. OnDisk' /\ Plans' /\ Flags'
  BY <1>0, <1>1, <1>2, Zenon DEF Plans, Flags, OnDisk
<1> QED BY <1>1, <1>3, PhasesOfOrder, Zenon DEF WorkflowTypes

LEMMA NoRepairTyped ==
    ASSUME WorkflowTypes, NoRepair \/ NoCompletionRepair \/ CompletionEnds
    PROVE  WorkflowTypes'
<1>0. OnDisk /\ Plans /\ Flags /\ pc \in Phases
  BY DEF WorkflowTypes
<1>1. /\ UNCHANGED <<asked, kept, plan, contract, disk, evidence, last, fresh, result, finished>>
      /\ pc' \in {"check", "report"}
      /\ blocked' \in {TRUE, (blocked \/ (Repairable /\ attempts < MaxRepairs))}
  BY Zenon DEF NoRepair, NoCompletionRepair, CompletionEnds, Planning, Outcome, Disk
<1>2. blocked' \in BOOLEAN
  BY <1>1, Zenon
<1>3. OnDisk' /\ Plans' /\ Flags'
  BY <1>0, <1>1, <1>2, Zenon DEF Plans, Flags, OnDisk
<1> QED BY <1>1, <1>3, PhasesOfOrder, Zenon DEF WorkflowTypes

LEMMA EndTyped ==
    ASSUME WorkflowTypes, RepairFails \/ \E told \in BOOLEAN : Report(told)
    PROVE  WorkflowTypes'
<1>0. OnDisk /\ Plans /\ Flags /\ pc \in Phases
  BY DEF WorkflowTypes
<1>1. CASE RepairFails
  <2>1. /\ UNCHANGED <<asked, kept, plan, contract, evidence, last, blocked, finished>>
        /\ pc' = "done" /\ result' = "failed"
        /\ \E files \in (IF pc = "repair" THEN Repaired ELSE {<<>>}) :
              disk' = Over(files) /\ fresh' = (fresh /\ DOMAIN files = {})
    BY <1>1, Zenon DEF RepairFails, Fails, Planning, Repairing
  <2>2. PICK files \in (IF pc = "repair" THEN Repaired ELSE {<<>>}) :
              disk' = Over(files) /\ fresh' = (fresh /\ DOMAIN files = {})
    BY <2>1
  <2>3. DOMAIN files \subseteq Files /\ \A f \in DOMAIN files : files[f] \in Contents(f)
    <3>1. CASE files \in Repaired
      BY <3>1, RepairedFiles, Zenon
    <3>2. CASE files = <<>>
      <4>1. DOMAIN files = {}
        BY <3>2
      <4> QED BY <4>1, Zenon
    <3> QED BY <3>1, <3>2, Zenon
  <2>4. DOMAIN disk' = Files /\ \A f \in Files : disk'[f] \in Contents(f) \cup {Absent}
    BY <1>0, <2>2, <2>3, WrittenOver, Zenon DEF OnDisk
  <2>5. fresh' \in BOOLEAN
    BY <2>2, Zenon
  <2>6. OnDisk' /\ Plans' /\ Flags'
    BY <1>0, <2>1, <2>4, <2>5, Zenon DEF Plans, Flags, OnDisk
  <2> QED BY <2>1, <2>6, PhasesOfOrder, Zenon DEF WorkflowTypes
<1>2. ASSUME NEW told \in BOOLEAN, Report(told) PROVE WorkflowTypes'
  <2>1. /\ UNCHANGED <<asked, kept, plan, contract, disk, evidence, last, blocked, fresh>>
        /\ pc' = "done" /\ finished' = TRUE /\ result' \in {"success", "failed"}
    BY <1>2, Zenon DEF Report, Planning, Disk, Repairing
  <2>2. OnDisk' /\ Plans' /\ Flags'
    BY <1>0, <2>1, Zenon DEF Plans, Flags, OnDisk
  <2> QED BY <2>1, <2>2, PhasesOfOrder, Zenon DEF WorkflowTypes
<1> QED BY <1>1, <1>2

LEMMA WorkflowTypesStep ==
    ASSUME {PlanAttempts, PlannerAttempts} \subseteq Nat, WorkflowTypes, [WorkflowNext]_workflowVars
    PROVE  WorkflowTypes'
<1>1. CASE UNCHANGED workflowVars
  <2>1. UNCHANGED <<asked, kept, plan, contract, disk, evidence, last, blocked, fresh, finished, result, pc>>
    BY <1>1, Zenon DEF workflowVars
  <2>2. pc' \in Phases
    BY <2>1, PhasesOfOrder, Zenon DEF WorkflowTypes
  <2>3. OnDisk /\ Plans /\ Flags
    BY DEF WorkflowTypes
  <2>4. OnDisk'
    BY <2>1, <2>3, Zenon DEF OnDisk
  <2>5. Plans' /\ Flags'
    BY <2>1, <2>3, Zenon DEF Plans, Flags
  <2> QED BY <2>2, <2>4, <2>5, Zenon DEF WorkflowTypes
<1>2. CASE WorkflowNext
  BY <1>2, PlanningTyped, StageTyped, ValidateTyped, RepairTyped, NoRepairTyped, EndTyped DEF WorkflowNext
<1> QED BY <1>1, <1>2

LEMMA WorkflowTypesHold ==
    ASSUME WorkflowInv, WorkflowTypes
    PROVE  WorkflowTypeOK
<1>1. attempts \in 0..MaxRepairs
  BY DEF WorkflowInv, Repeats
<1> QED BY <1>1, Zenon DEF WorkflowTypeOK, WorkflowTypes, Phases, Plans, OnDisk, Flags

-----------------------------------------------------------------------------
(* The types of the stream, beyond its invariant.                          *)

\* What the state of the stream is, beside what StreamInv says of it.
InOrder == Range(order) = DOMAIN buffers /\ IsInjective(order)
Tried == attempt \in 0..MaxRetries
Answered ==
    /\ phase \in {"idle", "connect", "stream", "parse", "done"} /\ spoken \in BOOLEAN
    /\ ended \in {"no", "stop", "length"} /\ produced \in BOOLEAN
    /\ heard \subseteq {"plain", "pseudo", "reasoning", "failed", "stop", "length"}
    /\ reply.status \in Statuses
StreamTypes == InOrder /\ Tried /\ Answered

\* The texts of a script.
LEMMA TextOfScript ==
    ASSUME Scripted
    PROVE  script.text \in {"none", "plain", "pseudo"}
<1>1. CASE script = NoScript
  BY <1>1 DEF NoScript
<1>2. CASE script \in Scripts
  BY <1>2 DEF Scripts
<1> QED BY <1>1, <1>2 DEF Scripted

LEMMA StreamTypesStart ==
    ASSUME MaxRetries \in Nat, StreamInit
    PROVE  StreamTypes
<1>1. order = <<>> /\ buffers = <<>> /\ attempt = 0
  BY DEF StreamInit
<1>2. DOMAIN order = {} /\ DOMAIN buffers = {}
  BY <1>1
<1>3. InOrder
  BY <1>2 DEF InOrder, Range, IsInjective
<1>4. Tried
  BY <1>1 DEF Tried
<1>5. reply.status = "none"
  BY DEF StreamInit, NoReply
<1>6. reply.status \in Statuses
  BY <1>5, Zenon DEF Statuses
<1>7. Answered
  BY <1>6, Zenon DEF StreamInit, Answered
<1> QED BY <1>3, <1>4, <1>7 DEF StreamTypes

LEMMA ReplyTyped ==
    ASSUME Answered, NEW what \in Statuses \cup {"none"}, reply' = [NoReply EXCEPT !.status = what]
    PROVE  reply'.status \in Statuses
<1>1. reply'.status = what
  BY DEF NoReply
<1> QED BY <1>1, Zenon DEF Statuses

\* The steps that no fragment comes with.
LEMMA ParsedTyped ==
    ASSUME NEW made
    PROVE  Parsed(made).status \in Statuses
<1> DEFINE s == IF "pseudo" \in heard THEN "pseudo_tool_call" ELSE
                IF "plain" \in heard THEN "ok_text" ELSE
                IF "reasoning" \in heard THEN "reasoning_only" ELSE "empty_response"
<1>1. s \in Statuses
  BY Zenon DEF Statuses
<1>2. /\ {"malformed_tool_call", "length_cutoff", "ok_tool_calls"} \subseteq Statuses
  BY Zenon DEF Statuses
<1> DEFINE q == [status |-> s, calls |-> <<>>]
<1>3. q.status = s
  OBVIOUS
<1> DEFINE given == [i \in DOMAIN order |-> made[order[i]]]
<1> HIDE DEF s
<1>4. Parsed(made) \in {[status |-> "malformed_tool_call", calls |-> <<>>], [status |-> "length_cutoff", calls |-> <<>>],
                  [status |-> "ok_tool_calls", calls |-> given], q}
  BY Zenon DEF Parsed, s
<1> HIDE DEF q, given
<1>5. CASE Parsed(made) = [status |-> "malformed_tool_call", calls |-> <<>>]
  BY <1>2, <1>5
<1>6. CASE Parsed(made) = [status |-> "length_cutoff", calls |-> <<>>]
  BY <1>2, <1>6
<1>7. CASE Parsed(made) = [status |-> "ok_tool_calls", calls |-> given]
  <2>1. Parsed(made).status = "ok_tool_calls"
    BY <1>7
  <2> QED BY <1>2, <2>1, Zenon
<1>8. CASE Parsed(made) = q
  BY <1>1, <1>3, <1>8, Zenon
<1> QED BY <1>4, <1>5, <1>6, <1>7, <1>8, Zenon

LEMMA RefusedTyped ==
    ASSUME MaxRetries \in Nat, StreamTypes, Refused \/ TransportError
    PROVE  StreamTypes'
<1>1. /\ phase' \in {phase, "connect", "done"} /\ UNCHANGED <<buffers, order, heard>>
      /\ (attempt' = attempt \/ (attempt < MaxRetries /\ attempt' = attempt + 1))
      /\ (reply' = reply \/ reply' = [NoReply EXCEPT !.status = "raised"])
      /\ spoken' \in {spoken, FALSE} /\ ended' \in {ended, "no"} /\ produced' \in {produced, FALSE}
  BY DEF Refused, TransportError, MayRetry, Said, Heard
<1>2. InOrder'
  BY <1>1 DEF StreamTypes, InOrder, Range, IsInjective
<1>3. Tried'
  BY <1>1 DEF StreamTypes, Tried
<1>4. reply'.status \in Statuses
  BY <1>1, ReplyTyped, Zenon DEF StreamTypes, Answered, Statuses
<1>5. Answered'
  BY <1>1, <1>4, Zenon DEF StreamTypes, Answered, Statuses
<1> QED BY <1>2, <1>3, <1>5 DEF StreamTypes

LEMMA HeardTyped ==
    ASSUME StreamTypes, Scripted,
           \/ Request \/ Connected \/ Text \/ Reasoning \/ Garbled
           \/ \E reason \in {"stop", "length"} : Finish(reason)
           \/ Done \/ Stops \/ TimesOutEmpty \/ Parse
    PROVE  StreamTypes'
<1>0. script.text \in {"none", "plain", "pseudo"}
  BY TextOfScript
<1> DEFINE Sorts == {"plain", "pseudo", "reasoning", "failed", "stop", "length"}
<1>1. /\ phase' \in {phase, "connect", "stream", "parse", "done"} /\ UNCHANGED <<buffers, order, attempt>>
      /\ spoken' \in {spoken, TRUE} /\ ended' \in {ended, "stop", "length"} /\ produced' \in {produced, TRUE}
      /\ \/ reply' \in {reply, [NoReply EXCEPT !.status = "timeout"]}
         \/ \E made \in Salvages : reply' = Parsed(made)
  BY DEF Request, Connected, Text, Reasoning, Garbled, Finish, Done, Stops, TimesOutEmpty, Parse, Said, Heard
<1>2. heard \subseteq Sorts
  BY DEF StreamTypes, Answered
<1>3. heard' \subseteq Sorts
  <2>1. CASE Text
    BY <1>0, <1>2, <2>1 DEF Text
  <2>2. CASE Reasoning \/ Garbled
    BY <1>2, <2>2 DEF Reasoning, Garbled
  <2>3. ASSUME NEW reason \in {"stop", "length"}, Finish(reason) PROVE heard' \subseteq Sorts
    BY <1>2, <2>3 DEF Finish
  <2>4. CASE Done
    BY <1>2, <2>4 DEF Done
  <2>5. CASE Request \/ Connected \/ Stops \/ TimesOutEmpty \/ Parse
    BY <1>2, <2>5 DEF Request, Connected, Stops, TimesOutEmpty, Parse, Heard
  <2> QED BY <2>1, <2>2, <2>3, <2>4, <2>5
<1>4. InOrder'
  BY <1>1 DEF StreamTypes, InOrder, Range, IsInjective
<1>5. Tried'
  BY <1>1 DEF StreamTypes, Tried
<1>6. reply'.status \in Statuses
  <2>1. CASE reply' = [NoReply EXCEPT !.status = "timeout"]
    BY <2>1, ReplyTyped, Zenon DEF StreamTypes, Statuses
  <2>2. CASE \E made \in Salvages : reply' = Parsed(made)
    BY <2>2, ParsedTyped, Zenon
  <2> QED BY <1>1, <2>1, <2>2, Zenon DEF StreamTypes, Answered
<1>7. Answered'
  BY <1>1, <1>3, <1>6, Zenon DEF StreamTypes, Answered, Statuses
<1> QED BY <1>4, <1>5, <1>7 DEF StreamTypes

\* A fragment of a call whose first one comes now puts its id at the end.
LEMMA ListedOnce ==
    ASSUME NEW S, NEW s \in Seq(S), Range(s) = S, IsInjective(s), NEW x, x \notin S
    PROVE  Range(Append(s, x)) = S \cup {x} /\ IsInjective(Append(s, x))
<1>1. /\ DOMAIN Append(s, x) = 1..(Len(s) + 1) /\ DOMAIN s = 1..Len(s) /\ Len(s) \in Nat
      /\ \A i \in 1..Len(s) : Append(s, x)[i] = s[i] /\ s[i] \in S
      /\ Append(s, x)[Len(s) + 1] = x
  OBVIOUS
<1> DEFINE t == Append(s, x)
<1> HIDE DEF t
<1>2. \A i \in DOMAIN t : i \in 1..Len(s) \/ i = Len(s) + 1
  BY <1>1 DEF t
<1>3. Range(t) = S \cup {x}
  <2>1. \A i \in DOMAIN t : t[i] \in S \cup {x}
    BY <1>1, <1>2 DEF t
  <2>2. ASSUME NEW y \in S PROVE \E i \in DOMAIN t : t[i] = y
    <3>1. PICK i \in DOMAIN s : s[i] = y
      BY DEF Range
    <3>2. i \in DOMAIN t /\ t[i] = y
      BY <1>1, <3>1 DEF t
    <3> QED BY <3>2
  <2>3. \E i \in DOMAIN t : t[i] = x
    <3>1. Len(s) + 1 \in DOMAIN t /\ t[Len(s) + 1] = x
      BY <1>1 DEF t
    <3> QED BY <3>1
  <2>4. ASSUME NEW y \in Range(t) PROVE y \in S \cup {x}
    BY <2>1, <2>4, Zenon DEF Range
  <2>5. ASSUME NEW y \in S \cup {x} PROVE y \in Range(t)
    <3>1. \E i \in DOMAIN t : t[i] = y
      BY <2>2, <2>3, <2>5, Zenon
    <3> QED BY <3>1, Zenon DEF Range
  <2> QED BY <2>4, <2>5
<1>4. IsInjective(t)
  <2>1. ASSUME NEW i \in DOMAIN t, NEW k \in DOMAIN t, t[i] = t[k] PROVE i = k
    <3>1. CASE i \in 1..Len(s) /\ k \in 1..Len(s)
      BY <1>1, <2>1, <3>1 DEF IsInjective, t
    <3>2. CASE i \in 1..Len(s) /\ k = Len(s) + 1
      BY <1>1, <2>1, <3>2 DEF t
    <3>3. CASE k \in 1..Len(s) /\ i = Len(s) + 1
      BY <1>1, <2>1, <3>3 DEF t
    <3> QED BY <1>2, <3>1, <3>2, <3>3
  <2> QED BY <2>1, Zenon DEF IsInjective
<1> QED BY <1>3, <1>4 DEF t

LEMMA FragmentTyped ==
    ASSUME StreamTypes, Listed, NEW j \in DOMAIN sent, Fragment(j)
    PROVE  StreamTypes'
<1> DEFINE id == CallId(Index(j), Given(j))
           so == IF id \in DOMAIN buffers THEN buffers[id] ELSE <<>>
<1>1. /\ UNCHANGED <<spoken, ended, attempt, heard, reply, phase>> /\ produced' = TRUE
      /\ buffers' = Put(buffers, id, Append(so, <<j, sent[j] + 1>>))
      /\ order' = IF id \in DOMAIN buffers THEN order ELSE Append(order, id)
  BY DEF Fragment
<1> HIDE DEF id, so
<1>2. DOMAIN buffers' = DOMAIN buffers \cup {id}
  BY <1>1 DEF Put
<1>3. InOrder'
  <2>1. CASE id \in DOMAIN buffers
    <3>1. DOMAIN buffers' = DOMAIN buffers /\ order' = order
      BY <1>1, <1>2, <2>1
    <3> QED BY <3>1 DEF StreamTypes, InOrder, Range, IsInjective
  <2>2. CASE id \notin DOMAIN buffers
    <3>1. order' = Append(order, id)
      BY <1>1, <2>2
    <3>2. Range(Append(order, id)) = DOMAIN buffers \cup {id} /\ IsInjective(Append(order, id))
      BY <2>2, ListedOnce, Zenon DEF StreamTypes, InOrder, Listed
    <3> QED BY <1>2, <3>1, <3>2 DEF InOrder, Range, IsInjective
  <2> QED BY <2>1, <2>2
<1>4. Tried'
  BY <1>1 DEF StreamTypes, Tried
<1>5. Answered'
  BY <1>1, Zenon DEF StreamTypes, Answered, Statuses
<1> QED BY <1>3, <1>4, <1>5 DEF StreamTypes

LEMMA StreamTypesStep ==
    ASSUME MaxRetries \in Nat, StreamInv, StreamTypes, [StreamNext]_streamVars
    PROVE  StreamTypes'
<1>0. Scripted /\ Listed
  BY DEF StreamInv
<1>1. CASE Refused \/ TransportError
  BY <1>1, RefusedTyped
<1>2. ASSUME NEW j \in DOMAIN sent, Fragment(j) PROVE StreamTypes'
  BY <1>0, <1>2, FragmentTyped
<1>3. CASE \/ Request \/ Connected \/ Text \/ Reasoning \/ Garbled
           \/ \E reason \in {"stop", "length"} : Finish(reason)
           \/ Done \/ Stops \/ TimesOutEmpty \/ Parse
  BY <1>0, <1>3, HeardTyped
<1>4. CASE UNCHANGED streamVars
  <2>1. UNCHANGED <<order, buffers, attempt, phase, spoken, ended, produced, heard, reply>>
    BY <1>4, Zenon DEF streamVars
  <2>2. InOrder' /\ Tried'
    BY <2>1 DEF StreamTypes, InOrder, Tried, Range, IsInjective
  <2>3. Answered'
    BY <2>1, Zenon DEF StreamTypes, Answered, Statuses
  <2> QED BY <2>2, <2>3 DEF StreamTypes
<1> QED BY <1>1, <1>2, <1>3, <1>4 DEF StreamNext

LEMMA StreamTypesHold ==
    ASSUME StreamInv, StreamTypes
    PROVE  StreamTypeOK
<1>1. Range(script.calls) \subseteq Tools
  BY AnyScript DEF StreamInv, Scripted, Range
<1>2. DOMAIN sent = DOMAIN script.calls
  BY DEF StreamInv, Scripted, Calls
<1> QED BY <1>1, <1>2, Zenon DEF StreamTypeOK, StreamTypes, InOrder, Tried, Answered

-----------------------------------------------------------------------------
(* The types of the plans.                                                 *)

\* Where a plan may have its root, and the commands that it may have there.
PlanRoots == Roots \cup {<<"generated_project">>}
PlanTypes ==
    /\ planStage \in {"asked", "answered", "sanitized", "judged", "strategy"}
    /\ verdict \in {"none", "acceptable", "sound", "unsound"}
    /\ (planStage = "asked" /\ answer = NoAnswer /\ wish = NoWish)
         \/ (planStage # "asked" /\ answer \in PossibleAnswers /\ wish \in Wishes)
    /\ project.commands \subseteq [text : {"pytest"}, cwd : PlanRoots]

LEMMA NoPlanHasNoCommand == NoPlan.commands = {}
BY DEF NoPlan

LEMMA PlanTypesStart == ASSUME PlansInit PROVE PlanTypes
BY NoPlanHasNoCommand DEF PlansInit, PlanTypes

LEMMA AnswerFields ==
    ASSUME NEW a \in PossibleAnswers, NEW w \in Wishes
    PROVE  /\ a.root \in Roots /\ a.files \subseteq Paths /\ a.commands \subseteq ValidationCommands
           /\ w.hint \in Roots \cup {NoRoot}
<1>1. a.root \in Roots /\ w.hint \in Roots \cup {NoRoot}
  BY DEF PossibleAnswers, Wishes
<1>2. a.files \in UNION {kSubset(k, Paths) : k \in 0..MaxFiles}
  BY Zenon DEF PossibleAnswers
<1>3. a.commands \in UNION {kSubset(k, ValidationCommands) : k \in 0..1}
  BY DEF PossibleAnswers
<1>4. a.files \subseteq Paths
  BY <1>2 DEF kSubset
<1>5. a.commands \subseteq ValidationCommands
  BY <1>3 DEF kSubset
<1> QED BY <1>1, <1>4, <1>5

\* A command that is kept is pytest, at a root.
LEMMA CommandsAtRoots ==
    ASSUME NEW c \in ValidationCommands, NEW original \in Roots, NEW root \in Roots
    PROVE  SanitizedCommand(c, original, root) \subseteq [text : {"pytest"}, cwd : Roots]
<1> DEFINE cwd == IF original # root /\ c.cwd = original THEN root
                  ELSE IF root # <<>> /\ c.cwd = <<>> THEN root ELSE c.cwd
<1>1. SUFFICES ASSUME c.text = "pytest"
               PROVE  [c EXCEPT !.cwd = cwd] \in [text : {"pytest"}, cwd : Roots]
  <2>1. SanitizedCommand(c, original, root) \subseteq {[c EXCEPT !.cwd = cwd]}
    BY DEF SanitizedCommand
  <2>2. c.text # "pytest" => SanitizedCommand(c, original, root) = {}
    BY DEF SanitizedCommand
  <2> QED BY <2>1, <2>2
<1>2. c \in [text : {"pytest"}, cwd : Roots]
  <2>1. "pytest" # "make" /\ "pytest" # "pytest; rm"
    BY Zenon
  <2> QED BY <1>1, <2>1 DEF ValidationCommands
<1>3. cwd \in Roots
  BY <1>2
<1> HIDE DEF cwd
<1> QED BY <1>2, <1>3

LEMMA SanitizeTyped ==
    ASSUME PlanTypes, Sanitize
    PROVE  PlanTypes'
<1> DEFINE root == IF wish.hint = NoRoot THEN answer.root ELSE wish.hint
           commands == UNION {SanitizedCommand(c, answer.root, root) : c \in answer.commands}
<1>1. /\ planStage = "answered" /\ planStage' = "sanitized" /\ UNCHANGED <<answer, wish, verdict>>
      /\ (project' = NoPlan \/ \E f, o : project' = [root |-> root, files |-> f, obliged |-> o, commands |-> commands])
  BY DEF Sanitize
<1>2. answer \in PossibleAnswers /\ wish \in Wishes
  BY <1>1 DEF PlanTypes
<1>3. root \in Roots /\ answer.root \in Roots /\ answer.commands \subseteq ValidationCommands
  BY <1>2, AnswerFields
<1>4. commands \subseteq [text : {"pytest"}, cwd : Roots]
  <2> HIDE DEF root
  <2> QED BY <1>3, CommandsAtRoots
<1> HIDE DEF commands, root
<1>5. project'.commands \subseteq [text : {"pytest"}, cwd : PlanRoots]
  <2>1. project'.commands \in {{}, commands}
    BY <1>1, NoPlanHasNoCommand
  <2> QED BY <1>4, <2>1 DEF PlanRoots
<1> QED BY <1>1, <1>2, <1>5 DEF PlanTypes

LEMMA StrategyTyped ==
    ASSUME PlanTypes, UseStrategy
    PROVE  PlanTypes'
<1> DEFINE root == IF wish.hint # NoRoot /\ wish.hint # <<>> /\ SafeRoot(wish.hint)
                   THEN wish.hint ELSE <<"generated_project">>
           command == [text |-> "pytest", cwd |-> root]
<1>1. /\ planStage \in {"sanitized", "judged"} /\ planStage' = "strategy" /\ verdict' = "acceptable"
      /\ UNCHANGED <<answer, wish>>
      /\ project'.commands = {command}
  BY DEF UseStrategy
<1>2. answer \in PossibleAnswers /\ wish \in Wishes
  BY <1>1 DEF PlanTypes
<1>3. root \in PlanRoots
  BY <1>2, AnswerFields, Zenon DEF PlanRoots
<1> HIDE DEF root
<1>4. command \in [text : {"pytest"}, cwd : PlanRoots]
  BY <1>3
<1> HIDE DEF command
<1> QED BY <1>1, <1>2, <1>4 DEF PlanTypes

LEMMA PlanTypesStep ==
    ASSUME PlanTypes, [PlansNext]_plansVars
    PROVE  PlanTypes'
<1>1. CASE Receive
  BY <1>1 DEF Receive, PlanTypes
<1>2. ASSUME NEW b \in BOOLEAN, NEW thin \in BOOLEAN, Judge(b, thin) PROVE PlanTypes'
  <2>1. /\ planStage = "sanitized" /\ planStage' = "judged" /\ UNCHANGED <<answer, wish, project>>
        /\ verdict' \in {"unsound", "sound", "acceptable"}
    BY <1>2, Zenon DEF Judge
  <2> QED BY <2>1 DEF PlanTypes
<1>3. CASE UNCHANGED plansVars
  BY <1>3 DEF plansVars, PlanTypes
<1> QED BY <1>1, <1>2, <1>3, SanitizeTyped, StrategyTyped DEF PlansNext

LEMMA PlanTypesHold ==
    ASSUME PlanTypes
    PROVE  PlansTypeOK
<1>1. /\ answer.files \subseteq Paths /\ answer.root \in Roots \cup {NoRoot} /\ wish.hint \in Roots \cup {NoRoot}
  <2>1. CASE answer = NoAnswer /\ wish = NoWish
    BY <2>1 DEF NoAnswer, NoWish
  <2>2. CASE answer \in PossibleAnswers /\ wish \in Wishes
    BY <2>2, AnswerFields
  <2> QED BY <2>1, <2>2 DEF PlanTypes
<1>2. [text : {"pytest"}, cwd : PlanRoots] \subseteq ValidationCommands \cup [text : {"pytest"}, cwd : {<<"generated_project">>}]
  BY DEF ValidationCommands, PlanRoots
<1> QED BY <1>1, <1>2 DEF PlanTypes, PlansTypeOK

-----------------------------------------------------------------------------
(* The types of the inspection, beyond its invariant.                      *)

\* What the state of the inspection is, beside what InspectInv says of it: a round has one
\* call of the model and one of the loop.
Sighted ==
    /\ searched \subseteq Forms \X SourceFiles /\ probed \subseteq SourceFiles
    /\ overviewed \in BOOLEAN /\ packages \in 0..MaxPackages /\ truncated \in BOOLEAN
Paced ==
    /\ round \in 0..MaxRounds /\ actions \in Nat /\ observations \in 0..2
    /\ at \in {"round", "model"} => actions <= 2 * round
    /\ at = "ground" => actions <= 2 * round + 1
    /\ at \in {"model", "ground"} => round < MaxRounds
    /\ at = "ended" => actions <= 2 * MaxRounds
Retried == reported \subseteq SourceFiles /\ scopeRetries \in 0..2 /\ dependencyRetried \in BOOLEAN
Concluded ==
    /\ at \in {"round", "model", "ground", "ended"} /\ guarded \in BOOLEAN
    /\ outcome \in {"none", "answered", "safe", "sanitized", "partial"}
    /\ cited \subseteq SourceFiles
InspectTypes == Sighted /\ Paced /\ Retried /\ Concluded

\* Line ranges are there or not.
LEMMA AnchoredStays ==
    ASSUME anchored \in BOOLEAN, [InspectNext]_inspectVars
    PROVE  anchored' \in BOOLEAN
<1>1. anchored' = anchored \/ \E got \in Probes : anchored' = (anchored \/ got = "ranges")
  BY Zenon DEF InspectNext, inspectVars, gathered, Decide, Exhausted, Search, SeeMatches, AnswersUnobserved, Answers,
     Again, Ends, Overview, SeeOverview, List, Read, SeeFile, Probe, SeeProbe, GroundRead, GroundProbe, CallFails,
     CallBlocked, CallDenied, GroundNothing, GroundRefused, AnswersEarly, AnswersDependency, AnswersBeyondScope
<1> QED BY <1>1, Zenon

LEMMA InspectTypesStart ==
    ASSUME InspectInit
    PROVE  InspectTypes /\ anchored \in BOOLEAN
<1>0. /\ searched = {} /\ probed = {} /\ anchored = FALSE /\ overviewed = FALSE /\ packages = 0 /\ truncated = FALSE
      /\ round = 0 /\ actions = 0 /\ observations = 0 /\ at = "round"
      /\ reported = {} /\ scopeRetries = 0 /\ dependencyRetried = FALSE
      /\ guarded = FALSE /\ outcome = "none" /\ cited = {}
  BY Zenon DEF InspectInit
<1>1. Sighted
  <2>1. MaxPackages \in Nat
    BY InspectionAssumption
  <2>2. packages \in 0..MaxPackages
    BY <1>0, <2>1
  <2>3. searched \subseteq Forms \X SourceFiles /\ probed \subseteq SourceFiles
    BY <1>0
  <2> QED BY <1>0, <2>2, <2>3, Zenon DEF Sighted
<1>2. Paced
  BY <1>0, InspectionAssumption DEF Paced
<1>3. Retried
  <2>1. scopeRetries \in 0..2 /\ reported \subseteq SourceFiles
    BY <1>0
  <2> QED BY <1>0, <2>1, Zenon DEF Retried
<1>4. Concluded
  BY <1>0 DEF Concluded
<1> QED BY <1>0, <1>1, <1>2, <1>3, <1>4 DEF InspectTypes

LEMMA UpToTwo ==
    ASSUME NEW k \in 0..2
    PROVE  Min({2, k + 1}) \in 0..2
<1> DEFINE S == {2, k + 1}
<1>1. \E x \in S : \A y \in S : x <= y
  OBVIOUS
<1>2. Min(S) = CHOOSE x \in S : \A y \in S : x <= y
  BY DEF Min
<1>3. Min(S) \in S /\ Min(S) <= 2
  BY <1>1, <1>2
<1> QED BY <1>3

LEMMA DecideTyped ==
    ASSUME InspectTypes, Decide \/ Exhausted
    PROVE  InspectTypes'
<1>1. /\ UNCHANGED <<searched, probed, overviewed, packages, truncated, observations, round, actions,
                     reported, scopeRetries, dependencyRetried, guarded, cited>>
      /\ at = "round" /\ ((at' = "model" /\ round < MaxRounds) \/ (at' = "ended" /\ round = MaxRounds))
      /\ outcome' \in {outcome, "partial"}
  BY Zenon DEF Decide, Exhausted, gathered, retries
<1>2. Sighted' /\ Retried'
  BY <1>1 DEF InspectTypes, Sighted, Retried
<1>3. Paced'
  BY <1>1 DEF InspectTypes, Paced
<1>4. Concluded'
  BY <1>1 DEF InspectTypes, Concluded
<1> QED BY <1>2, <1>3, <1>4 DEF InspectTypes

LEMMA SightedMore ==
    ASSUME Sighted, Seen, NEW found \in SUBSET SourceFiles, NEW n \in 1..MaxPackages, NEW cut \in BOOLEAN,
           SeeOverview(found, n, cut) \/ SeeMatches(found)
    PROVE  Sighted'
<1>1. CASE SeeOverview(found, n, cut)
  <2>1. overviewed' = TRUE /\ packages' = n /\ truncated' = (truncated \/ cut) /\ probed' = probed
        /\ searched' = searched \cup {<<"rel", f>> : f \in found}
    BY <1>1, Zenon DEF SeeOverview
  <2>2. truncated' \in BOOLEAN
    BY <2>1, Zenon
  <2>3. searched' \subseteq Forms \X SourceFiles
    BY <2>1 DEF Sighted, Forms
  <2>4. packages' \in 0..MaxPackages
    BY <2>1, InspectionAssumption
  <2> QED BY <2>1, <2>2, <2>3, <2>4, Zenon DEF Sighted
<1>2. CASE SeeMatches(found)
  BY <1>2 DEF SeeMatches, Sighted, Forms
<1> QED BY <1>1, <1>2

LEMMA SightedFile ==
    ASSUME Sighted, NEW f \in SourceFiles, Looks(f)
    PROVE  Sighted'
BY DEF Looks, SeeFile, SeeProbe, Sighted

\* A call of the model, whatever becomes of it.
LEMMA CalledTyped ==
    ASSUME InspectTypes, Sighted', Counted, at = "model", at' = "ground", actions' = actions + 1,
           guarded' \in {guarded, TRUE}, UNCHANGED <<round, reported, scopeRetries, dependencyRetried, outcome, cited>>
    PROVE  InspectTypes'
<1>1. observations' \in 0..2
  BY UpToTwo DEF InspectTypes, Paced, Counted
<1>2. Paced'
  BY <1>1 DEF InspectTypes, Paced
<1>3. Retried'
  BY DEF InspectTypes, Retried
<1>4. Concluded'
  BY DEF InspectTypes, Concluded
<1> QED BY <1>2, <1>3, <1>4 DEF InspectTypes

LEMMA LookTyped ==
    ASSUME InspectTypes, Seen, NEW found \in SUBSET SourceFiles, NEW n \in 1..MaxPackages, NEW cut \in BOOLEAN,
           Overview(found, n, cut) \/ List(found, n, cut)
    PROVE  InspectTypes'
<1>1. Called /\ Counted /\ CallRest /\ (SeeOverview(found, n, cut) \/ SeeMatches(found))
  BY DEF Overview, List
<1>2. Sighted'
  BY <1>1, SightedMore DEF InspectTypes
<1> QED BY <1>1, <1>2, CalledTyped DEF Called, CallRest, retries

LEMMA SearchTyped ==
    ASSUME InspectTypes, NEW found \in SUBSET SourceFiles, Search(found)
    PROVE  InspectTypes'
<1>1. Called /\ Counted /\ CallRest /\ SeeMatches(found)
  BY DEF Search
<1>2. Sighted'
  BY <1>1 DEF InspectTypes, Sighted, SeeMatches, Forms
<1> QED BY <1>1, <1>2, CalledTyped DEF Called, CallRest, retries

LEMMA ReadTyped ==
    ASSUME InspectTypes, NEW f \in SourceFiles, Read(f) \/ \E got \in Probes : Probe(f, got)
    PROVE  InspectTypes'
<1>1. Called /\ Counted /\ CallRest /\ Looks(f)
  BY DEF Read, Probe, Looks
<1>2. Sighted'
  BY <1>1, SightedFile DEF InspectTypes
<1> QED BY <1>1, <1>2, CalledTyped DEF Called, CallRest, retries

LEMMA CallLostTyped ==
    ASSUME InspectTypes, CallFails \/ CallBlocked \/ CallDenied
    PROVE  InspectTypes'
<1>1. /\ UNCHANGED <<searched, overviewed, packages, truncated, probed>> /\ Counted
      /\ at = "model" /\ at' = "ground" /\ actions' = actions + 1 /\ guarded' \in {guarded, TRUE}
      /\ UNCHANGED <<round, reported, scopeRetries, dependencyRetried, outcome, cited>>
  BY DEF CallFails, Called, CallBlocked, CallDenied, CallRest, retries
<1>2. Sighted'
  BY <1>1 DEF InspectTypes, Sighted
<1> QED BY <1>1, <1>2, CalledTyped

\* The loop reads at most once, and the round is over.
LEMMA GroundTyped ==
    ASSUME InspectTypes, Sighted', at = "ground", GroundOutcome, actions' \in {actions, actions + 1},
           Counted \/ observations' = observations
    PROVE  InspectTypes'
<1>1. /\ guarded' = FALSE /\ UNCHANGED <<reported, scopeRetries, dependencyRetried, cited>>
      /\ \/ outcome' = "partial" /\ at' = "ended" /\ round' = round
         \/ outcome' = outcome /\ at' = "round" /\ round' = round + 1
  BY DEF GroundOutcome, retries
<1>2. observations' \in 0..2
  BY UpToTwo DEF InspectTypes, Paced, Counted
<1>3. Paced'
  BY <1>1, <1>2, InspectionAssumption DEF InspectTypes, Paced
<1>4. Retried'
  BY <1>1 DEF InspectTypes, Retried
<1>5. Concluded'
  BY <1>1 DEF InspectTypes, Concluded
<1> QED BY <1>3, <1>4, <1>5 DEF InspectTypes

LEMMA GroundReadTyped ==
    ASSUME InspectTypes, NEW f \in SourceFiles, GroundRead(f) \/ \E got \in Probes : GroundProbe(f, got)
    PROVE  InspectTypes'
<1>1. at = "ground" /\ GroundOutcome /\ actions' = actions + 1 /\ Counted /\ Looks(f)
  BY DEF GroundRead, GroundProbe, Looks
<1> QED BY <1>1, SightedFile, GroundTyped DEF InspectTypes

LEMMA GroundRestTyped ==
    ASSUME InspectTypes, GroundNothing \/ GroundRefused
    PROVE  InspectTypes'
<1>1. /\ at = "ground" /\ GroundOutcome /\ actions' \in {actions, actions + 1}
      /\ (Counted \/ observations' = observations)
      /\ UNCHANGED <<searched, overviewed, packages, truncated, probed>>
  BY DEF GroundNothing, GroundRefused, gathered
<1>2. Sighted'
  BY <1>1 DEF InspectTypes, Sighted
<1> QED BY <1>1, <1>2, GroundTyped

LEMMA TextTyped ==
    ASSUME InspectTypes, at = "model", Retried',
           Again \/ \E how \in {"answered", "safe", "sanitized", "partial"}, names \in SUBSET SourceFiles : Ends(how, names)
    PROVE  InspectTypes'
<1>1. /\ UNCHANGED <<searched, overviewed, packages, truncated, probed, observations, actions, guarded>>
      /\ \/ at' = "round" /\ round' = round + 1 /\ UNCHANGED <<outcome, cited>>
         \/ at' = "ended" /\ round' = round /\ cited' \subseteq SourceFiles
              /\ outcome' \in {"answered", "safe", "sanitized", "partial"}
  BY DEF Again, Ends, gathered
<1>2. Sighted'
  BY <1>1 DEF InspectTypes, Sighted
<1>3. Paced'
  BY <1>1, InspectionAssumption DEF InspectTypes, Paced
<1>4. Concluded'
  BY <1>1 DEF InspectTypes, Concluded
<1> QED BY <1>2, <1>3, <1>4 DEF InspectTypes

LEMMA AnswersTyped ==
    ASSUME InspectTypes, NEW names \in SUBSET SourceFiles,
           AnswersEarly \/ AnswersUnobserved(names) \/ AnswersDependency \/ AnswersBeyondScope \/ Answers(names)
    PROVE  InspectTypes'
<1>1. /\ at = "model"
      /\ Again \/ \E how \in {"answered", "safe", "sanitized", "partial"}, n \in SUBSET SourceFiles : Ends(how, n)
  BY DEF AnswersEarly, AnswersUnobserved, AnswersDependency, AnswersBeyondScope, Answers
<1>2. /\ dependencyRetried' \in {dependencyRetried, TRUE}
      /\ scopeRetries' = scopeRetries \/ (scopeRetries < 2 /\ scopeRetries' = scopeRetries + 1)
  BY DEF AnswersEarly, AnswersUnobserved, AnswersDependency, AnswersBeyondScope, Answers, Ends, retries
<1>3. reported' \subseteq SourceFiles
  <2>1. Unobserved(names) \subseteq SourceFiles
    BY DEF Unobserved
  <2>2. reported' = reported \/ \E f \in Unobserved(names) : reported' = reported \cup {f}
    BY DEF AnswersEarly, AnswersUnobserved, AnswersDependency, AnswersBeyondScope, Answers, Ends, retries
  <2> QED BY <2>1, <2>2 DEF InspectTypes, Retried
<1>4. scopeRetries' \in 0..2
  <2>1. scopeRetries \in 0..2
    BY DEF InspectTypes, Retried
  <2> QED BY <1>2, <2>1
<1>5. dependencyRetried' \in BOOLEAN
  BY <1>2, Zenon DEF InspectTypes, Retried
<1>6. Retried'
  BY <1>3, <1>4, <1>5, Zenon DEF Retried
<1> QED BY <1>1, <1>6, TextTyped

LEMMA InspectTypesStep ==
    ASSUME InspectInv, InspectTypes, [InspectNext]_inspectVars
    PROVE  InspectTypes'
<1>0. Seen
  BY DEF InspectInv
<1>1. CASE Decide \/ Exhausted
  BY <1>1, DecideTyped
<1>2. ASSUME NEW S \in SUBSET SourceFiles, Search(S) \/ AnswersUnobserved(S) \/ Answers(S) PROVE InspectTypes'
  BY <1>2, SearchTyped, AnswersTyped
<1>3. ASSUME NEW S \in SUBSET SourceFiles, NEW n \in 1..MaxPackages, NEW cut \in BOOLEAN,
             Overview(S, n, cut) \/ List(S, n, cut)
      PROVE  InspectTypes'
  BY <1>0, <1>3, LookTyped
<1>4. ASSUME NEW f \in SourceFiles,
             Read(f) \/ GroundRead(f) \/ \E got \in Probes : Probe(f, got) \/ GroundProbe(f, got)
      PROVE  InspectTypes'
  BY <1>4, ReadTyped, GroundReadTyped
<1>5. CASE CallFails \/ CallBlocked \/ CallDenied
  BY <1>5, CallLostTyped
<1>6. CASE GroundNothing \/ GroundRefused
  BY <1>6, GroundRestTyped
<1>7. CASE AnswersEarly \/ AnswersDependency \/ AnswersBeyondScope
  <2>1. {} \in SUBSET SourceFiles
    OBVIOUS
  <2> QED BY <1>7, <2>1, AnswersTyped
<1>8. CASE UNCHANGED inspectVars
  <2>1. UNCHANGED <<searched, probed, overviewed, packages, truncated, observations, round, actions,
                    reported, scopeRetries, dependencyRetried, guarded, cited, at, outcome>>
    BY <1>8, Zenon DEF inspectVars, gathered, retries
  <2>2. Sighted' /\ Retried'
    BY <2>1 DEF InspectTypes, Sighted, Retried
  <2>3. Paced'
    BY <2>1 DEF InspectTypes, Paced
  <2>4. Concluded'
    BY <2>1 DEF InspectTypes, Concluded
  <2> QED BY <2>2, <2>3, <2>4 DEF InspectTypes
<1> QED BY <1>1, <1>2, <1>3, <1>4, <1>5, <1>6, <1>7, <1>8 DEF InspectNext

LEMMA InspectTypesHold ==
    ASSUME InspectInv, InspectTypes, anchored \in BOOLEAN
    PROVE  InspectTypeOK
<1>1. actions \in 0..2 * MaxRounds
  BY InspectionAssumption DEF InspectTypes, Paced, Concluded
<1>2. Seen /\ requested \in {"nobody", "gate", "guard"}
  BY DEF InspectInv
<1> QED BY <1>1, <1>2 DEF InspectTypeOK, InspectTypes, Seen, Sighted, Paced, Retried, Concluded

-----------------------------------------------------------------------------
(* The shape of a route.                                                   *)

Abilities == Local \cup Changing \cup Web
Targets == {"none", "file", "directory"}
Origins == {"rule", "model", "fallback"}

\* What every route is, whoever has made it.
Shaped(q) ==
    /\ DOMAIN q = Fields
    /\ q.kind \in Kinds /\ q.caps \subseteq Abilities /\ q.target \in Targets
    /\ q.hint \in Hints /\ q.source \in Origins

LEMMA AbilitiesHold ==
    /\ Local \subseteq Abilities /\ Changing \subseteq Abilities /\ Web \subseteq Abilities
    /\ Mutating \subseteq Abilities /\ Shelling \subseteq Abilities
    /\ {"read_file", "mutate_file"} \subseteq Abilities /\ {"run_validation"} \subseteq Abilities
    /\ {"mutate_file"} \subseteq Abilities /\ {"delete_file"} \subseteq Abilities
BY DEF Abilities, Local, Changing, Web, Mutating, Shelling

LEMMA OnlyAbilities ==
    ASSUME NEW S, S \subseteq Abilities, NEW condition
    PROVE  Only(condition, S) \subseteq Abilities
BY DEF Only

LEMMA HintsHold ==
    /\ "none" \in Hints /\ "direct_answer" \in Hints /\ "direct_file_edit" \in Hints
    /\ "external_research" \in Hints /\ "multi_file_generation" \in Hints
BY DEF Hints, Staged

LEMMA KindsHold == "answer" \in Kinds /\ "inspect" \in Kinds /\ "modify" \in Kinds /\ "operate" \in Kinds
BY DEF Kinds

LEMMA TargetsOfPrompts ==
    ASSUME NEW p
    PROVE  Constraints(p).path \in Targets /\ Signals(p).target \in Targets
<1>1. Path(p) \in Targets /\ "none" \in Targets
  BY DEF Path, Targets
<1>2. Constraints(p).path \in {"none", Path(p)}
  BY DEF Constraints
<1>3. Signals(p).target \in {"none", Path(p)}
  BY DEF Signals
<1> QED BY <1>1, <1>2, <1>3

\* A route with some of its parts replaced.
LEMMA Reshaped ==
    ASSUME NEW r, Shaped(r), NEW q, DOMAIN q = Fields, q.kind \in Kinds, q.caps \subseteq Abilities,
           q.target \in Targets, q.hint \in Hints, q.source = r.source
    PROVE  Shaped(q)
BY DEF Shaped

LEMMA RuleShaped ==
    ASSUME NEW p
    PROVE  Shaped(RuleRoute(p))
<1> DEFINE s == Signals(p)
           kind == RuleKind(p)
           caps == CASE kind = "answer" -> Only(s.external, Web)
                     [] kind = "inspect" -> Local \cup Only(s.external, Web)
                     [] kind = "operate" -> Local \cup (Shelling \ Only("noShell" \in p, {"run_shell"}))
                     [] kind = "modify" ->
                          Local \cup {"mutate_file"} \cup Only("delete" \in p, {"delete_file"})
                                \cup Only("validate" \in p, {"run_validation"})
           hint == IF s.modify /\ "project" \in p THEN "multi_file_generation" ELSE "none"
           q == RuleRoute(p)
<1>1. kind \in Kinds
  <2>1. kind \in {"answer", "inspect", "modify", "operate"}
    BY DEF RuleKind
  <2> QED BY <2>1 DEF Kinds
<1>2. DOMAIN q = Fields /\ q.kind = kind /\ q.caps = caps /\ q.target = s.target /\ q.hint = hint /\ q.source = "rule"
  BY Zenon DEF RuleRoute, Fields
<1>3. hint \in Hints
  BY HintsHold, Zenon
<1>4. s.target \in Targets
  BY TargetsOfPrompts
<1>5. caps \subseteq Abilities
  <2>1. /\ Only(s.external, Web) \subseteq Abilities /\ Only("delete" \in p, {"delete_file"}) \subseteq Abilities
        /\ Only("validate" \in p, {"run_validation"}) \subseteq Abilities
    BY AbilitiesHold, OnlyAbilities
  <2> HIDE DEF kind, s
  <2>2. CASE kind = "answer"
    BY <2>1, <2>2
  <2>3. CASE kind = "inspect"
    BY <2>1, <2>3, AbilitiesHold
  <2>4. CASE kind = "operate"
    BY <2>1, <2>4, AbilitiesHold
  <2>5. CASE kind = "modify"
    BY <2>1, <2>5, AbilitiesHold
  <2> QED BY <1>1, <2>2, <2>3, <2>4, <2>5 DEF Kinds
<1> HIDE DEF s, kind, caps, hint, q
<1>6. "rule" \in Origins
  BY DEF Origins
<1>7. Shaped(q)
  BY <1>1, <1>2, <1>3, <1>4, <1>5, <1>6 DEF Shaped
<1> QED BY <1>7 DEF q

LEMMA MergedShaped ==
    ASSUME NEW p, NEW d \in Decisions
    PROVE  Shaped(Merged(d, p))
<1> DEFINE c == Constraints(p)
           readOnly == c.readOnly \/ d.readOnly
           followup == AnswerFollowup(c)
           artifact == readOnly /\ AnswerArtifact(c)
           local == LocalRequest(c)
           mutation == c.mutation /\ ~readOnly /\ ~followup
           unsure == d.unsure /\ ~c.mutation
           searches == c.external /\ ~c.noNetwork
           given == IF unsure THEN Local
                    ELSE (d.caps \ (Only(readOnly, Changing) \cup Only(c.noShell, Shelling)
                                      \cup Only(c.noNetwork, Web)))
                         \cup Only(TestsDue(c) /\ ~followup /\ ~readOnly, {"run_validation"})
                         \cup Only(searches, Web)
           wanted == CASE artifact \/ followup -> {}
                       [] ~artifact /\ ~followup ->
                            given \cup Only(mutation, {"read_file", "mutate_file"})
           kind == CASE readOnly -> IF ~artifact /\ NeedsWorkspace(c, wanted)
                                    THEN "inspect" ELSE "answer"
                     [] ~readOnly /\ (mutation \/ wanted \cap Mutating # {}) -> "modify"
                     [] OTHER -> IF followup THEN "answer"
                                 ELSE IF unsure \/ (searches /\ ~local) THEN "inspect" ELSE d.kind
           target == CASE followup \/ artifact -> "none"
                       [] OTHER -> IF d.target # "none" THEN d.target ELSE c.path
           known == wanted \cup Only(c.workspace /\ wanted = {} /\ ~followup, Local)
           onFile == target = "file" /\ kind = "modify"
           filed == known \cup Only(onFile, {"read_file", "mutate_file"})
                          \cup Only(onFile /\ TestsDue(c), {"run_validation"})
           hint == CASE artifact -> "direct_answer"
                     [] ~artifact /\ (readOnly \/ followup) -> "none"
                     [] OTHER -> IF target = "file"
                                 THEN IF d.hint \in Staged THEN "direct_file_edit" ELSE d.hint
                                 ELSE IF c.project /\ kind = "modify" THEN "multi_file_generation" ELSE d.hint
           looks == local /\ ~followup
           reads == readOnly /\ ~artifact /\ kind = "answer" /\ (c.workspace \/ local)
           caps == (IF looks THEN (filed \ Web) \cup Local ELSE filed) \cup Only(reads, Local)
           allowed == CASE artifact -> {}
                        [] OTHER -> caps \ Only(readOnly, Changing)
           q == Merged(d, p)
<1>1. IsRoute(q) /\ q.source = "model"
  BY MergedIsRoute
<1>2. q.caps = allowed /\ q.target = target /\ q.hint = hint
  BY Zenon DEF Merged
<1>3. d.caps \subseteq Abilities /\ d.hint \in Hints /\ d.target \in Targets
  BY RoutesAssumption DEF Schema, Abilities, Targets
<1>4. target \in Targets
  <2>1. c.path \in Targets
    BY TargetsOfPrompts
  <2> HIDE DEF c, followup, artifact
  <2> QED BY <1>3, <2>1, Zenon DEF Targets
<1>5. hint \in Hints
  <2> HIDE DEF c, artifact, readOnly, followup, target, kind
  <2> QED BY <1>3, HintsHold, Zenon
<1>6. given \subseteq Abilities
  <2> DEFINE due == TestsDue(c) /\ ~followup /\ ~readOnly
             less == Only(readOnly, Changing) \cup Only(c.noShell, Shelling) \cup Only(c.noNetwork, Web)
  <2> HIDE DEF c, unsure, due, searches, less
  <2>1. Only(due, {"run_validation"}) \subseteq Abilities /\ Only(searches, Web) \subseteq Abilities
    BY AbilitiesHold, OnlyAbilities
  <2>2. given = IF unsure THEN Local ELSE (d.caps \ less) \cup Only(due, {"run_validation"}) \cup Only(searches, Web)
    BY DEF less, due
  <2> HIDE DEF given
  <2> QED BY <1>3, <2>1, <2>2, AbilitiesHold
<1>7. wanted \subseteq Abilities
  <2> HIDE DEF c, given, mutation, artifact, followup
  <2>1. Only(mutation, {"read_file", "mutate_file"}) \subseteq Abilities
    BY AbilitiesHold, OnlyAbilities
  <2>2. wanted = {} \/ wanted = given \cup Only(mutation, {"read_file", "mutate_file"})
    BY Zenon
  <2> HIDE DEF wanted
  <2> QED BY <1>6, <2>1, <2>2
<1>8. filed \subseteq Abilities
  <2> DEFINE idle == c.workspace /\ wanted = {} /\ ~followup
             tests == onFile /\ TestsDue(c)
  <2> HIDE DEF c, wanted, idle, onFile, tests
  <2>1. /\ Only(idle, Local) \subseteq Abilities /\ Only(onFile, {"read_file", "mutate_file"}) \subseteq Abilities
        /\ Only(tests, {"run_validation"}) \subseteq Abilities
    BY AbilitiesHold, OnlyAbilities
  <2>2. filed = (wanted \cup Only(idle, Local)) \cup Only(onFile, {"read_file", "mutate_file"}) \cup Only(tests, {"run_validation"})
    BY DEF idle, tests
  <2> HIDE DEF filed
  <2> QED BY <1>7, <2>1, <2>2
<1>9. allowed \subseteq Abilities
  <2> HIDE DEF c, filed, looks, reads, artifact, readOnly
  <2>1. Only(reads, Local) \subseteq Abilities
    BY AbilitiesHold, OnlyAbilities
  <2>2. caps \subseteq Abilities
    BY <1>8, <2>1, AbilitiesHold
  <2> HIDE DEF caps
  <2>3. allowed = {} \/ allowed = caps \ Only(readOnly, Changing)
    BY Zenon
  <2> HIDE DEF allowed
  <2> QED BY <2>2, <2>3
<1> HIDE DEF q, allowed, target, hint
<1>10. "model" \in Origins
  BY DEF Origins
<1>11. Shaped(q)
  BY <1>1, <1>2, <1>4, <1>5, <1>9, <1>10 DEF Shaped, IsRoute
<1> QED BY <1>11 DEF q

\* The steps of the validation keep a route in shape.
LEMMA NarrowedShaped ==
    ASSUME NEW c, NEW r, Shaped(r)
    PROVE  Shaped(Narrowed(c, r))
<1> DEFINE q == Narrowed(c, r)
           caps == r.caps \ (Only(c.noShell, Shelling) \cup Only(c.noNetwork, Web))
<1>1. q = [r EXCEPT !.caps = caps]
  BY Zenon DEF Narrowed
<1>2. caps \subseteq Abilities
  BY DEF Shaped
<1> HIDE DEF q, caps
<1>3. DOMAIN q = Fields /\ q.caps = caps /\ q.kind = r.kind /\ q.target = r.target /\ q.hint = r.hint
      /\ q.source = r.source
  BY <1>1 DEF Shaped, Fields
<1>4. Shaped(q)
  BY <1>2, <1>3 DEF Shaped
<1> QED BY <1>4 DEF q

LEMMA ReadOnlyShaped ==
    ASSUME NEW c, NEW r, NEW external, NEW grounds, Shaped(r)
    PROVE  Shaped(ReadOnlyRoute(c, r, external, grounds))
<1> DEFINE q == ReadOnlyRoute(c, r, external, grounds)
           rest == r.caps \ Changing
           hint == IF AnswerArtifact(c) THEN "direct_answer" ELSE "none"
           kind == IF ~AnswerArtifact(c) /\ ~(external /\ ~grounds) /\ (grounds \/ rest \cap Local # {})
                   THEN "inspect" ELSE "answer"
           caps == CASE AnswerArtifact(c) -> {}
                     [] ~AnswerArtifact(c) /\ external /\ ~grounds -> Web
                     [] OTHER -> IF grounds \/ rest \cap Local # {} THEN rest \cup Local ELSE {}
<1>1. q = [r EXCEPT !.hint = hint, !.kind = kind, !.caps = caps]
  BY Zenon DEF ReadOnlyRoute
<1>2. kind \in Kinds
  BY KindsHold, Zenon
<1>3. hint \in Hints
  BY HintsHold, Zenon
<1>4. caps = {} \/ caps = Web \/ caps = rest \cup Local
  BY Zenon
<1>5. rest \subseteq Abilities
  BY DEF Shaped
<1> HIDE DEF hint, kind, rest, caps
<1>6. caps \subseteq Abilities
  BY <1>4, <1>5, AbilitiesHold
<1> HIDE DEF q
<1>7. DOMAIN q = Fields /\ q.caps = caps /\ q.kind = kind /\ q.target = r.target /\ q.hint = hint
      /\ q.source = r.source
  BY <1>1 DEF Shaped, Fields
<1>8. r.target \in Targets
  BY DEF Shaped
<1>9. Shaped(q)
  BY <1>2, <1>3, <1>6, <1>7, <1>8, Reshaped
<1> QED BY <1>9 DEF q

LEMMA DirectedShaped ==
    ASSUME NEW c, NEW r, NEW external, NEW grounds, Shaped(r)
    PROVE  Shaped(Directed(c, r, external, grounds))
<1> DEFINE generates == Generates(c, r.target)
           onlyAnswers == external /\ ~(c.mutation \/ r.mutates \/ r.kind = "modify" \/ generates)
           r1 == Apply(onlyAnswers /\ ~grounds,
                       [r EXCEPT !.kind = "answer", !.caps = Web, !.hint = "external_research"], r)
           r2 == Apply(generates /\ ~external,
                       [r1 EXCEPT !.kind = "modify", !.hint = "multi_file_generation",
                          !.caps = @ \cup {"read_file", "mutate_file"}
                                     \cup Only(TestsDue(c), {"run_validation"})], r1)
           r3 == Apply(r2.kind = "modify" /\ ~Supported(c, r, r2.target),
                       IF grounds
                       THEN [r2 EXCEPT !.kind = "inspect",
                               !.caps = (@ \ (Mutating \cup {"run_validation"})) \cup Local]
                       ELSE [r2 EXCEPT !.kind = "answer", !.caps = {}, !.hint = "none"], r2)
           r4 == Apply(grounds /\ r3.kind = "answer" /\ ~external
                         /\ (r3.caps \cap Local # {} \/ c.workspace \/ LocalRequest(c)),
                       [r3 EXCEPT !.kind = "inspect", !.caps = @ \cup Local], r3)
<1>0. Directed(c, r, external, grounds) = r4
  BY Zenon DEF Directed
<1>1. r1 = r \/ r1 = [r EXCEPT !.kind = "answer", !.caps = Web, !.hint = "external_research"]
  BY Zenon DEF Apply
<1>2. \/ r2 = r1
      \/ r2 = [r1 EXCEPT !.kind = "modify", !.hint = "multi_file_generation",
                 !.caps = r1.caps \cup {"read_file", "mutate_file"} \cup Only(TestsDue(c), {"run_validation"})]
  BY Zenon DEF Apply
<1>3. \/ r3 = r2
      \/ r3 = [r2 EXCEPT !.kind = "inspect", !.caps = (r2.caps \ (Mutating \cup {"run_validation"})) \cup Local]
      \/ r3 = [r2 EXCEPT !.kind = "answer", !.caps = {}, !.hint = "none"]
  BY Zenon DEF Apply
<1>4. r4 = r3 \/ r4 = [r3 EXCEPT !.kind = "inspect", !.caps = r3.caps \cup Local]
  BY Zenon DEF Apply
<1> HIDE DEF r1, r2, r3, r4
<1>5. Shaped(r1)
  <2>1. CASE r1 = [r EXCEPT !.kind = "answer", !.caps = Web, !.hint = "external_research"]
    <3>1. DOMAIN r1 = Fields /\ r1.caps = Web /\ r1.kind = "answer" /\ r1.hint = "external_research"
          /\ r1.target = r.target /\ r1.source = r.source
      BY <2>1 DEF Shaped, Fields
    <3> QED BY <3>1, AbilitiesHold, KindsHold, HintsHold DEF Shaped
  <2> QED BY <1>1, <2>1
<1>6. Shaped(r2)
  <2> DEFINE caps == r1.caps \cup {"read_file", "mutate_file"} \cup Only(TestsDue(c), {"run_validation"})
  <2>1. CASE r2 = [r1 EXCEPT !.kind = "modify", !.hint = "multi_file_generation", !.caps = caps]
    <3>1. Only(TestsDue(c), {"run_validation"}) \subseteq Abilities
      BY AbilitiesHold, OnlyAbilities
    <3>2. r1.caps \subseteq Abilities
      BY <1>5 DEF Shaped
    <3>3. caps \subseteq Abilities
      BY <3>1, <3>2, AbilitiesHold
    <3> HIDE DEF caps
    <3>4. DOMAIN r2 = Fields /\ r2.caps = caps /\ r2.kind = "modify" /\ r2.hint = "multi_file_generation"
          /\ r2.target = r1.target /\ r2.source = r1.source
      BY <1>5, <2>1 DEF Shaped, Fields
    <3> QED BY <1>5, <3>3, <3>4, KindsHold, HintsHold DEF Shaped
  <2> QED BY <1>2, <1>5, <2>1
<1>7. Shaped(r3)
  <2> DEFINE caps == (r2.caps \ (Mutating \cup {"run_validation"})) \cup Local
  <2>1. CASE r3 = [r2 EXCEPT !.kind = "inspect", !.caps = caps]
    <3>1. r2.caps \subseteq Abilities
      BY <1>6 DEF Shaped
    <3>2. caps \subseteq Abilities
      BY <3>1, AbilitiesHold
    <3> HIDE DEF caps
    <3>3. DOMAIN r3 = Fields /\ r3.caps = caps /\ r3.kind = "inspect" /\ r3.hint = r2.hint
          /\ r3.target = r2.target /\ r3.source = r2.source
      BY <1>6, <2>1 DEF Shaped, Fields
    <3> QED BY <1>6, <3>2, <3>3, KindsHold DEF Shaped
  <2>2. CASE r3 = [r2 EXCEPT !.kind = "answer", !.caps = {}, !.hint = "none"]
    <3>1. DOMAIN r3 = Fields /\ r3.caps = {} /\ r3.kind = "answer" /\ r3.hint = "none"
          /\ r3.target = r2.target /\ r3.source = r2.source
      BY <1>6, <2>2 DEF Shaped, Fields
    <3> QED BY <1>6, <3>1, KindsHold, HintsHold DEF Shaped
  <2> QED BY <1>3, <1>6, <2>1, <2>2
<1>8. Shaped(r4)
  <2> DEFINE caps == r3.caps \cup Local
  <2>1. CASE r4 = [r3 EXCEPT !.kind = "inspect", !.caps = caps]
    <3>1. r3.caps \subseteq Abilities
      BY <1>7 DEF Shaped
    <3>2. caps \subseteq Abilities
      BY <3>1, AbilitiesHold
    <3> HIDE DEF caps
    <3>3. DOMAIN r4 = Fields /\ r4.caps = caps /\ r4.kind = "inspect" /\ r4.hint = r3.hint
          /\ r4.target = r3.target /\ r4.source = r3.source
      BY <1>7, <2>1 DEF Shaped, Fields
    <3> QED BY <1>7, <3>2, <3>3, KindsHold DEF Shaped
  <2> QED BY <1>4, <1>7, <2>1
<1> QED BY <1>0, <1>8

LEMMA KindShaped ==
    ASSUME NEW c, NEW r, NEW external, NEW grounds, Shaped(r)
    PROVE  Shaped(KindKeeps(c, r, external, grounds))
<1> DEFINE q == KindKeeps(c, r, external, grounds)
           some == (r.caps \ Changing) \cup Only(grounds \/ ~external, Local)
<1> SUFFICES Shaped(q)
  OBVIOUS
<1>0. /\ r.kind \in Kinds /\ r.caps \subseteq Abilities /\ r.target \in Targets /\ r.hint \in Hints
      /\ r.source \in Origins
  BY DEF Shaped
<1>1. CASE r.kind = "answer"
  <2> DEFINE hint == IF r.hint = "direct_answer" THEN r.hint ELSE "none"
  <2>1. CASE external
    <3>1. q = [r EXCEPT !.caps = Web, !.hint = "external_research"]
      BY <1>1, <2>1, Zenon DEF KindKeeps
    <3> HIDE DEF q
    <3>2. DOMAIN q = Fields /\ q.caps = Web /\ q.kind = r.kind /\ q.hint = "external_research"
          /\ q.target = r.target /\ q.source = r.source
      BY <3>1 DEF Shaped, Fields
    <3> QED BY <1>0, <3>2, AbilitiesHold, HintsHold DEF Shaped
  <2>2. CASE ~external
    <3>1. q = [r EXCEPT !.caps = {}, !.hint = hint]
      BY <1>1, <2>2, Zenon DEF KindKeeps
    <3>2. hint \in Hints
      BY HintsHold, Zenon
    <3> HIDE DEF hint, q
    <3>3. DOMAIN q = Fields /\ q.caps = {} /\ q.kind = r.kind /\ q.hint = hint
          /\ q.target = r.target /\ q.source = r.source
      BY <3>1 DEF Shaped, Fields
    <3> QED BY <1>0, <3>2, <3>3 DEF Shaped
  <2> QED BY <2>1, <2>2
<1>2. CASE r.kind = "inspect"
  <2> DEFINE caps == some \ Only(LocalRequest(c), Web)
  <2>1. q = [r EXCEPT !.caps = caps, !.hint = "none"]
    BY <1>2, Zenon DEF KindKeeps
  <2>2. Only(grounds \/ ~external, Local) \subseteq Abilities
    BY AbilitiesHold, OnlyAbilities
  <2>3. caps \subseteq Abilities
    BY <1>0, <2>2
  <2> HIDE DEF caps, q
  <2>4. DOMAIN q = Fields /\ q.caps = caps /\ q.kind = r.kind /\ q.hint = "none"
        /\ q.target = r.target /\ q.source = r.source
    BY <2>1 DEF Shaped, Fields
  <2> QED BY <1>0, <2>3, <2>4, HintsHold DEF Shaped
<1>3. CASE r.kind = "operate"
  <2>1. CASE ~c.noShell
    <3>1. q = r
      BY <1>3, <2>1, Zenon DEF KindKeeps
    <3> HIDE DEF q
    <3> QED BY <3>1
  <2>2. CASE c.noShell
    <3> DEFINE kind == IF grounds THEN "inspect" ELSE "answer"
               caps == Only(grounds, Local)
    <3>1. q = [r EXCEPT !.kind = kind, !.caps = caps, !.hint = "none"]
      BY <1>3, <2>2, Zenon DEF KindKeeps
    <3>2. kind \in Kinds
      BY KindsHold, Zenon
    <3>3. caps \subseteq Abilities
      BY AbilitiesHold, OnlyAbilities
    <3> HIDE DEF kind, caps, q
    <3>4. DOMAIN q = Fields /\ q.caps = caps /\ q.kind = kind /\ q.hint = "none"
          /\ q.target = r.target /\ q.source = r.source
      BY <3>1 DEF Shaped, Fields
    <3> QED BY <1>0, <3>2, <3>3, <3>4, HintsHold DEF Shaped
  <2> QED BY <2>1, <2>2
<1>4. CASE r.kind = "modify"
  <2> DEFINE caps == r.caps \cup {"read_file", "mutate_file"} \cup Only(TestsDue(c), {"run_validation"})
             hint == IF r.target = "file" /\ r.hint \in Staged THEN "direct_file_edit"
                     ELSE IF c.project \/ Generates(c, r.target) THEN "multi_file_generation" ELSE r.hint
  <2>1. q = [r EXCEPT !.caps = caps, !.hint = hint]
    BY <1>4, Zenon DEF KindKeeps
  <2>2. hint \in Hints
    BY <1>0, HintsHold, Zenon
  <2>3. Only(TestsDue(c), {"run_validation"}) \subseteq Abilities
    BY AbilitiesHold, OnlyAbilities
  <2>4. caps \subseteq Abilities
    BY <1>0, <2>3, AbilitiesHold
  <2> HIDE DEF caps, hint, q
  <2>5. DOMAIN q = Fields /\ q.caps = caps /\ q.kind = r.kind /\ q.hint = hint
        /\ q.target = r.target /\ q.source = r.source
    BY <2>1 DEF Shaped, Fields
  <2> QED BY <1>0, <2>2, <2>4, <2>5 DEF Shaped
<1> QED BY <1>0, <1>1, <1>2, <1>3, <1>4 DEF Kinds

LEMMA ValidatedShaped ==
    ASSUME NEW p, NEW r, Shaped(r)
    PROVE  Shaped(ValidatedRoute(r, p))
<1> DEFINE c == Constraints(p)
           target == IF r.target # "none" THEN r.target ELSE c.path
           followup == AnswerFollowup(c)
           readOnly == r.readOnly \/ c.readOnly
           external == (r.external \/ c.external \/ "web_search" \in r.caps) /\ ~c.noNetwork /\ ~LocalRequest(c)
           grounds == Evidence(c, target)
           begun == [r EXCEPT !.target = target, !.readOnly = readOnly]
           narrowed == Narrowed(c, begun)
           bound == Apply(readOnly, ReadOnlyRoute(c, narrowed, external, grounds), narrowed)
           aimed == CASE followup -> [bound EXCEPT !.kind = "answer", !.caps = {}, !.hint = "none",
                                                   !.target = "none"]
                      [] ~followup /\ readOnly -> bound
                      [] OTHER -> Directed(c, bound, external, grounds)
           searches == external /\ ~followup
           keeps == KindKeeps(c, aimed, searches, grounds)
           ext == "web_search" \in keeps.caps /\ ~c.noNetwork /\ ~LocalRequest(c)
           mut == keeps.kind = "modify" /\ keeps.caps \cap Mutating # {} /\ ~readOnly
           val == keeps.kind \in {"modify", "operate"} /\ ~readOnly /\ ~c.noShell /\ "run_validation" \in keeps.caps
           q == ValidatedRoute(r, p)
<1>1. q = [keeps EXCEPT !.external = ext, !.mutates = mut, !.validates = val]
  BY Zenon DEF ValidatedRoute
<1>2. \/ aimed = [bound EXCEPT !.kind = "answer", !.caps = {}, !.hint = "none", !.target = "none"]
      \/ aimed = bound
      \/ aimed = Directed(c, bound, external, grounds)
  BY Zenon
<1>3. bound = ReadOnlyRoute(c, narrowed, external, grounds) \/ bound = narrowed
  BY Zenon DEF Apply
<1>4. narrowed = Narrowed(c, begun) /\ keeps = KindKeeps(c, aimed, searches, grounds)
  OBVIOUS
<1>5. begun = [r EXCEPT !.target = target, !.readOnly = readOnly]
  BY Zenon
<1>6. target \in Targets
  <2>1. c.path \in Targets /\ r.target \in Targets
    BY TargetsOfPrompts DEF Shaped
  <2> HIDE DEF c
  <2> QED BY <2>1, Zenon
<1> HIDE DEF c, target, followup, readOnly, external, grounds, begun, narrowed, bound, aimed, searches, keeps,
             ext, mut, val, q
<1>7. Shaped(begun)
  <2>1. DOMAIN begun = Fields /\ begun.caps = r.caps /\ begun.kind = r.kind /\ begun.hint = r.hint
        /\ begun.target = target /\ begun.source = r.source
    BY <1>5 DEF Shaped, Fields
  <2> QED BY <1>6, <2>1 DEF Shaped
<1>8. Shaped(bound)
  BY <1>3, <1>4, <1>7, NarrowedShaped, ReadOnlyShaped
<1>9. Shaped(aimed)
  <2>1. CASE aimed = [bound EXCEPT !.kind = "answer", !.caps = {}, !.hint = "none", !.target = "none"]
    <3>1. DOMAIN aimed = Fields /\ aimed.caps = {} /\ aimed.kind = "answer" /\ aimed.hint = "none"
          /\ aimed.target = "none" /\ aimed.source = bound.source
      BY <1>8, <2>1 DEF Shaped, Fields
    <3>2. "none" \in Targets
      BY DEF Targets
    <3> QED BY <1>8, <3>1, <3>2, KindsHold, HintsHold DEF Shaped
  <2> QED BY <1>2, <1>8, <2>1, DirectedShaped
<1>10. Shaped(keeps)
  BY <1>4, <1>9, KindShaped
<1>11. DOMAIN q = Fields /\ q.caps = keeps.caps /\ q.kind = keeps.kind /\ q.hint = keeps.hint
       /\ q.target = keeps.target /\ q.source = keeps.source
  BY <1>1, <1>10 DEF Shaped, Fields
<1>12. Shaped(q)
  BY <1>10, <1>11 DEF Shaped
<1> QED BY <1>12 DEF q

LEMMA PolicyShaped ==
    ASSUME NEW p, NEW r, Shaped(r)
    PROVE  Shaped(AnswerPolicy(r, p))
<1> DEFINE c == Constraints(p)
           searches == ~c.reference /\ (c.external \/ r.external) /\ ~c.noNetwork /\ ~LocalRequest(c)
           hint == IF searches THEN "external_research"
                   ELSE IF r.hint = "direct_answer" THEN r.hint ELSE "none"
           caps == Only(searches, Web)
           no == FALSE
           q == AnswerPolicy(r, p)
<1>1. \/ q = r
      \/ q = [r EXCEPT !.caps = caps, !.external = searches, !.hint = hint, !.mutates = no, !.validates = no]
  BY Zenon DEF AnswerPolicy, Apply
<1> HIDE DEF c, searches
<1>2. hint \in Hints
  BY HintsHold, Zenon
<1>3. caps \subseteq Abilities
  BY AbilitiesHold, OnlyAbilities
<1> HIDE DEF hint, caps, no, q
<1>4. CASE q = [r EXCEPT !.caps = caps, !.external = searches, !.hint = hint, !.mutates = no, !.validates = no]
  <2>1. DOMAIN q = Fields /\ q.caps = caps /\ q.kind = r.kind /\ q.hint = hint
        /\ q.target = r.target /\ q.source = r.source
    BY <1>4 DEF Shaped, Fields
  <2>2. Shaped(q)
    BY <1>2, <1>3, <2>1 DEF Shaped
  <2> QED BY <2>2 DEF q
<1>5. CASE q = r
  BY <1>5 DEF q
<1> QED BY <1>1, <1>4, <1>5

LEMMA SanitizedShaped ==
    ASSUME NEW c, NEW r, Shaped(r)
    PROVE  Shaped(Sanitized(r, c))
<1> DEFINE local == LocalRequest(c)
           caps == (r.caps \ Changing) \ Only(local, Web)
           reads == NeedsWorkspace(c, caps) \/ r.target # "none"
                     \/ (r.kind # "answer" /\ "web_search" \notin caps)
           kind == IF ~AnswerArtifact(c) /\ (reads \/ "web_search" \in caps) THEN "inspect" ELSE "answer"
           keeps == CASE kind = "answer" -> {}
                    [] kind = "inspect" -> caps \cup Only(reads, Local)
           no == FALSE
           hint == IF AnswerArtifact(c) THEN "direct_answer" ELSE "none"
           ext == "web_search" \in keeps /\ ~local
           q == Sanitized(r, c)
<1>1. \/ q = r
      \/ q = [r EXCEPT !.kind = kind, !.caps = keeps, !.mutates = no, !.validates = no, !.hint = hint,
                !.external = ext]
  BY Zenon DEF Sanitized, Apply
<1>2. caps \subseteq Abilities
  BY DEF Shaped
<1> HIDE DEF local, caps, reads
<1>3. kind = "inspect" \/ kind = "answer"
  BY Zenon
<1>4. hint \in Hints
  BY HintsHold, Zenon
<1> HIDE DEF kind, hint
<1>5. keeps \subseteq Abilities
  <2>1. Only(reads, Local) \subseteq Abilities
    BY AbilitiesHold, OnlyAbilities
  <2>2. CASE kind = "answer"
    BY <2>2
  <2>3. CASE kind = "inspect"
    BY <1>2, <2>1, <2>3
  <2> QED BY <1>3, <2>2, <2>3
<1>6. kind \in Kinds
  BY <1>3, KindsHold
<1> HIDE DEF keeps, no, ext, q
<1>7. CASE q = [r EXCEPT !.kind = kind, !.caps = keeps, !.mutates = no, !.validates = no, !.hint = hint,
                  !.external = ext]
  <2>1. DOMAIN q = Fields /\ q.caps = keeps /\ q.kind = kind /\ q.hint = hint
        /\ q.target = r.target /\ q.source = r.source
    BY <1>7 DEF Shaped, Fields
  <2>2. Shaped(q)
    BY <1>4, <1>5, <1>6, <2>1 DEF Shaped
  <2> QED BY <2>2 DEF q
<1>8. CASE q = r
  BY <1>8 DEF q
<1> QED BY <1>1, <1>7, <1>8

LEMMA FallbackShaped ==
    ASSUME NEW p
    PROVE  Shaped(FallbackRoute(p))
<1> DEFINE c == Constraints(p)
           r == RuleRoute(p)
           local == LocalRequest(c)
           followup == AnswerFollowup(c)
           artifact == AnswerArtifact(c)
           looks == c.followup \/ c.workspace \/ c.path # "none"
           searches == c.external /\ ~c.noNetwork /\ ~local
           mutation == c.mutation /\ ~followup
           caps1 == IF followup \/ artifact THEN {}
                    ELSE r.caps \cup Only(looks, Local) \cup Only(searches, Web)
                         \cup Only(mutation, {"read_file", "mutate_file"})
                         \cup Only(mutation /\ TestsDue(c), {"run_validation"})
           kind1 == IF followup \/ artifact THEN "answer"
                    ELSE IF mutation THEN "modify"
                         ELSE IF looks \/ searches THEN "inspect" ELSE r.kind
           reads == c.readOnly /\ ~artifact /\ NeedsWorkspace(c, caps1 \ Changing)
           caps2 == (caps1 \ Only(c.readOnly, Changing)) \cup Only(reads, Local)
           kind2 == IF ~c.readOnly THEN kind1 ELSE IF reads THEN "inspect" ELSE "answer"
           here == local /\ ~followup
           caps == IF here THEN (caps2 \ Web) \cup Local ELSE caps2
           kind == IF ~c.readOnly /\ caps \cap Mutating # {} THEN "modify"
                   ELSE IF here THEN "inspect" ELSE kind2
           target == IF r.target # "none" THEN r.target ELSE c.path
           hint == IF artifact THEN "direct_answer"
                   ELSE IF target = "file"
                        THEN IF r.hint \in Staged THEN "direct_file_edit" ELSE r.hint
                        ELSE IF c.project /\ kind = "modify" THEN "multi_file_generation" ELSE r.hint
           mut == ~c.readOnly /\ kind = "modify" /\ caps \cap Mutating # {}
           val == (r.validates \/ c.validation) /\ "run_validation" \in caps
           ext == "web_search" \in caps /\ ~local
           s == [r EXCEPT !.kind = kind, !.caps = caps, !.target = target, !.hint = hint,
                   !.mutates = mut, !.validates = val, !.external = ext, !.source = "fallback"]
<1>1. FallbackRoute(p) = Sanitized(s, c)
  BY Zenon DEF FallbackRoute
<1>2. /\ DOMAIN r = Fields /\ r.kind \in Kinds /\ r.caps \subseteq Abilities /\ r.target \in Targets
      /\ r.hint \in Hints
  BY RuleShaped DEF Shaped
<1>3. c.path \in Targets
  BY TargetsOfPrompts
<1> HIDE DEF c, r, local, followup, artifact, looks, searches, mutation
<1>4. kind1 \in Kinds
  BY <1>2, KindsHold, Zenon
<1>5. caps1 \subseteq Abilities
  <2> DEFINE due == mutation /\ TestsDue(c)
  <2> HIDE DEF due
  <2>1. /\ Only(looks, Local) \subseteq Abilities /\ Only(searches, Web) \subseteq Abilities
        /\ Only(mutation, {"read_file", "mutate_file"}) \subseteq Abilities
        /\ Only(due, {"run_validation"}) \subseteq Abilities
    BY AbilitiesHold, OnlyAbilities
  <2>2. \/ caps1 = {}
        \/ caps1 = r.caps \cup Only(looks, Local) \cup Only(searches, Web)
                    \cup Only(mutation, {"read_file", "mutate_file"}) \cup Only(due, {"run_validation"})
    BY Zenon DEF due
  <2> HIDE DEF caps1
  <2> QED BY <1>2, <2>1, <2>2
<1> HIDE DEF caps1, kind1
<1>6. kind2 \in Kinds
  <2> HIDE DEF reads
  <2> QED BY <1>4, KindsHold, Zenon
<1>7. caps2 \subseteq Abilities
  <2> HIDE DEF reads
  <2>1. Only(reads, Local) \subseteq Abilities
    BY AbilitiesHold, OnlyAbilities
  <2> QED BY <1>5, <2>1
<1> HIDE DEF reads, caps2, kind2, here
<1>8. caps \subseteq Abilities
  BY <1>7, AbilitiesHold
<1> HIDE DEF caps
<1>9. kind \in Kinds
  BY <1>6, KindsHold, Zenon
<1>10. target \in Targets
  BY <1>2, <1>3, Zenon
<1> HIDE DEF kind, target
<1>11. hint \in Hints
  BY <1>2, HintsHold, Zenon
<1> HIDE DEF hint, mut, val, ext
<1>12. DOMAIN s = Fields /\ s.caps = caps /\ s.kind = kind /\ s.hint = hint
       /\ s.target = target /\ s.source = "fallback"
  BY <1>2 DEF Fields
<1>13. "fallback" \in Origins
  BY DEF Origins
<1> HIDE DEF s
<1>14. Shaped(s)
  BY <1>8, <1>9, <1>10, <1>11, <1>12, <1>13 DEF Shaped
<1> QED BY <1>1, <1>14, SanitizedShaped

-----------------------------------------------------------------------------
(* The types of the routing.                                               *)

RouteTypes ==
    /\ routing \in {"idle", "asked", "routed", "checked", "aimed", "done"}
    /\ prompt \subseteq Words /\ Cardinality(prompt) <= MaxWords
    /\ unified \in BOOLEAN
    /\ first \in {"none", "clarify", "search", "delete", "read", "generation"}
    /\ route = NoRoute \/ Shaped(route)
    /\ routing \in {"routed", "checked"} => Shaped(route)

LEMMA PromptsAre ==
    ASSUME MaxWords \in Nat, NEW p \in Prompts
    PROVE  p \subseteq Words /\ Cardinality(p) <= MaxWords
<1>1. CASE p = {}
  BY <1>1, FS_EmptySet
<1>2. ASSUME NEW w \in [1..MaxWords -> Words], p = {w[i] : i \in 1..MaxWords}
      PROVE  p \subseteq Words /\ Cardinality(p) <= MaxWords
  <2>1. IsFiniteSet(1..MaxWords) /\ Cardinality(1..MaxWords) = MaxWords
    <3>1. 1 \in Int /\ MaxWords \in Int /\ (1 <= MaxWords \/ MaxWords = 0)
      BY SMT
    <3>2. IsFiniteSet(1..MaxWords)
          /\ Cardinality(1..MaxWords) = IF 1 > MaxWords THEN 0 ELSE MaxWords - 1 + 1
      BY <3>1, FS_Interval
    <3> QED BY <3>1, <3>2, SMT
  <2>2. w \in Surjection(1..MaxWords, p)
    BY <1>2 DEF Surjection
  <2>3. Cardinality(p) <= Cardinality(1..MaxWords)
    BY <2>1, <2>2, FS_Surjection
  <2>4. p \subseteq Words
    BY <1>2
  <2> QED BY <2>1, <2>3, <2>4
<1> QED BY <1>1, <1>2 DEF Prompts

LEMMA RouteTypesStart == ASSUME MaxWords \in Nat, RouteInit PROVE RouteTypes
<1>1. routing = "idle" /\ prompt = {} /\ route = NoRoute /\ unified = TRUE /\ first = "none"
  BY Zenon DEF RouteInit
<1>2. Cardinality({}) <= MaxWords
  BY FS_EmptySet
<1> QED BY <1>1, <1>2 DEF RouteTypes

LEMMA RouteTypesStep ==
    ASSUME MaxWords \in Nat, RouteTypes, [RouteNext]_routesVars
    PROVE  RouteTypes'
<1>1. CASE Ask
  <2>1. prompt' \in Prompts /\ unified' \in BOOLEAN /\ routing' = "asked" /\ route' = route /\ first' = first
    BY <1>1 DEF Ask
  <2>2. prompt' \subseteq Words /\ Cardinality(prompt') <= MaxWords
    BY <2>1, PromptsAre
  <2> QED BY <2>1, <2>2 DEF RouteTypes
<1>2. ASSUME NEW r, Shaped(r), Routed(r) PROVE RouteTypes'
  <2>1. route' = r /\ routing' = "routed" /\ prompt' = prompt /\ unified' = unified /\ first' = first
    BY <1>2 DEF Routed
  <2> QED BY <1>2, <2>1 DEF RouteTypes
<1>3. CASE RuleRoutes
  BY <1>2, <1>3, RuleShaped DEF RuleRoutes
<1>4. CASE ModelRoutes
  <2>1. PICK d \in Decisions : Routed(AnswerPolicy(ValidatedRoute(Merged(d, prompt), prompt), prompt))
    BY <1>4, Zenon DEF ModelRoutes
  <2>2. Shaped(AnswerPolicy(ValidatedRoute(Merged(d, prompt), prompt), prompt))
    BY MergedShaped, ValidatedShaped, PolicyShaped, Zenon
  <2> QED BY <1>2, <2>1, <2>2
<1>5. CASE ModelFails
  BY <1>2, <1>5, FallbackShaped DEF ModelFails
<1>6. CASE CrossCheck
  <2>1. /\ routing = "routed" /\ routing' = "checked" /\ prompt' = prompt /\ unified' = unified /\ first' = first
        /\ route' = route \/ route' = RuleRoute(prompt)
    BY <1>6 DEF CrossCheck
  <2>2. Shaped(route')
    BY <2>1, RuleShaped DEF RouteTypes
  <2> QED BY <2>1, <2>2 DEF RouteTypes
<1>7. ASSUME NEW found \in {"none", "file"}, NEW missing, Target(found, missing) PROVE RouteTypes'
  <2>1. /\ routing = "checked" /\ routing' = "aimed" /\ prompt' = prompt /\ unified' = unified /\ first' = first
        /\ route' = route \/ route' = [route EXCEPT !.target = found]
    BY <1>7 DEF Target
  <2>2. Shaped(route)
    BY <2>1 DEF RouteTypes
  <2>3. CASE route' = [route EXCEPT !.target = found]
    <3>1. DOMAIN route' = Fields /\ route'.caps = route.caps /\ route'.kind = route.kind /\ route'.hint = route.hint
          /\ route'.target = found /\ route'.source = route.source
      BY <2>2, <2>3 DEF Shaped, Fields
    <3>2. found \in Targets
      BY DEF Targets
    <3>3. Shaped(route')
      BY <2>2, <3>1, <3>2 DEF Shaped
    <3> QED BY <2>1, <3>3 DEF RouteTypes
  <2>4. CASE route' = route
    BY <2>1, <2>2, <2>4 DEF RouteTypes
  <2> QED BY <2>1, <2>3, <2>4
<1>8. CASE Generation
  BY <1>8 DEF Generation, RouteTypes
<1>9. ASSUME NEW call \in {"none", "clarify", "search", "delete", "read"}, Preflight(call) PROVE RouteTypes'
  <2>1. routing' = "done" /\ first' = call /\ UNCHANGED <<prompt, route, unified>>
    BY <1>9 DEF Preflight
  <2> QED BY <2>1 DEF RouteTypes
<1>10. CASE UNCHANGED routesVars
  <2>1. UNCHANGED <<routing, prompt, route, unified, first>>
    BY <1>10 DEF routesVars
  <2> QED BY <2>1 DEF RouteTypes
<1> QED BY <1>1, <1>3, <1>4, <1>5, <1>6, <1>7, <1>8, <1>9, <1>10 DEF RouteNext

LEMMA RouteTypesHold == RouteTypes => RouteTypeOK
<1> SUFFICES ASSUME RouteTypes PROVE RouteTypeOK
  OBVIOUS
<1>1. Shaped(route) => /\ route.kind \in Kinds /\ route.caps \subseteq Local \cup Changing \cup Web
                       /\ route.target \in {"none", "file", "directory"} /\ route.hint \in Hints
                       /\ route.source \in {"rule", "model", "fallback"}
  BY DEF Shaped, Abilities, Targets, Origins
<1> QED BY <1>1 DEF RouteTypes, RouteTypeOK

-----------------------------------------------------------------------------
(* The types of the composer, beyond its invariant.                        *)

ComposerTypes ==
    /\ submitted \in Seq(Cells)
    /\ reading \in BOOLEAN
    /\ Len(undos) <= Depth + keys

\* What a key may do to the snapshots.
Stacked ==
    \/ TakeSnapshot
    \/ undos' = undos
    \/ undos' = <<>>
    \/ undos' = Append(undos, Snapshot)
    \/ undos # <<>> /\ undos' = Front(undos)

LEMMA StackedCounts ==
    ASSUME ComposerAssumption, AreaTypes, Stacked, keys \in Nat, Len(undos) <= Depth + keys
    PROVE  Len(undos') <= Depth + (keys + 1)
<1> DEFINE all == Append(undos, Snapshot)
           n == Len(undos)
<1>1. undos \in Seq(Snapshots) /\ Snapshot \in Snapshots
  BY SnapshotIs DEF AreaTypes
<1>2. all \in Seq(Snapshots) /\ Len(all) = n + 1 /\ n \in Nat /\ all # <<>>
  <2> DEFINE s == Snapshot
  <2>1. s \in Snapshots
    BY <1>1
  <2> HIDE DEF s
  <2>2. Append(undos, s) \in Seq(Snapshots) /\ Len(Append(undos, s)) = n + 1 /\ n \in Nat /\ Append(undos, s) # <<>>
    BY <1>1, <2>1
  <2> QED BY <2>2 DEF s
<1>3. Depth \in Nat
  BY Zenon DEF ComposerAssumption
<1> HIDE DEF all
<1>4. CASE TakeSnapshot
  <2>1. undos' = undos \/ undos' = IF Len(all) > Depth THEN Tail(all) ELSE all
    BY <1>4, Zenon DEF TakeSnapshot, all
  <2>2. Len(Tail(all)) = n
    BY <1>2
  <2>3. Len(undos') = n \/ (Len(undos') = n + 1 /\ ~(n + 1 > Depth))
    BY <1>2, <2>1, <2>2, Zenon
  <2> HIDE DEF n
  <2> QED BY <1>2, <1>3, <2>3 DEF n
<1>5. CASE undos' = undos
  BY <1>2, <1>3, <1>5
<1>6. CASE undos' = <<>>
  BY <1>3, <1>6
<1>7. CASE undos' = Append(undos, Snapshot)
  <2>1. Len(undos') = n + 1
    BY <1>2, <1>7, Zenon DEF all
  <2> QED BY <1>2, <1>3, <2>1
<1>8. CASE undos # <<>> /\ undos' = Front(undos)
  <2>1. undos' = SubSeq(undos, 1, n - 1)
    BY <1>8, Zenon DEF Front
  <2>2. n >= 1
    BY <1>1, <1>8
  <2>3. Len(SubSeq(undos, 1, n - 1)) = n - 1
    BY <1>1, <1>2, <2>2
  <2>4. Len(undos') = n - 1
    BY <2>1, <2>3, Zenon
  <2> QED BY <1>2, <1>3, <2>4
<1> QED BY <1>4, <1>5, <1>6, <1>7, <1>8 DEF Stacked

\* A key, told by what it does to the rest.
LEMMA KeyCounts ==
    ASSUME ComposerAssumption, ComposerInv, ComposerTypes, Stacked, keys' = keys + 1,
           submitted' \in Seq(Cells), reading' \in BOOLEAN
    PROVE  ComposerTypes'
<1>1. AreaTypes /\ keys \in Nat
  BY DEF ComposerInv, Numbered
<1>2. Len(undos) <= Depth + keys
  BY DEF ComposerTypes
<1>3. Len(undos') <= Depth + keys'
  BY <1>1, <1>2, StackedCounts
<1> QED BY <1>3 DEF ComposerTypes

LEMMA PressedCounts ==
    ASSUME ComposerAssumption, ComposerInv, ComposerTypes, Stacked, Pressed
    PROVE  ComposerTypes'
<1>1. keys' = keys + 1 /\ submitted' = submitted /\ reading' = reading
  BY DEF Pressed
<1>2. submitted \in Seq(Cells) /\ reading \in BOOLEAN
  BY DEF ComposerTypes
<1> QED BY <1>1, <1>2, KeyCounts

LEMMA EditsStack ==
    /\ \A v : InsertText(v) => Stacked
    /\ \A l : InsertElement(l) => Stacked
    /\ \A a, b : DeleteRange(a, b) => Stacked
    /\ DeleteForward => Stacked
    /\ DeleteBackward => Stacked
    /\ \A a, b : KillRange(a, b) => Stacked
    /\ \A n, c : MoveTo(n, c) => Stacked
    /\ \A t, n : SetText(t, n) => Stacked
    /\ UNCHANGED area => Stacked
<1>1. \A v, added : InsertAs(v, added) => Stacked
  BY Zenon DEF InsertAs, Stacked
<1>2. UNCHANGED area => Stacked
  BY Zenon DEF area, Stacked
<1>3. \A v : InsertText(v) => Stacked
  BY <1>1, <1>2, Zenon DEF InsertText
<1>4. \A l : InsertElement(l) => Stacked
  BY <1>1, Zenon DEF InsertElement
<1>5. \A a, b : DeleteRange(a, b) => Stacked
  BY Zenon DEF DeleteRange, Stacked
<1>6. DeleteForward => Stacked
  BY <1>5, Zenon DEF DeleteForward
<1>7. DeleteBackward => Stacked
  BY <1>5, Zenon DEF DeleteBackward
<1>8. \A a, b : KillRange(a, b) => Stacked
  BY <1>5, Zenon DEF KillRange
<1>9. \A n, c : MoveTo(n, c) => Stacked
  BY Zenon DEF MoveTo, Stacked
<1>10. \A t, n : SetText(t, n) => Stacked
  BY Zenon DEF SetText, Stacked
<1> QED BY <1>2, <1>3, <1>4, <1>5, <1>6, <1>7, <1>8, <1>9, <1>10, Zenon

LEMMA RestoreStacks ==
    /\ undos # <<>> /\ Restore(Last(undos), Front(undos), Append(redos, Snapshot)) => Stacked
    /\ Restore(Last(redos), Append(undos, Snapshot), Front(redos)) => Stacked
<1>1. \A s, past, future : Restore(s, past, future) => undos' = past
  BY Zenon DEF Restore
<1> QED BY <1>1, Zenon DEF Stacked

\* Every key but Enter, Ctrl-C and one that fails.
Ordinary ==
    \/ \E v \in Shorts : Insert(v)
    \/ \E b \in Bodies : Paste(b)
    \/ Backspace \/ Delete
    \/ Left \/ Right \/ Home \/ End \/ WordLeft \/ WordRight
    \/ KillStart \/ KillEnd \/ KillWord \/ Yank \/ Undo \/ Redo \/ Dismiss
    \/ Tab \/ Navigate(1) \/ Navigate(-1) \/ Up \/ Down

LEMMA OrdinaryStacks == ASSUME Ordinary PROVE Stacked /\ Pressed
<1>1. CASE \E v \in Shorts : Insert(v)
  BY <1>1, EditsStack, Zenon DEF Insert, Edited
<1>2. CASE \E b \in Bodies : Paste(b)
  <2>1. PICK b \in Bodies : Paste(b)
    BY <1>2
  <2>2. Pressed /\ \E l : InsertElement(l)
    BY <2>1, Zenon DEF Paste
  <2> QED BY <2>2, EditsStack, Zenon
<1>3. CASE Backspace \/ Delete
  BY <1>3, EditsStack, Zenon DEF Backspace, Delete, Edited
<1>4. CASE Left \/ Right \/ Home \/ End \/ WordLeft \/ WordRight
  BY <1>4, EditsStack, Zenon DEF Left, Right, Home, End, WordLeft, WordRight, Edited
<1>5. CASE KillStart \/ KillEnd \/ KillWord
  <2>1. Pressed /\ \E a, b : KillRange(a, b)
    BY <1>5, Zenon DEF KillStart, KillEnd, KillWord, Edited
  <2> QED BY <2>1, EditsStack, Zenon
<1>6. CASE Yank \/ Dismiss
  BY <1>6, EditsStack, Zenon DEF Yank, Dismiss, Edited
<1>7. CASE Undo \/ Redo
  BY <1>7, RestoreStacks, Zenon DEF Undo, Redo, Edited
<1>8. \A c : InsertCandidate(c) => Stacked
  <2>1. \A c : InsertCandidate(c) => \E t, n : SetText(t, n)
    BY Zenon DEF InsertCandidate
  <2> QED BY <2>1, EditsStack, Zenon
<1>9. \A t : Recall(t) => Stacked /\ Pressed
  BY EditsStack, Zenon DEF Recall
<1>10. CASE Tab
  <2>1. Pressed /\ \E c : InsertCandidate(c)
    BY <1>10, Zenon DEF Tab
  <2> QED BY <1>8, <2>1, Zenon
<1>11. ASSUME NEW by, Navigate(by) PROVE Stacked /\ Pressed
  <2>1. Pressed /\ \E c : InsertCandidate(c)
    BY <1>11, Zenon DEF Navigate
  <2> QED BY <1>8, <2>1, Zenon
<1>12. \A n : Vertical(n) => Stacked /\ Pressed
  BY EditsStack, Zenon DEF Vertical, Edited
<1>13. CASE Up
  <2>1. (\E n : Vertical(n)) \/ (\E t : Recall(t))
    BY <1>13, Zenon DEF Up
  <2> QED BY <1>9, <1>12, <2>1, Zenon
<1>14. CASE Down
  <2>1. (\E n : Vertical(n)) \/ (\E t : Recall(t))
    BY <1>14, Zenon DEF Down
  <2> QED BY <1>9, <1>12, <2>1, Zenon
<1> QED BY <1>1, <1>2, <1>3, <1>4, <1>5, <1>6, <1>7, <1>10, <1>11, <1>13, <1>14, Zenon DEF Ordinary

\* What the pastes put into a text is text.
LEMMA ReplaceTyped ==
    ASSUME ComposerAssumption, NEW t \in Seq(Cells), NEW p, p.label \in Labels, p.body \in Bodies
    PROVE  ReplaceFirst(t, p) \in Seq(Cells)
<1> DEFINE spots == Occurrences(t, p.label)
           m == Len(p.label)
           b == p.body
<1>1. p.label \in Seq(Cells) /\ m \in Nat /\ m >= 3 /\ b \in Cells
  <2>1. b \in Cells
    BY DEF ComposerAssumption
  <2> QED BY <2>1, LabelIs
<1>2. CASE spots = {}
  BY <1>2, Zenon DEF ReplaceFirst
<1>3. CASE spots # {}
  <2>1. ReplaceFirst(t, p) = Upto(t, Min(spots) - 1) \o <<b>> \o From(t, Min(spots) + m - 1)
    BY <1>3, Zenon DEF ReplaceFirst
  <2>0. \A i \in spots : i \in 1..(Len(t) - m + 1)
    BY Zenon DEF Occurrences
  <2> HIDE DEF spots, m
  <2>2. spots \subseteq Nat /\ \A i \in spots : i >= 1
    <3>1. Len(t) \in Nat
      OBVIOUS
    <3>2. \A i \in 1..(Len(t) - m + 1) : i \in Nat /\ i >= 1
      BY <1>1, <3>1
    <3> QED BY <2>0, <3>2
  <2>3. Min(spots) \in Nat /\ Min(spots) \in spots
    BY <1>3, <2>2, LeastIs
  <2> DEFINE k == Min(spots) - 1
             l == Min(spots) + m - 1
  <2>4. k \in Nat /\ l \in Nat
    <3>1. Min(spots) >= 1
      BY <2>2, <2>3
    <3> QED BY <1>1, <2>3, <3>1
  <2> HIDE DEF k, l, b
  <2>5. Upto(t, k) \in Seq(Cells) /\ From(t, l) \in Seq(Cells)
    BY <2>4, UptoIs, FromIs
  <2>6. <<b>> \in Seq(Cells)
    BY <1>1
  <2>7. Upto(t, k) \o <<b>> \o From(t, l) \in Seq(Cells)
    BY <2>5, <2>6
  <2> QED BY <2>1, <2>7, Zenon DEF k, l
<1> QED BY <1>2, <1>3

LEMMA ExpandTyped ==
    ASSUME ComposerAssumption, Numbered, NEW t \in Seq(Cells)
    PROVE  Expand(t) \in Seq(Cells)
<1> DEFINE n == Len(pending)
<1>1. n \in Nat /\ \A k \in 1..n : pending[k] \in GivenOut(issued)
  <2>1. pending \in Seq(GivenOut(issued))
    BY DEF Numbered
  <2> QED BY <2>1
<1>2. \A k \in 1..n : pending[k].label \in Labels /\ pending[k].body \in Bodies
  <2>1. \A p \in GivenOut(issued) : p \in [label : Labels, body : Bodies]
    BY Zenon DEF GivenOut
  <2> QED BY <1>1, <2>1
<1>3. PICK d : /\ Expand(t) = d[n] /\ d[0] = t
               /\ \A k \in 1..n : d[k] = ReplaceFirst(d[k - 1], pending[k])
  BY <1>1, ExpandIs
<1> HIDE DEF n
<1> DEFINE K == {k \in Nat : k <= n => d[k] \in Seq(Cells)}
<1>4. 0 \in K
  BY <1>3, Zenon
<1>5. ASSUME NEW k \in Nat, k \in K PROVE k + 1 \in K
  <2> SUFFICES ASSUME k + 1 <= n PROVE d[k + 1] \in Seq(Cells)
    OBVIOUS
  <2>1. k <= n /\ k + 1 \in 1..n /\ (k + 1) - 1 = k
    BY <1>1, SMT
  <2>2. d[k] \in Seq(Cells)
    BY <1>5, <2>1
  <2>3. d[k + 1] = ReplaceFirst(d[k], pending[k + 1])
    BY <1>3, <2>1, Zenon
  <2>4. pending[k + 1].label \in Labels /\ pending[k + 1].body \in Bodies
    BY <1>2, <2>1, Zenon
  <2>5. ReplaceFirst(d[k], pending[k + 1]) \in Seq(Cells)
    BY <2>2, <2>4, ReplaceTyped
  <2> QED BY <2>3, <2>5, Zenon
<1> HIDE DEF K
<1>6. Nat \subseteq K
  BY <1>4, <1>5, AllNumbers
<1>7. n \in K /\ n <= n
  BY <1>1, <1>6
<1> QED BY <1>3, <1>7, Zenon DEF K

LEMMA ComposerTypesStart == ASSUME ComposerAssumption, ComposerInit PROVE ComposerTypes
<1>1. submitted = <<>> /\ reading = TRUE /\ keys = 0 /\ undos = <<>>
  BY Zenon DEF ComposerInit
<1>2. Depth \in Nat
  BY Zenon DEF ComposerAssumption
<1>3. Len(undos) <= Depth + keys
  BY <1>1, <1>2
<1> QED BY <1>1, <1>3 DEF ComposerTypes

LEMMA ComposerTypesStep ==
    ASSUME ComposerAssumption, ComposerInv, ComposerTypes, [ComposerNext]_composerVars
    PROVE  ComposerTypes'
<1>1. CASE Ordinary
  BY <1>1, OrdinaryStacks, PressedCounts
<1>2. CASE Submit
  <2>1. submitted' = Expand(text) /\ undos' = <<>> /\ keys' = keys + 1 /\ reading' = reading
    BY <1>2, Zenon DEF Submit
  <2>2. Numbered /\ text \in Seq(Cells)
    BY DEF ComposerInv, AreaTypes
  <2>3. submitted' \in Seq(Cells)
    BY <2>1, <2>2, ExpandTyped
  <2>4. Stacked
    BY <2>1, Zenon DEF Stacked
  <2>5. reading' \in BOOLEAN
    BY <2>1 DEF ComposerTypes
  <2> QED BY <2>1, <2>3, <2>4, <2>5, KeyCounts
<1>3. CASE DeleteOrEof
  <2>1. /\ keys' = keys + 1 /\ submitted' = submitted
        /\ reading' = FALSE \/ reading' = reading
        /\ UNCHANGED area \/ DeleteForward
    BY <1>3, Zenon DEF DeleteOrEof, Pressed
  <2>2. Stacked
    BY <2>1, EditsStack, Zenon
  <2>3. submitted' \in Seq(Cells) /\ reading' \in BOOLEAN
    BY <2>1, Zenon DEF ComposerTypes
  <2> QED BY <2>1, <2>2, <2>3, KeyCounts
<1>4. ASSUME UNCHANGED <<area, submitted, keys>>, reading' = FALSE \/ reading' = reading PROVE ComposerTypes'
  <2>1. undos' = undos /\ submitted' = submitted /\ keys' = keys
    BY <1>4, Zenon DEF area
  <2>2. reading' \in BOOLEAN
    BY <1>4, Zenon DEF ComposerTypes
  <2> QED BY <2>1, <2>2, Zenon DEF ComposerTypes
<1>5. CASE Cancel \/ WordFails
  <2>1. UNCHANGED <<area, submitted, keys>> /\ reading' = FALSE
    BY <1>5, Zenon DEF Cancel, WordFails, Leave
  <2> QED BY <1>4, <2>1
<1>6. CASE UNCHANGED composerVars
  <2>1. UNCHANGED <<area, submitted, keys>> /\ reading' = reading
    BY <1>6, Zenon DEF composerVars
  <2> QED BY <1>4, <2>1
<1>7. ComposerNext => Ordinary \/ Submit \/ DeleteOrEof \/ Cancel \/ WordFails
  BY Zenon DEF ComposerNext, Ordinary
<1> QED BY <1>1, <1>2, <1>3, <1>5, <1>6, <1>7

LEMMA ComposerTypesHold ==
    ASSUME ComposerAssumption, ComposerInv, ComposerTypes
    PROVE  ComposerTypeOK
<1>1. AreaTypes /\ Numbered /\ Offering(completion) /\ Past /\ strayed \in BOOLEAN /\ undone \in BOOLEAN
  BY DEF ComposerInv
<1>2. /\ text \in Seq(Cells) /\ kill \in Seq(Cells) /\ cursor \in Nat /\ column \in Nat \cup {NoColumn}
      /\ elements \subseteq Spans /\ undos \in Seq(Snapshots)
  BY <1>1 DEF AreaTypes
<1>3. draft \in Seq(Cells) /\ index \in 0..Len(entries)
  BY <1>1 DEF Past
<1>4. submitted \in Seq(Cells) /\ reading \in BOOLEAN /\ Len(undos) <= Depth + keys
  BY DEF ComposerTypes
<1>5. \A e \in elements : IsElement(e)
  <2>1. \A e \in Spans : e.from \in Nat /\ e.to \in Nat /\ e.from < e.to
    BY SpanIs
  <2> QED BY <1>2, <2>1 DEF IsElement
<1>6. /\ keys \in Nat /\ keys <= MaxKeys /\ issued \in [Sizes -> Nat]
      /\ pending \in Seq(GivenOut(issued)) /\ Apart(pending)
  BY <1>1 DEF Numbered
<1>7. Depth \in Nat /\ MaxKeys \in Nat
  BY Zenon DEF ComposerAssumption
<1>8. Len(undos) <= Depth + MaxKeys
  <2>1. Len(undos) \in Nat
    BY <1>2
  <2> QED BY <1>4, <1>6, <1>7, <2>1
<1>9. \A i, j \in DOMAIN pending : pending[i].label = pending[j].label => i = j
  <2>1. DOMAIN pending = 1..Len(pending)
    BY <1>6
  <2> QED BY <1>6, <2>1, Zenon DEF Apart
<1>10. \A s \in DOMAIN issued : issued[s] \in Nat
  BY <1>6
<1>11. Len(completion) <= 1
  BY <1>1 DEF Offering
<1>12. keys \in 0..MaxKeys
  BY <1>6, <1>7
<1> QED BY <1>1, <1>2, <1>3, <1>4, <1>5, <1>8, <1>9, <1>10, <1>11, <1>12, Zenon DEF ComposerTypeOK

-----------------------------------------------------------------------------
(* The decisions together.                                                 *)

\* The invariants of the components and their types.
DecisionTypes ==
    /\ WorkflowInv /\ WorkflowTypes
    /\ StreamInv /\ StreamTypes
    /\ RouteTypes
    /\ PlanTypes
    /\ InspectInv /\ InspectTypes /\ anchored \in BOOLEAN
    /\ ComposerInv /\ ComposerTypes

\* A step of the decisions is a step of one component; the others stay as they are.
LEMMA DecisionSteps ==
    ASSUME [Next]_vars
    PROVE  /\ [WorkflowNext]_workflowVars /\ [StreamNext]_streamVars /\ [RouteNext]_routesVars
           /\ [PlansNext]_plansVars /\ [InspectNext]_inspectVars /\ [ComposerNext]_composerVars
<1>1. CASE UNCHANGED vars
  BY <1>1, Zenon DEF vars
<1>2. CASE Next /\ active = "stream"
  <2>1. StreamOnly /\ StreamNext
    BY <1>2 DEF Next, StreamNext
  <2> QED BY <2>1, Zenon DEF StreamOnly
<1>3. CASE Next /\ active = "workflow"
  <2>1. WorkflowOnly /\ WorkflowNext
    BY <1>3 DEF Next, WorkflowNext
  <2> QED BY <2>1, Zenon DEF WorkflowOnly
<1>4. CASE Next /\ active = "planner"
  <2>1. PlansOnly /\ PlansNext
    BY <1>4 DEF Next, PlansNext
  <2> QED BY <2>1, Zenon DEF PlansOnly
<1>5. CASE Next /\ active = "router"
  <2>1. RouterOnly /\ RouteNext
    BY <1>5 DEF Next, RouteNext
  <2> QED BY <2>1, Zenon DEF RouterOnly
<1>6. CASE Next /\ active = "inspection"
  <2>1. InspectOnly /\ InspectNext
    BY <1>6 DEF Next, InspectNext
  <2> QED BY <2>1, Zenon DEF InspectOnly
<1>7. CASE Next /\ active = "composer"
  <2>1. PromptOnly /\ ComposerNext
    BY <1>7 DEF Next, ComposerNext
  <2> QED BY <2>1, Zenon DEF PromptOnly
<1>8. Next => active \in {"stream", "workflow", "planner", "router", "inspection", "composer"}
  BY DEF Next
<1> QED BY <1>1, <1>2, <1>3, <1>4, <1>5, <1>6, <1>7, <1>8

\* The state of every component that makes something of a prompt or of what the model
\* says is of its type, for all words, files, paths and texts: a route has a kind, a
\* target and no capability that does not exist, whichever of the rules, the model and
\* the fallback has made it and whatever the validation has taken from it; the editor
\* keeps as many snapshots as its depth and its keys allow, and what Enter sends is
\* text; an inspection ends within two actions a round.
THEOREM DecisionTypeCorrect == Spec => []TypeOK
<1>0. /\ {PlanAttempts, PlannerAttempts} \subseteq Nat /\ MaxRepairs \in Nat
      /\ MaxRetries \in Nat /\ MaxWords \in Nat /\ ComposerAssumption
  BY WorkflowAssumption, StreamAssumption, RoutesAssumption, ComposerAssumption
<1>1. Init => DecisionTypes
  <2>1. Init => WorkflowInit /\ StreamInit /\ RouteInit /\ PlansInit /\ InspectInit /\ ComposerInit
    BY Zenon DEF Init
  <2> QED BY <1>0, <2>1, WorkflowInvInit, WorkflowTypesStart, StreamInitInv, StreamTypesStart, RouteTypesStart,
             PlanTypesStart, InspectInitInv, InspectTypesStart, ComposerStarts, ComposerTypesStart,
             Zenon DEF DecisionTypes
<1>2. DecisionTypes /\ [Next]_vars => DecisionTypes'
  <2> SUFFICES ASSUME DecisionTypes, [Next]_vars PROVE DecisionTypes'
    OBVIOUS
  <2>1. /\ [WorkflowNext]_workflowVars /\ [StreamNext]_streamVars /\ [RouteNext]_routesVars
        /\ [PlansNext]_plansVars /\ [InspectNext]_inspectVars /\ [ComposerNext]_composerVars
    BY DecisionSteps
  <2>2. WorkflowInv' /\ WorkflowTypes'
    BY <1>0, <2>1, WorkflowStep, WorkflowTypesStep DEF DecisionTypes
  <2>3. StreamInv' /\ StreamTypes'
    BY <1>0, <2>1, StreamNextInv, StreamTypesStep DEF DecisionTypes
  <2>4. RouteTypes'
    BY <1>0, <2>1, RouteTypesStep DEF DecisionTypes
  <2>5. PlanTypes'
    BY <2>1, PlanTypesStep DEF DecisionTypes
  <2>6. InspectInv' /\ InspectTypes' /\ anchored' \in BOOLEAN
    BY <2>1, InspectNextInv, InspectTypesStep, AnchoredStays DEF DecisionTypes
  <2>7. ComposerInv' /\ ComposerTypes'
    BY <1>0, <2>1, ComposerKept, ComposerTypesStep DEF DecisionTypes
  <2> QED BY <2>2, <2>3, <2>4, <2>5, <2>6, <2>7, Zenon DEF DecisionTypes
<1>3. DecisionTypes => TypeOK
  BY <1>0, WorkflowTypesHold, StreamTypesHold, RouteTypesHold, PlanTypesHold, InspectTypesHold,
     ComposerTypesHold, Zenon DEF DecisionTypes, TypeOK
<1> QED BY <1>1, <1>2, <1>3, PTL DEF Spec
=============================================================================
