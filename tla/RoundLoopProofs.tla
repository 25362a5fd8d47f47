-------------------------- MODULE RoundLoopProofs --------------------------
(***************************************************************************)
(* Proofs about the round loop, for every set of tasks and every value of  *)
(* the limits.                                                             *)
(***************************************************************************)
EXTENDS RoundLoop, TLAPS

RuntimeSet ==
    [validation_repair_pending : BOOLEAN, validation_action_pending : BOOLEAN,
     mutation_action_pending : BOOLEAN, awaiting_revalidation : BOOLEAN,
     malformed : 0..MaxMalformed, pseudo : BOOLEAN,
     blocks : [BlockReason -> [GatePhase -> 0..MaxPhaseBlocks]],
     change_final : BOOLEAN, inspect_final : BOOLEAN, external_final : BOOLEAN]
RecoverySet ==
    [empty : BOOLEAN, timeout : BOOLEAN, final_answer : BOOLEAN,
     mutation_requests : Nat, validation_action : BOOLEAN,
     repair_requests : 0..MaxRepairRequests]
EvidenceSet ==
    [changed : BOOLEAN, sourceChanged : BOOLEAN, safe_noop : BOOLEAN,
     passed : {"none", "yes", "no"}, commands : BOOLEAN, discovered : BOOLEAN,
     missing : SUBSET {"source", "test"}]
BatchSet == [facts : SUBSET Fact, count : 0..MaxCalls, prefetched : BOOLEAN]
OutcomeSet ==
    [status : {"none", "success", "partial", "failed", "raised"},
     error : {"none", "recoverable", "other"}, answer : BOOLEAN]
Place == {"preflight", "control", "inject", "model", "tools", "conclude",
          "over", "validate", "finalize", "ended"}

\* Where a round is under way, and what holds at each place: a round is left,
\* or the rounds have returned an outcome.
InRound == {"control", "inject", "model", "tools", "conclude"}
Arrived == /\ pc \in InRound => round < MaxRounds
           /\ pc = "preflight" => round = 0
           /\ pc \in {"validate", "finalize"} => outcome.status \in {"success", "partial", "failed"}

\* The parts of TypeOK that one kind of step changes.
LocalOK == /\ phase \in GatePhase /\ tools \subseteq Family
           /\ batch \in BatchSet /\ origin \in {"control", "edit", "malformed"}
HistoryOK == stale \in BOOLEAN /\ tried \in BOOLEAN /\ unseen \in BOOLEAN
PlaceOK == pc \in Place /\ round \in 0..MaxRounds /\ Arrived
StateOK ==
    /\ task \in Tasks /\ PlaceOK
    /\ runtime \in RuntimeSet /\ recovery \in RecoverySet /\ evidence \in EvidenceSet
    /\ LocalOK /\ outcome \in OutcomeSet
    /\ status \in {"running", "success", "partial", "failed", "cancelled"}
    /\ HistoryOK

LEMMA NewValues ==
    /\ NewRuntime \in RuntimeSet /\ NewRecovery \in RecoverySet /\ NoBatch \in BatchSet
BY LimitAssumption DEF NewRuntime, NewRecovery, NoBatch, RuntimeSet, RecoverySet, BatchSet, BlockReason, GatePhase, Fact

LEMMA NextRoundOK ==
    ASSUME StateOK, pc \in InRound, NextRound
    PROVE  PlaceOK' /\ LocalOK' /\ (outcome \in OutcomeSet)'
BY LimitAssumption, NewValues DEF NextRound, StateOK, PlaceOK, Arrived, LocalOK, InRound, Place, GatePhase

LEMMA LeaveRoundsOK ==
    ASSUME LeaveRounds
    PROVE  /\ LocalOK' /\ (runtime \in RuntimeSet)' /\ (recovery \in RecoverySet)'
           /\ (round \in 0..MaxRounds)'
BY LimitAssumption, NewValues DEF LeaveRounds, LocalOK, GatePhase

LEMMA ReturnOK ==
    ASSUME NEW s \in {"success", "partial", "failed"}, NEW e \in {"none", "recoverable", "other"},
           NEW a \in BOOLEAN, Return(s, e, a)
    PROVE  /\ PlaceOK' /\ LocalOK' /\ (runtime \in RuntimeSet)' /\ (recovery \in RecoverySet)'
           /\ (outcome \in OutcomeSet)'
BY LeaveRoundsOK DEF Return, PlaceOK, Arrived, Place, InRound, OutcomeSet

LEMMA TestEvidenceOK ==
    ASSUME NEW e \in EvidenceSet, NEW k
    PROVE  TestEvidence(e, k) \in EvidenceSet
BY DEF TestEvidence, EvidenceSet

LEMMA RunTestsOK ==
    ASSUME StateOK, NEW k, RunTests(k)
    PROVE  (evidence \in EvidenceSet)' /\ HistoryOK'
<1>1. TestEvidence(evidence, k) \in EvidenceSet
    BY TestEvidenceOK DEF StateOK
<1>2. \A e \in MissingModule(TestEvidence(evidence, k), k) : e \in EvidenceSet
    BY <1>1 DEF MissingModule, EvidenceSet
<1> QED
    BY <1>2 DEF RunTests, HistoryOK, StateOK

LEMMA RepairNextOK ==
    ASSUME NEW rt \in RuntimeSet
    PROVE  RepairNext(rt) \in RuntimeSet
BY DEF RepairNext, RuntimeSet

LEMMA CountBlockOK ==
    ASSUME StateOK, NEW reason \in BlockReason, Tried(reason) < MaxPhaseBlocks
    PROVE  CountBlock(reason) \in RuntimeSet
<1>1. phase \in GatePhase /\ runtime \in RuntimeSet
    BY DEF StateOK, LocalOK
<1>2. runtime.blocks[reason][phase] + 1 \in 0..MaxPhaseBlocks
    BY <1>1, LimitAssumption DEF Tried, RuntimeSet
<1>3. [runtime.blocks EXCEPT ![reason][phase] = @ + 1] \in [BlockReason -> [GatePhase -> 0..MaxPhaseBlocks]]
    BY <1>1, <1>2 DEF RuntimeSet
<1> QED
    BY <1>1, <1>3 DEF CountBlock, RuntimeSet

\* Flags are reset to truth values.
LEMMA FlagsOK ==
    ASSUME NEW rt \in RuntimeSet, NEW a \in BOOLEAN, NEW b \in BOOLEAN
    PROVE  /\ [rt EXCEPT !.validation_action_pending = a, !.awaiting_revalidation = b] \in RuntimeSet
           /\ [rt EXCEPT !.validation_repair_pending = a, !.mutation_action_pending = b] \in RuntimeSet
BY DEF RuntimeSet

LEMMA AfterTestsOK ==
    ASSUME NEW rt \in RuntimeSet
    PROVE  AfterTests(rt) \in RuntimeSet
<1> DEFINE a == rt.validation_action_pending /\ "tested" \notin batch.facts
           b == rt.awaiting_revalidation /\ "tested" \notin batch.facts
           asked == [rt EXCEPT !.validation_action_pending = a, !.awaiting_revalidation = b]
<1>1. a \in BOOLEAN /\ b \in BOOLEAN
    BY Zenon
<1>2. asked \in RuntimeSet
    <2> HIDE DEF a, b
    <2> QED BY <1>1, FlagsOK
<1>3. AfterTests(rt) = IF "failed" \in batch.facts THEN RepairNext(asked) ELSE asked
    BY Zenon DEF AfterTests
<1> HIDE DEF asked
<1> QED
    BY <1>2, <1>3, RepairNextOK

LEMMA ControlledOK ==
    ASSUME StateOK, NEW d
    PROVE  Controlled(d) \in RuntimeSet
<1> DEFINE a == d = "validate"
           r == d = "repair" \/ (d = "idle" /\ runtime.validation_repair_pending)
           q == runtime.mutation_action_pending \/ d \in {"repair", "artifact"}
           w == d = "validate" /\ runtime.awaiting_revalidation
           one == [runtime EXCEPT !.validation_action_pending = a, !.awaiting_revalidation = w]
<1>1. a \in BOOLEAN /\ r \in BOOLEAN /\ q \in BOOLEAN /\ w \in BOOLEAN
    BY Zenon
<1>2. runtime \in RuntimeSet
    BY DEF StateOK
<1>3. Controlled(d) = [runtime EXCEPT !.validation_action_pending = a, !.validation_repair_pending = r,
                                      !.mutation_action_pending = q, !.awaiting_revalidation = w]
    BY Zenon DEF Controlled
<1> HIDE DEF a, r, q, w
<1> QED
    BY <1>1, <1>2, <1>3 DEF RuntimeSet

LEMMA GatesOK ==
    ASSUME NEW rt, NEW lock, NEW spent, NEW e, NEW gate \in Gates(rt, lock, spent, e)
    PROVE  gate[1] \in GatePhase
BY DEF Gates, GatePhase

LEMMA OfferedOK ==
    ASSUME NEW rt, NEW lock, NEW gate
    PROVE  Offered(rt, lock, gate) \subseteq Family
BY DEF Offered, Family

-----------------------------------------------------------------------------
\* Each action keeps the state well-formed.

LEMMA InitOK ==
    ASSUME Init
    PROVE  StateOK
<1>1. task \in Task /\ task.wants \in SUBSET {"source", "test"}
    BY TaskAssumption DEF Init, Task
<1>2. evidence \in EvidenceSet
    BY <1>1 DEF Init, EvidenceSet
<1>3. PlaceOK
    BY LimitAssumption DEF Init, PlaceOK, Place, InRound, Arrived
<1>4. LocalOK
    BY NewValues DEF Init, LocalOK, GatePhase
<1>5. outcome \in OutcomeSet
    BY DEF Init, OutcomeSet
<1>6. HistoryOK
    BY DEF Init, HistoryOK
<1> QED
    BY <1>2, <1>3, <1>4, <1>5, <1>6, NewValues DEF Init, StateOK

LEMMA PreflightOK ==
    ASSUME StateOK, Preflight
    PROVE  StateOK'
<1>1. CASE Return("partial", "other", TRUE)
    BY <1>1, ReturnOK DEF Preflight, StateOK, HistoryOK, history
<1>2. ASSUME NEW force \in BOOLEAN,
             runtime' = [runtime EXCEPT !.mutation_action_pending = force],
             pc' = "control", UNCHANGED <<round, recovery, local, origin, outcome>>
      PROVE  StateOK'
    <2>1. runtime' \in RuntimeSet
        BY <1>2 DEF StateOK, RuntimeSet
    <2>2. PlaceOK'
        BY <1>2, LimitAssumption DEF Preflight, StateOK, PlaceOK, Arrived, Place, InRound
    <2> QED
        BY <1>2, <2>1, <2>2 DEF Preflight, StateOK, LocalOK, local, HistoryOK, history
<1> QED
    BY <1>1, <1>2 DEF Preflight

LEMMA ControlOK ==
    ASSUME StateOK, Control
    PROVE  StateOK'
<1> DEFINE d == Decision
           rt == Controlled(d)
           waiting == rt.validation_action_pending \/ rt.awaiting_revalidation
           found == evidence.discovered
                      \/ (waiting /\ ~More /\ ~task.web /\ DiscoveryNeeded(evidence) /\ task.related)
           seeded == [evidence EXCEPT !.discovered = found]
<1>1. rt \in RuntimeSet
    BY ControlledOK
<1>2. found \in BOOLEAN
    BY Zenon DEF More, DiscoveryNeeded
<1>3. seeded \in EvidenceSet
    <2> HIDE DEF found
    <2> QED BY <1>2 DEF StateOK, EvidenceSet
<1>4. task' = task /\ status' = status /\ HistoryOK'
    BY DEF Control, StateOK, HistoryOK
<1>5. CASE Return("partial", "other", TRUE) /\ UNCHANGED evidence
    BY <1>4, <1>5, ReturnOK DEF StateOK
<1>6. CASE /\ pc' = "inject" /\ origin' = "control"
           /\ runtime' = rt /\ evidence' = seeded
           /\ UNCHANGED <<round, recovery, local, outcome>>
    <2> HIDE DEF rt, seeded
    <2>1. PlaceOK'
        BY <1>6 DEF Control, StateOK, PlaceOK, Arrived, Place, InRound
    <2> QED
        BY <1>1, <1>3, <1>4, <1>6, <2>1 DEF StateOK, LocalOK, local
<1> DEFINE Lock(spent) == /\ rt.mutation_action_pending /\ ~rt.validation_repair_pending
                          /\ spent \/ recovery.mutation_requests >= MaxMutationRequests
           Inspect(ready) == rt.inspect_final \/ (ready /\ task.kind = "inspect")
           External(ready) == rt.external_final \/ (ready /\ task.web /\ round > 0)
           Asked(ready) == [rt EXCEPT !.inspect_final = Inspect(ready),
                                      !.external_final = External(ready)]
<1>7. CASE /\ \E spent, ready \in BOOLEAN :
                /\ spent => round > 0
                /\ \E gate \in Gates(Asked(ready), Lock(spent), spent, seeded) :
                     /\ phase' = gate[1]
                     /\ tools' = Offered(Asked(ready), Lock(spent), gate)
                /\ runtime' = Asked(ready)
           /\ evidence' = seeded
           /\ pc' = "model"
           /\ UNCHANGED <<round, recovery, batch, origin, outcome>>
    <2> HIDE DEF rt, seeded, Lock
    <2>1. PICK spent \in BOOLEAN, ready \in BOOLEAN :
                /\ \E gate \in Gates(Asked(ready), Lock(spent), spent, seeded) :
                     /\ phase' = gate[1]
                     /\ tools' = Offered(Asked(ready), Lock(spent), gate)
                /\ runtime' = Asked(ready)
        BY <1>7, Zenon
    <2>2. Inspect(ready) \in BOOLEAN /\ External(ready) \in BOOLEAN
        BY Zenon
    <2>3. runtime' \in RuntimeSet
        <3> HIDE DEF Inspect, External
        <3> QED BY <1>1, <2>1, <2>2 DEF RuntimeSet
    <2>4. phase' \in GatePhase /\ tools' \subseteq Family
        <3> HIDE DEF Asked
        <3> QED BY <2>1, GatesOK, OfferedOK
    <2>5. PlaceOK'
        BY <1>7 DEF Control, StateOK, PlaceOK, Arrived, Place, InRound
    <2> QED
        BY <1>3, <1>4, <1>7, <2>3, <2>4, <2>5 DEF StateOK, LocalOK
<1> QED
    BY <1>5, <1>6, <1>7, Zenon DEF Control

LEMMA InjectOK ==
    ASSUME StateOK, NEW k, Inject(k)
    PROVE  StateOK'
<1> DEFINE w == runtime.awaiting_revalidation /\ origin = "edit"
           n == IF origin = "malformed" /\ k = "fail" THEN 0 ELSE runtime.malformed
           rt == [runtime EXCEPT !.validation_action_pending = FALSE,
                                 !.awaiting_revalidation = w, !.malformed = n]
           told == IF k = "fail" THEN RepairNext(rt) ELSE rt
<1>1. w \in BOOLEAN
    BY Zenon
<1>2. n \in 0..MaxMalformed
    BY LimitAssumption DEF StateOK, RuntimeSet
<1>3. rt \in RuntimeSet
    <2> HIDE DEF w, n
    <2> QED BY <1>1, <1>2 DEF StateOK, RuntimeSet
<1>4. told \in RuntimeSet
    <2> HIDE DEF rt
    <2> QED BY <1>3, RepairNextOK
<1>5. /\ (evidence \in EvidenceSet)' /\ HistoryOK' /\ task' = task /\ status' = status
      /\ pc = "inject"
    BY RunTestsOK DEF Inject
<1>6. CASE /\ runtime' = AfterTests(told) /\ pc' = "conclude"
           /\ UNCHANGED <<round, recovery, local, origin, outcome>>
    <2> HIDE DEF told
    <2>1. runtime' \in RuntimeSet
        BY <1>4, <1>6, AfterTestsOK
    <2>2. PlaceOK'
        BY <1>5, <1>6 DEF StateOK, PlaceOK, Arrived, Place, InRound
    <2> QED
        BY <1>5, <1>6, <2>1, <2>2 DEF StateOK, LocalOK, local
<1>7. CASE Return("success", "none", TRUE)
    BY <1>5, <1>7, ReturnOK DEF StateOK
<1>8. CASE runtime' = told /\ NextRound /\ UNCHANGED recovery
    <2> HIDE DEF told
    <2> QED BY <1>4, <1>5, <1>8, NextRoundOK DEF StateOK, InRound
<1> QED
    BY <1>6, <1>7, <1>8, Zenon DEF Inject

\* The two ways a step in the rounds ends.
LEMMA ReturnKeeps ==
    ASSUME StateOK, NEW s \in {"success", "partial", "failed"}, NEW e \in {"none", "recoverable", "other"},
           NEW a \in BOOLEAN, Return(s, e, a), UNCHANGED <<task, evidence, status, history>>
    PROVE  StateOK'
BY ReturnOK DEF StateOK, HistoryOK, history

LEMMA NextRoundKeeps ==
    ASSUME StateOK, pc \in InRound, NextRound, runtime' \in RuntimeSet, recovery' \in RecoverySet,
           UNCHANGED <<task, evidence, status, history>>
    PROVE  StateOK'
BY NextRoundOK DEF StateOK, HistoryOK, history

LEMMA AskForEditKeeps ==
    ASSUME StateOK, pc \in InRound, NEW rt \in RuntimeSet, AskForEdit(rt), UNCHANGED <<task, status>>
    PROVE  StateOK'
<1>1. [recovery EXCEPT !.mutation_requests = @ + 1] \in RecoverySet
    BY DEF StateOK, RecoverySet
<1>2. [rt EXCEPT !.mutation_action_pending = TRUE] \in RuntimeSet
    BY DEF RuntimeSet
<1> QED
    BY <1>1, <1>2, NextRoundKeeps DEF AskForEdit

LEMMA AskForValidationKeeps ==
    ASSUME StateOK, pc \in InRound, AskForValidation, UNCHANGED <<task, status>>
    PROVE  StateOK'
<1>1. [recovery EXCEPT !.validation_action = TRUE] \in RecoverySet /\ runtime \in RuntimeSet
    BY DEF StateOK, RecoverySet
<1> QED
    BY <1>1, ReturnKeeps, NextRoundKeeps DEF AskForValidation

LEMMA AskForRepairKeeps ==
    ASSUME StateOK, pc \in InRound, NeedsRepair, AskForRepair, UNCHANGED <<task, status>>
    PROVE  StateOK'
<1>1. [recovery EXCEPT !.repair_requests = @ + 1] \in RecoverySet
    BY LimitAssumption DEF StateOK, RecoverySet, NeedsRepair
<1>2. RepairNext(runtime) \in RuntimeSet
    BY RepairNextOK DEF StateOK
<1> QED
    BY <1>1, <1>2, NextRoundKeeps DEF AskForRepair

LEMMA AskAgainKeeps ==
    ASSUME StateOK, pc \in InRound, AskAgain, UNCHANGED <<task, status>>
    PROVE  StateOK'
BY NextRoundKeeps DEF AskAgain, StateOK

LEMMA ResponseOK ==
    ASSUME StateOK, Response
    PROVE  StateOK'
<1> USE DEF InRound
<1>1. runtime \in RuntimeSet /\ recovery \in RecoverySet
    BY DEF StateOK
<1>2. CASE StreamTimeout
    <2>1. [recovery EXCEPT !.timeout = TRUE] \in RecoverySet
        BY <1>1 DEF RecoverySet
    <2> QED
        BY <1>1, <1>2, <2>1, ReturnKeeps, NextRoundKeeps DEF StreamTimeout
<1>3. CASE ToolCalls
    <2>1. CASE \E s \in {"success", "partial"}, e \in {"none", "other"} : Return(s, e, TRUE)
        BY <1>3, <2>1, ReturnKeeps DEF ToolCalls
    <2>2. CASE /\ \E p \in BOOLEAN : batch' = [NoBatch EXCEPT !.prefetched = p]
               /\ pc' = "tools"
               /\ UNCHANGED <<round, runtime, recovery, phase, tools, origin, outcome>>
        <3>1. batch' \in BatchSet
            BY <2>2, NewValues DEF BatchSet
        <3>2. PlaceOK'
            BY <1>3, <2>2 DEF ToolCalls, StateOK, PlaceOK, Arrived, Place
        <3> QED
            BY <1>3, <2>2, <3>1, <3>2 DEF ToolCalls, StateOK, LocalOK, HistoryOK, history
    <2> QED
        BY <1>3, <2>1, <2>2 DEF ToolCalls
<1>4. CASE EmptyResponse
    <2>1. [recovery EXCEPT !.empty = TRUE] \in RecoverySet
        BY <1>1 DEF RecoverySet
    <2> QED
        BY <1>1, <1>4, <2>1, ReturnKeeps, NextRoundKeeps DEF EmptyResponse
<1>5. CASE PseudoToolCall
    <2>1. [runtime EXCEPT !.pseudo = TRUE] \in RuntimeSet
        BY <1>1 DEF RuntimeSet
    <2> QED
        BY <1>1, <1>5, <2>1, ReturnKeeps, NextRoundKeeps DEF PseudoToolCall
<1>6. CASE LengthCutoff
    BY <1>6, ReturnKeeps DEF LengthCutoff
<1>7. CASE MalformedToolCall
    <2>1. /\ [runtime EXCEPT !.malformed = 0] \in RuntimeSet
          /\ runtime.malformed < MaxMalformed => [runtime EXCEPT !.malformed = @ + 1] \in RuntimeSet
          /\ [recovery EXCEPT !.validation_action = TRUE] \in RecoverySet
        <3>1. ASSUME NEW n \in 0..MaxMalformed
              PROVE  [runtime EXCEPT !.malformed = n] \in RuntimeSet
            BY <1>1, <3>1 DEF RuntimeSet
        <3>2. 0 \in 0..MaxMalformed /\ (runtime.malformed < MaxMalformed => runtime.malformed + 1 \in 0..MaxMalformed)
            BY <1>1, LimitAssumption DEF RuntimeSet
        <3>3. [recovery EXCEPT !.validation_action = TRUE] \in RecoverySet
            BY <1>1 DEF RecoverySet
        <3> QED
            BY <3>1, <3>2, <3>3
    <2>2. CASE AskForEdit([runtime EXCEPT !.malformed = 0])
        BY <1>7, <2>1, <2>2, AskForEditKeeps DEF MalformedToolCall
    <2>3. CASE /\ runtime.malformed < MaxMalformed
               /\ runtime' = [runtime EXCEPT !.malformed = @ + 1]
               /\ NextRound
               /\ UNCHANGED <<recovery, evidence, history>>
        BY <1>1, <1>7, <2>1, <2>3, NextRoundKeeps DEF MalformedToolCall
    <2>4. CASE /\ recovery' = [recovery EXCEPT !.validation_action = TRUE]
               /\ pc' = "inject" /\ origin' = "malformed"
               /\ UNCHANGED <<round, runtime, evidence, local, outcome, history>>
        <3>1. PlaceOK'
            BY <1>7, <2>4 DEF MalformedToolCall, StateOK, PlaceOK, Arrived, Place
        <3> QED
            BY <1>7, <2>1, <2>4, <3>1 DEF MalformedToolCall, StateOK, LocalOK, local, HistoryOK, history
    <2>5. CASE Return("failed", "recoverable", TRUE) /\ UNCHANGED <<evidence, history>>
        BY <1>7, <2>5, ReturnKeeps DEF MalformedToolCall
    <2> QED
        BY <1>7, <2>2, <2>3, <2>4, <2>5, Zenon DEF MalformedToolCall
<1>8. CASE ReasoningOnly
    <2>1. [recovery EXCEPT !.final_answer = TRUE] \in RecoverySet
        BY <1>1 DEF RecoverySet
    <2>2. CASE IF recovery.final_answer
               THEN /\ Return("partial", "recoverable", TRUE)
                    /\ UNCHANGED <<evidence, history>>
               ELSE /\ recovery' = [recovery EXCEPT !.final_answer = TRUE]
                    /\ NextRound
                    /\ UNCHANGED <<runtime, evidence, history>>
        BY <1>1, <1>8, <2>1, <2>2, ReturnKeeps, NextRoundKeeps DEF ReasoningOnly
    <2>3. \/ AskAgain \/ AskForEdit(runtime) \/ AskForValidation \/ (NeedsRepair /\ AskForRepair)
          \/ IF recovery.final_answer
             THEN /\ Return("partial", "recoverable", TRUE)
                  /\ UNCHANGED <<evidence, history>>
             ELSE /\ recovery' = [recovery EXCEPT !.final_answer = TRUE]
                  /\ NextRound
                  /\ UNCHANGED <<runtime, evidence, history>>
        BY <1>8 DEF ReasoningOnly
    <2> QED
        BY <1>1, <1>8, <2>2, <2>3, AskAgainKeeps, AskForEditKeeps, AskForValidationKeeps, AskForRepairKeeps
        DEF ReasoningOnly
<1>9. CASE TextAnswer
    <2>1. \/ AskAgain \/ AskForEdit(runtime) \/ AskForValidation \/ (NeedsRepair /\ AskForRepair)
          \/ /\ \E s \in {"success", "partial"}, e \in {"none", "other"} : Return(s, e, TRUE)
             /\ UNCHANGED <<evidence, history>>
        BY <1>9 DEF TextAnswer
    <2> QED
        BY <1>1, <1>9, <2>1, AskAgainKeeps, AskForEditKeeps, AskForValidationKeeps, AskForRepairKeeps, ReturnKeeps
        DEF TextAnswer
<1> QED
    BY <1>2, <1>3, <1>4, <1>5, <1>6, <1>7, <1>8, <1>9 DEF Response

\* A call of the batch: what is left is what it does to the evidence.
LEMMA CalledOK ==
    ASSUME StateOK, NEW f, NEW facts \in SUBSET Fact, Called(f, facts),
           (evidence \in EvidenceSet)', HistoryOK'
    PROVE  StateOK'
<1> DEFINE new == batch.facts \cup facts \cup IF f = "test" THEN {"tested"} ELSE {}
<1>1. batch' \in BatchSet
    <2>1. batch \in BatchSet /\ batch.count < MaxCalls
        BY DEF Called, StateOK, LocalOK
    <2>2. new \in SUBSET Fact
        BY <2>1 DEF BatchSet, Fact
    <2>3. batch.count + 1 \in 0..MaxCalls
        BY <2>1, LimitAssumption DEF BatchSet
    <2>4. batch' = [batch EXCEPT !.count = @ + 1, !.facts = new]
        BY DEF Called
    <2> HIDE DEF new
    <2> QED
        BY <2>1, <2>2, <2>3, <2>4 DEF BatchSet
<1>2. PlaceOK'
    BY DEF Called, StateOK, PlaceOK, Arrived
<1> QED
    BY <1>1, <1>2 DEF Called, StateOK, LocalOK

LEMMA DiscardedOK ==
    ASSUME StateOK, NEW f, NEW k, Discarded(f, k)
    PROVE  (evidence \in EvidenceSet)' /\ HistoryOK'
<1>1. TestEvidence(evidence, k) \in EvidenceSet
    BY TestEvidenceOK DEF StateOK
<1> QED
    BY <1>1 DEF Discarded, StateOK, HistoryOK, history

LEMMA ToolCallOK ==
    ASSUME StateOK, ToolCall
    PROVE  StateOK'
<1>1. evidence \in EvidenceSet /\ HistoryOK
    BY DEF StateOK
<1>2. ASSUME NEW f, NEW k, CallReads(f, k)
      PROVE  StateOK'
    <2> DEFINE found == evidence.discovered \/ (f = "discover" /\ k = "ok")
    <2>1. found \in BOOLEAN
        BY Zenon
    <2>2. [evidence EXCEPT !.discovered = found] \in EvidenceSet
        <3> HIDE DEF found
        <3> QED BY <1>1, <2>1 DEF EvidenceSet
    <2>3. (evidence \in EvidenceSet)' /\ HistoryOK'
        BY <1>1, <1>2, <2>2 DEF CallReads, HistoryOK, history
    <2>4. \E facts \in SUBSET Fact : Called(f, facts)
        BY <1>2 DEF CallReads, Observed, Fact
    <2> QED
        BY <2>3, <2>4, CalledOK
<1>3. ASSUME NEW w, CallEdits(w)
      PROVE  StateOK'
    <2> DEFINE c == evidence.changed \/ w # "noop"
               u == evidence.sourceChanged \/ w = "source"
               n == evidence.safe_noop \/ w = "noop"
               d == evidence.discovered \/ w = "test"
    <2>1. c \in BOOLEAN /\ u \in BOOLEAN /\ n \in BOOLEAN /\ d \in BOOLEAN
          /\ (stale \/ w # "noop") \in BOOLEAN
        BY Zenon
    <2>2. PICK met : evidence' = [evidence EXCEPT !.changed = c, !.sourceChanged = u, !.safe_noop = n,
                                                 !.discovered = d, !.missing = @ \ met]
        BY <1>3, Zenon DEF CallEdits
    <2>3. evidence' \in EvidenceSet
        <3> HIDE DEF c, u, n, d
        <3> QED BY <1>1, <2>1, <2>2 DEF EvidenceSet
    <2>4. HistoryOK'
        BY <1>1, <1>3, <2>1 DEF CallEdits, HistoryOK
    <2>5. Called("edit", {"edited", "ran"}) /\ {"edited", "ran"} \in SUBSET Fact
        BY <1>3 DEF CallEdits, Fact
    <2> QED
        BY <2>3, <2>4, <2>5, CalledOK
<1>4. CASE CallDeletes
    <2>1. (evidence \in EvidenceSet)' /\ HistoryOK'
        BY <1>1, <1>4 DEF CallDeletes, EvidenceSet, HistoryOK
    <2>2. Called("delete", {"edited", "ran"}) /\ {"edited", "ran"} \in SUBSET Fact
        BY <1>4 DEF CallDeletes, Fact
    <2> QED
        BY <2>1, <2>2, CalledOK
<1>5. ASSUME NEW w, CallRewrites(w)
      PROVE  StateOK'
    <2> DEFINE u == evidence.sourceChanged \/ w = "source"
    <2>1. u \in BOOLEAN
        BY Zenon
    <2>2. PICK met : evidence' = [evidence EXCEPT !.changed = TRUE, !.sourceChanged = u, !.missing = @ \ met]
        BY <1>5, Zenon DEF CallRewrites
    <2>3. evidence' \in EvidenceSet
        <3> HIDE DEF u
        <3> QED BY <1>1, <2>1, <2>2 DEF EvidenceSet
    <2>4. HistoryOK'
        BY <1>1, <1>5 DEF CallRewrites, HistoryOK
    <2>5. \E facts \in SUBSET Fact : Called("rewrite", facts)
        BY <1>5 DEF CallRewrites, Observed, Fact
    <2> QED
        BY <2>3, <2>4, <2>5, CalledOK
<1>6. ASSUME NEW k, CallTests(k)
      PROVE  StateOK'
    <2>1. \E facts \in SUBSET Fact : Called("test", facts)
        BY <1>6 DEF CallTests, Observed, Fact
    <2> QED
        BY <1>6, <2>1, RunTestsOK, CalledOK DEF CallTests
<1>7. ASSUME NEW f, NEW k, CallDenied(f, k)
      PROVE  StateOK'
    BY <1>7, DiscardedOK, CalledOK DEF CallDenied, Fact
<1>8. ASSUME NEW f, NEW k, NEW why, CallRefused(f, k, why)
      PROVE  StateOK'
    <2>1. \E facts \in SUBSET Fact : Called(f, facts)
        BY <1>8 DEF CallRefused, Fact
    <2> QED
        BY <1>8, <2>1, DiscardedOK, CalledOK DEF CallRefused
<1> QED
    BY <1>2, <1>3, <1>4, <1>5, <1>6, <1>7, <1>8 DEF ToolCall

LEMMA RecordBatchOK ==
    ASSUME StateOK, RecordBatch
    PROVE  StateOK'
<1> DEFINE edited == "edited" \in batch.facts
           clear == {"edited", "passed"} \cap batch.facts # {}
           again == evidence.passed = "no" /\ task.validation /\ ~More
           kept == IF clear THEN [runtime EXCEPT !.blocks = [b \in BlockReason |-> [p \in GatePhase |-> 0]]] ELSE runtime
           act == task.validation /\ evidence.passed # "yes" /\ ~More /\ ~again
           more == More
           rt == IF edited
                 THEN [kept EXCEPT
                         !.mutation_action_pending = more,
                         !.validation_repair_pending = FALSE,
                         !.awaiting_revalidation = again,
                         !.validation_action_pending = act]
                 ELSE kept
<1>1. again \in BOOLEAN /\ act \in BOOLEAN /\ more \in BOOLEAN
    BY Zenon DEF More
<1>2. kept \in RuntimeSet
    BY LimitAssumption DEF StateOK, RuntimeSet
<1>3. rt \in RuntimeSet
    <2> HIDE DEF kept, again, act, more, edited
    <2> QED BY <1>1, <1>2 DEF RuntimeSet
<1>4. AfterTests(rt) \in RuntimeSet
    BY <1>3, AfterTestsOK
<1>5. \/ pc' = "inject" /\ origin' = "edit" /\ runtime' = rt
      \/ pc' = "conclude" /\ runtime' = AfterTests(rt) /\ UNCHANGED origin
    BY Zenon DEF RecordBatch
<1>6. runtime' \in RuntimeSet /\ pc' \in {"inject", "conclude"} /\ origin' \in {"control", "edit", "malformed"}
    <2> HIDE DEF rt
    <2> QED BY <1>3, <1>4, <1>5 DEF StateOK, LocalOK
<1>7. PlaceOK'
    BY <1>6 DEF RecordBatch, StateOK, PlaceOK, Arrived, Place, InRound
<1> QED
    BY <1>6, <1>7 DEF RecordBatch, StateOK, LocalOK, local, HistoryOK, history

LEMMA ConcludeOK ==
    ASSUME StateOK, ChangeComplete \/ PhaseBlocked \/ Proceed
    PROVE  StateOK'
<1> USE DEF InRound
<1>1. runtime \in RuntimeSet /\ recovery \in RecoverySet /\ pc = "conclude"
    BY DEF StateOK, ChangeComplete, PhaseBlocked, Proceed
<1>2. CASE ChangeComplete
    <2>1. [runtime EXCEPT !.change_final = TRUE] \in RuntimeSet
        BY <1>1 DEF RuntimeSet
    <2> QED
        BY <1>1, <1>2, <2>1, ReturnKeeps, NextRoundKeeps DEF ChangeComplete
<1>3. CASE PhaseBlocked
    <2> DEFINE c == CountBlock("schema_denied")
               rt == [c EXCEPT !.mutation_action_pending = TRUE]
               r == rt.validation_repair_pending \/ phase = "validation_failed"
    <2>1. CASE Return("partial", "other", TRUE)
        BY <1>3, <2>1, ReturnKeeps DEF PhaseBlocked
    <2>2. CASE /\ Tried("schema_denied") < MaxPhaseBlocks
               /\ runtime' = [rt EXCEPT !.validation_repair_pending = r]
               /\ recovery' = [recovery EXCEPT !.mutation_requests =
                                  IF phase = "mutation_required" THEN @ + 1 ELSE @]
               /\ NextRound
        <3>1. c \in RuntimeSet
            BY <2>2, CountBlockOK DEF BlockReason
        <3>2. r \in BOOLEAN
            BY Zenon
        <3>3. runtime' \in RuntimeSet
            <4>1. rt \in RuntimeSet
                <5> HIDE DEF c
                <5> QED BY <3>1 DEF RuntimeSet
            <4> HIDE DEF rt, r
            <4> QED BY <2>2, <3>2, <4>1 DEF RuntimeSet
        <3>4. recovery' \in RecoverySet
            BY <1>1, <2>2 DEF RecoverySet
        <3> QED
            BY <1>1, <1>3, <2>2, <3>3, <3>4, NextRoundKeeps DEF PhaseBlocked
    <2> QED
        BY <1>3, <2>1, <2>2, Zenon DEF PhaseBlocked
<1>4. CASE Proceed
    <2> DEFINE strategy == "strategy" \in batch.facts
               rt == IF strategy THEN RepairNext(CountBlock("patch_strategy_required")) ELSE runtime
               stuck == strategy /\ Tried("patch_strategy_required") >= MaxPhaseBlocks
    <2>1. ~stuck => rt \in RuntimeSet
        <3>1. phase \in GatePhase /\ ("patch_strategy_required" \in BlockReason)
            BY DEF StateOK, LocalOK, BlockReason
        <3>2. Tried("patch_strategy_required") \in Nat
            BY <1>1, <3>1 DEF Tried, RuntimeSet
        <3>3. ~stuck /\ strategy => Tried("patch_strategy_required") < MaxPhaseBlocks
            BY <3>2, LimitAssumption
        <3> QED
            BY <1>1, <3>1, <3>3, CountBlockOK, RepairNextOK
    <2>2. CASE Return("partial", "other", TRUE) /\ UNCHANGED <<evidence, history>>
        BY <1>4, <2>2, ReturnKeeps DEF Proceed
    <2>3. CASE /\ ~stuck /\ runtime' = [rt EXCEPT !.inspect_final = TRUE]
               /\ NextRound
               /\ UNCHANGED <<recovery, evidence, history>>
        <3>1. runtime' \in RuntimeSet
            <4> HIDE DEF rt, stuck
            <4> QED BY <2>1, <2>3 DEF RuntimeSet
        <3> QED
            BY <1>1, <1>4, <2>3, <3>1, NextRoundKeeps DEF Proceed
    <2>4. CASE ~stuck /\ AskForEdit(rt)
        <3> HIDE DEF rt, stuck
        <3> QED
            BY <1>1, <1>4, <2>1, <2>4, AskForEditKeeps DEF Proceed
    <2>5. CASE /\ ~stuck /\ runtime' = rt
               /\ NextRound
               /\ UNCHANGED <<recovery, evidence, history>>
        <3> HIDE DEF rt, stuck
        <3> QED
            BY <1>1, <1>4, <2>1, <2>5, NextRoundKeeps DEF Proceed
    <2> QED
        BY <1>4, <2>2, <2>3, <2>4, <2>5, Zenon DEF Proceed
<1> QED
    BY <1>2, <1>3, <1>4

LEMMA RoundsExhaustedOK ==
    ASSUME StateOK, RoundsExhausted
    PROVE  StateOK'
BY ReturnKeeps DEF RoundsExhausted

LEMMA AutoValidateOK ==
    ASSUME StateOK, NEW k, AutoValidate(k)
    PROVE  StateOK'
<1>1. TestEvidence(evidence, k) \in EvidenceSet
    BY TestEvidenceOK DEF StateOK
<1>2. (evidence \in EvidenceSet)' /\ HistoryOK'
    BY <1>1 DEF AutoValidate, StateOK, HistoryOK, history
<1>3. (outcome \in OutcomeSet)'
    <2> DEFINE passed == [status |-> "success", error |-> "none", answer |-> TRUE]
    <2>1. outcome' = passed \/ outcome' = outcome
        BY DEF AutoValidate
    <2>2. passed \in OutcomeSet
        BY DEF OutcomeSet
    <2> HIDE DEF passed
    <2> QED
        BY <2>1, <2>2 DEF StateOK
<1>4. outcome'.status \in {outcome.status, "success"}
    BY DEF AutoValidate
<1>5. PlaceOK'
    BY <1>4 DEF AutoValidate, StateOK, PlaceOK, Arrived, Place, InRound
<1> QED
    BY <1>2, <1>3, <1>5 DEF AutoValidate, StateOK, LocalOK, local

LEMMA FinalizeOK ==
    ASSUME StateOK, Finalize
    PROVE  StateOK'
<1>1. outcome.status \in {"success", "partial", "failed"}
    BY DEF Finalize, StateOK, PlaceOK, Arrived
<1>2. ASSUME NEW o \in BOOLEAN
      PROVE  Finalized(o) \in {"success", "partial", "failed"}
    BY <1>1 DEF Finalized
<1>3. PlaceOK'
    BY DEF Finalize, StateOK, PlaceOK, Arrived, Place, InRound
<1> QED
    BY <1>2, <1>3 DEF Finalize, StateOK, LocalOK, local, HistoryOK, history

LEMMA AbortOK ==
    ASSUME StateOK, NEW s, Abort(s)
    PROVE  StateOK'
<1>1. PlaceOK'
    BY LeaveRoundsOK DEF Abort, PlaceOK, Arrived, Place, InRound
<1>2. (outcome \in OutcomeSet)'
    BY DEF Abort, OutcomeSet
<1> QED
    BY <1>1, <1>2, LeaveRoundsOK DEF Abort, StateOK, HistoryOK, history

-----------------------------------------------------------------------------
LEMMA StepOK ==
    ASSUME StateOK, [Next]_vars
    PROVE  StateOK'
<1>1. CASE UNCHANGED vars
    BY <1>1 DEF vars, local, history, StateOK, PlaceOK, Arrived, LocalOK, HistoryOK
<1>2. ASSUME NEW s, Abort(s)
      PROVE  StateOK'
    BY <1>2, AbortOK
<1>3. CASE Step
    BY <1>3, PreflightOK, ControlOK, RecordBatchOK, InjectOK, ConcludeOK, RoundsExhaustedOK,
       AutoValidateOK, FinalizeOK, ResponseOK, ToolCallOK DEF Step
<1> QED
    BY <1>1, <1>2, <1>3 DEF Next, Ended

LEMMA StateAlwaysOK == Spec => []StateOK
<1>1. Init => StateOK
    BY InitOK
<1>2. StateOK /\ [Next]_vars => StateOK'
    BY StepOK
<1> QED
    BY <1>1, <1>2, PTL DEF Spec

\* The budgets of a turn are kept whatever the limits are: the rounds, the requests
\* for a repair, the retries of malformed calls and the blocks of each phase.
THEOREM TypeCorrect == Spec => []TypeOK
<1>1. StateOK => TypeOK
    BY DEF StateOK, TypeOK, PlaceOK, Place, LocalOK, HistoryOK, RuntimeSet, RecoverySet,
           EvidenceSet, BatchSet, OutcomeSet
<1> QED
    BY <1>1, StateAlwaysOK, PTL

-----------------------------------------------------------------------------
\* Why a success has its evidence, and why an edit is validated: a verdict is only
\* recorded with the commands it judges, by a run_tests somebody asked for; once
\* the validation control has looked at an unvalidated change, no answer is
\* accepted until run_tests has run; and every other success is of a turn that
\* needs no validation.
VerdictsAreAsked ==
    /\ evidence.passed = "yes" => evidence.commands
    /\ evidence.passed # "none" => tried
ChangeIsPending ==
    pc = "model" /\ Validated /\ evidence.changed /\ evidence.passed = "none" /\ ~More
        => runtime.validation_action_pending
NeedsTrying == Validated /\ evidence.changed
OutcomeIsTried ==
    /\ pc \in {"validate", "finalize"} /\ outcome.status = "success" /\ NeedsTrying => tried
    /\ pc = "finalize" /\ NeedsTrying => tried
Sound ==
    /\ status = "success" => pc = "ended"
    /\ VerdictsAreAsked /\ ChangeIsPending /\ OutcomeIsTried
    /\ SuccessIsBacked /\ EditsAreValidated
\* Steps that leave the evidence alone.
LEMMA NextRoundSound ==
    ASSUME Sound, pc \in InRound, NextRound, UNCHANGED <<task, evidence, status, history>>
    PROVE  Sound'
BY DEF NextRound, InRound, Sound, VerdictsAreAsked, ChangeIsPending, OutcomeIsTried,
       SuccessIsBacked, EditsAreValidated, history

LEMMA ReturnSound ==
    ASSUME Sound, pc # "ended", NEW s, NEW e, NEW a, Return(s, e, a),
           s = "success" /\ NeedsTrying => tried,
           UNCHANGED <<task, evidence, status, history>>
    PROVE  Sound'
BY DEF Return, Sound, VerdictsAreAsked, ChangeIsPending, OutcomeIsTried, NeedsTrying, Validated, Mutation,
       SuccessIsBacked, EditsAreValidated, history

\* Steps within a round after which no model call is due.
LEMMA WithinSound ==
    ASSUME Sound, pc \notin {"ended", "validate", "finalize"}, VerdictsAreAsked',
           pc' \in {"control", "inject", "tools", "conclude", "over"}, UNCHANGED <<task, status>>
    PROVE  Sound'
BY DEF Sound, ChangeIsPending, OutcomeIsTried, SuccessIsBacked, EditsAreValidated

LEMMA TestEvidenceIsAsked ==
    ASSUME VerdictsAreAsked, NEW k, evidence' = TestEvidence(evidence, k), tried' = TRUE, StateOK
    PROVE  VerdictsAreAsked'
<1>1. evidence \in EvidenceSet
    BY DEF StateOK
<1>2. k = "ok" => TestEvidence(evidence, k).commands
    BY <1>1 DEF TestEvidence, EvidenceSet
<1>3. k # "ok" /\ TestEvidence(evidence, k).passed = "yes" => evidence.passed = "yes" /\ TestEvidence(evidence, k).commands = evidence.commands
    BY <1>1 DEF TestEvidence, EvidenceSet
<1> QED
    BY <1>2, <1>3 DEF VerdictsAreAsked

LEMMA RunTestsIsAsked ==
    ASSUME VerdictsAreAsked, NEW k, RunTests(k), StateOK
    PROVE  VerdictsAreAsked'
<1> DEFINE t == TestEvidence(evidence, k)
<1>1. t \in EvidenceSet
    BY TestEvidenceOK DEF StateOK
<1>2. evidence \in EvidenceSet
    BY DEF StateOK
<1>3. t.passed = "yes" => t.commands
    BY <1>2 DEF TestEvidence, EvidenceSet, VerdictsAreAsked
<1>4. \A e \in MissingModule(t, k) : e.passed = t.passed /\ e.commands = t.commands
    <2> HIDE DEF t
    <2> QED BY <1>1 DEF MissingModule, EvidenceSet
<1>5. evidence' \in MissingModule(t, k) /\ tried' = TRUE
    BY DEF RunTests
<1> QED
    BY <1>3, <1>4, <1>5 DEF VerdictsAreAsked

LEMMA InitSound ==
    ASSUME Init
    PROVE  Sound
BY DEF Init, Sound, VerdictsAreAsked, ChangeIsPending, OutcomeIsTried, SuccessIsBacked, EditsAreValidated

LEMMA PreflightSound ==
    ASSUME Sound, Preflight
    PROVE  Sound'
<1>1. CASE Return("partial", "other", TRUE)
    BY <1>1, ReturnSound DEF Preflight
<1>2. CASE pc' = "control"
    BY <1>2, WithinSound DEF Preflight, Sound, VerdictsAreAsked, history
<1> QED
    BY <1>1, <1>2 DEF Preflight

\* The control looks at every change that no run has judged yet.
LEMMA ControlSound ==
    ASSUME StateOK, Sound, Control
    PROVE  Sound'
<1> DEFINE d == Decision
           rt == Controlled(d)
           waiting == rt.validation_action_pending \/ rt.awaiting_revalidation
           found == evidence.discovered
                      \/ (waiting /\ ~More /\ ~task.web /\ DiscoveryNeeded(evidence) /\ task.related)
           seeded == [evidence EXCEPT !.discovered = found]
<1>1. pc = "control" /\ tried' = tried /\ stale' = stale /\ UNCHANGED <<task, status>>
    BY DEF Control
<1>2. evidence \in EvidenceSet /\ rt \in RuntimeSet
    BY ControlledOK DEF StateOK
<1>3. CASE Return("partial", "other", TRUE) /\ UNCHANGED evidence
    BY <1>1, <1>3 DEF Return, Sound, VerdictsAreAsked, ChangeIsPending, OutcomeIsTried,
                      SuccessIsBacked, EditsAreValidated
<1>4. CASE evidence' = seeded /\ pc' = "inject"
    <2>1. evidence'.passed = evidence.passed /\ evidence'.commands = evidence.commands
        BY <1>2, <1>4 DEF EvidenceSet
    <2> QED
        BY <1>1, <1>4, <2>1, WithinSound DEF Sound, VerdictsAreAsked
<1>5. CASE /\ evidence' = seeded /\ pc' = "model"
           /\ runtime'.validation_action_pending = rt.validation_action_pending
    <2> HIDE DEF found
    <2>1. /\ evidence'.passed = evidence.passed /\ evidence'.commands = evidence.commands
          /\ evidence'.changed = evidence.changed /\ evidence'.missing = evidence.missing
        BY <1>2, <1>5 DEF EvidenceSet
    <2>2. Validated /\ evidence.changed /\ evidence.passed = "none" /\ ~More => d = "validate"
        BY DEF Decision
    <2>3. d = "validate" => rt.validation_action_pending
        BY <1>2 DEF Controlled, StateOK, RuntimeSet
    <2>4. ChangeIsPending'
        <3> HIDE DEF rt, d
        <3> QED
            BY <1>1, <1>5, <2>1, <2>2, <2>3 DEF ChangeIsPending, Validated, Mutation, More
    <2> QED
        BY <1>1, <1>5, <2>1, <2>4 DEF Sound, VerdictsAreAsked, OutcomeIsTried, SuccessIsBacked, EditsAreValidated
<1>6. ASSUME NEW spent, NEW ready, pc' = "model", evidence' = seeded,
             runtime' = [rt EXCEPT
                           !.inspect_final = @ \/ (ready /\ task.kind = "inspect"),
                           !.external_final = @ \/ (ready /\ task.web /\ round > 0)]
      PROVE  Sound'
    <2>1. runtime'.validation_action_pending = rt.validation_action_pending
        <3> HIDE DEF rt
        <3> QED BY <1>2, <1>6 DEF RuntimeSet
    <2> HIDE DEF rt, seeded
    <2> QED
        BY <1>5, <1>6, <2>1
<1> QED
    BY <1>3, <1>4, <1>6, Zenon DEF Control

LEMMA InjectSound ==
    ASSUME StateOK, Sound, NEW k, Inject(k)
    PROVE  Sound'
<1>1. pc = "inject" /\ VerdictsAreAsked' /\ UNCHANGED <<task, status>> /\ tried' = TRUE
    BY RunTestsIsAsked DEF Inject, Sound, RunTests
<1>2. CASE pc' = "conclude" \/ NextRound
    BY <1>1, <1>2, WithinSound DEF NextRound
<1>3. CASE Return("success", "none", TRUE)
    BY <1>1, <1>3 DEF Return, Sound, ChangeIsPending, OutcomeIsTried, SuccessIsBacked, EditsAreValidated
<1> QED
    BY <1>2, <1>3 DEF Inject

LEMMA ToolCallSound ==
    ASSUME StateOK, Sound, ToolCall
    PROVE  Sound'
<1>1. evidence \in EvidenceSet
    BY DEF StateOK
<1>2. ASSUME NEW f, NEW k, Discarded(f, k)
      PROVE  VerdictsAreAsked'
    BY <1>2, TestEvidenceIsAsked DEF Discarded, Sound, VerdictsAreAsked, history
<1>3. ASSUME NEW f, NEW k, CallReads(f, k)
      PROVE  VerdictsAreAsked'
    BY <1>1, <1>3 DEF CallReads, Sound, VerdictsAreAsked, history, EvidenceSet
<1>4. ASSUME NEW w, CallEdits(w)
      PROVE  VerdictsAreAsked'
    BY <1>1, <1>4 DEF CallEdits, Sound, VerdictsAreAsked, EvidenceSet
<1>5. ASSUME CallDeletes
      PROVE  VerdictsAreAsked'
    BY <1>1, <1>5 DEF CallDeletes, Sound, VerdictsAreAsked, EvidenceSet
<1>6. ASSUME NEW w, CallRewrites(w)
      PROVE  VerdictsAreAsked'
    BY <1>1, <1>6 DEF CallRewrites, Sound, VerdictsAreAsked, EvidenceSet
<1>7. VerdictsAreAsked'
    <2>1. ASSUME NEW k, CallTests(k)
          PROVE  VerdictsAreAsked'
        BY <2>1, RunTestsIsAsked DEF CallTests, Sound
    <2>2. ASSUME NEW f, NEW k, NEW why, CallDenied(f, k) \/ CallRefused(f, k, why)
          PROVE  VerdictsAreAsked'
        BY <1>2, <2>2 DEF CallDenied, CallRefused
    <2> QED
        BY <1>3, <1>4, <1>5, <1>6, <2>1, <2>2 DEF ToolCall
<1>8. \E f, facts : Called(f, facts)
    BY DEF ToolCall, CallReads, CallEdits, CallDeletes, CallRewrites, CallTests, CallDenied, CallRefused
<1> QED
    BY <1>7, <1>8, WithinSound DEF Called

\* An answer is accepted as a success only when nothing waits for validation.
LEMMA TextAnswerSound ==
    ASSUME StateOK, Sound, TextAnswer
    PROVE  Sound'
<1>1. pc = "model" /\ pc \in InRound /\ UNCHANGED <<task, status>>
    BY DEF TextAnswer, InRound
<1>2. CASE AskAgain \/ AskForEdit(runtime) \/ AskForValidation \/ AskForRepair
    BY <1>1, <1>2, NextRoundSound, ReturnSound DEF AskAgain, AskForEdit, AskForValidation, AskForRepair
<1>3. CASE Return("partial", "other", TRUE) /\ UNCHANGED <<evidence, history>>
    BY <1>1, <1>3, ReturnSound
<1>4. CASE /\ ~More /\ ~NeedsValidation
           /\ \E s \in {"success", "partial"} : Return(s, IF s = "success" THEN "none" ELSE "other", TRUE)
           /\ UNCHANGED <<evidence, history>>
    <2>1. NeedsTrying => tried
        <3>1. CASE evidence.passed = "none"
            BY <1>1, <1>4, <3>1 DEF Sound, ChangeIsPending, NeedsTrying, NeedsValidation
        <3>2. CASE evidence.passed # "none"
            BY <3>2 DEF Sound, VerdictsAreAsked
        <3> QED
            BY <3>1, <3>2
    <2> QED
        BY <1>1, <1>4, <2>1, ReturnSound
<1> DEFINE edit == \/ Mutation /\ ~Resolved /\ MayAskForEdit(MaxMutationRequests)
                   \/ More /\ MayAskForEdit(MaxArtifactRequests)
           Handled == AskAgain \/ AskForEdit(runtime) \/ AskForValidation \/ AskForRepair
           Stopped == Return("partial", "other", TRUE) /\ UNCHANGED <<evidence, history>>
           Accepted == /\ \E s \in {"success", "partial"} : Return(s, IF s = "success" THEN "none" ELSE "other", TRUE)
                       /\ UNCHANGED <<evidence, history>>
<1>5. Handled \/ Stopped \/ (~More /\ ~NeedsValidation /\ Accepted)
    <2>1. CASE edit
        BY <2>1 DEF TextAnswer
    <2>2. CASE ~edit /\ More
        BY <2>2 DEF TextAnswer
    <2>3. CASE ~edit /\ ~More /\ (NeedsDiscovery \/ NeedsValidation)
        BY <2>3 DEF TextAnswer
    <2>4. CASE ~edit /\ ~More /\ ~NeedsDiscovery /\ ~NeedsValidation
        BY <2>4 DEF TextAnswer
    <2> QED
        BY <2>1, <2>2, <2>3, <2>4
<1> QED
    BY <1>2, <1>3, <1>4, <1>5

LEMMA ResponseSound ==
    ASSUME StateOK, Sound, Response
    PROVE  Sound'
<1> USE DEF InRound
<1>1. CASE StreamTimeout \/ EmptyResponse \/ PseudoToolCall \/ LengthCutoff
    BY <1>1, NextRoundSound, ReturnSound DEF StreamTimeout, EmptyResponse, PseudoToolCall, LengthCutoff
<1>2. CASE ToolCalls
    <2>1. CASE Return("partial", "other", TRUE)
        BY <1>2, <2>1, ReturnSound DEF ToolCalls
    <2>2. CASE MutationComplete /\ Return("success", "none", TRUE)
        BY <1>2, <2>2, ReturnSound DEF ToolCalls, MutationComplete, NeedsTrying, Validated
    <2>3. CASE pc' = "tools"
        BY <1>2, <2>3, WithinSound DEF ToolCalls, Sound, VerdictsAreAsked, history
    <2> QED
        BY <1>2, <2>1, <2>2, <2>3 DEF ToolCalls
<1>3. CASE MalformedToolCall
    <2>1. CASE NextRound /\ UNCHANGED <<evidence, history>>
        BY <1>3, <2>1, NextRoundSound DEF MalformedToolCall
    <2>2. CASE Return("failed", "recoverable", TRUE) /\ UNCHANGED <<evidence, history>>
        BY <1>3, <2>2, ReturnSound DEF MalformedToolCall
    <2>3. CASE pc' = "inject" /\ UNCHANGED <<evidence, history>>
        BY <1>3, <2>3, WithinSound DEF MalformedToolCall, Sound, VerdictsAreAsked, history
    <2> QED
        BY <1>3, <2>1, <2>2, <2>3 DEF MalformedToolCall, AskForEdit
<1>4. CASE ReasoningOnly
    <2>1. CASE NextRound /\ UNCHANGED <<evidence, history>>
        BY <1>4, <2>1, NextRoundSound DEF ReasoningOnly
    <2>2. CASE Return("partial", "recoverable", TRUE) /\ UNCHANGED <<evidence, history>>
        BY <1>4, <2>2, ReturnSound DEF ReasoningOnly
    <2>3. CASE Return("partial", "other", TRUE) /\ UNCHANGED <<evidence, history>>
        BY <1>4, <2>3, ReturnSound DEF ReasoningOnly
    <2> QED
        BY <1>4, <2>1, <2>2, <2>3 DEF ReasoningOnly, AskAgain, AskForEdit, AskForValidation, AskForRepair
<1>5. CASE TextAnswer
    BY <1>5, TextAnswerSound
<1> QED
    BY <1>1, <1>2, <1>3, <1>4, <1>5 DEF Response

LEMMA BatchSound ==
    ASSUME Sound, RecordBatch \/ ChangeComplete \/ PhaseBlocked \/ Proceed
    PROVE  Sound'
<1> USE DEF InRound
<1>1. CASE RecordBatch
    <2>1. pc = "tools" /\ pc' \in {"inject", "conclude"} /\ UNCHANGED <<task, status, evidence, history>>
        BY <1>1 DEF RecordBatch
    <2> QED
        BY <2>1, WithinSound DEF Sound, VerdictsAreAsked, history
<1>2. CASE ChangeComplete
    <2>1. NeedsTrying => tried
        BY <1>2 DEF ChangeComplete, ValidatedComplete, MutationComplete, NeedsTrying, Validated, Sound, VerdictsAreAsked
    <2> QED
        BY <1>2, <2>1, ReturnSound, NextRoundSound DEF ChangeComplete
<1>3. CASE PhaseBlocked
    BY <1>3, ReturnSound, NextRoundSound DEF PhaseBlocked
<1>4. CASE Proceed
    <2>1. CASE NextRound /\ UNCHANGED <<evidence, history>>
        BY <1>4, <2>1, NextRoundSound DEF Proceed
    <2>2. CASE Return("partial", "other", TRUE) /\ UNCHANGED <<evidence, history>>
        BY <1>4, <2>2, ReturnSound DEF Proceed
    <2> QED
        BY <1>4, <2>1, <2>2 DEF Proceed, AskForEdit
<1> QED
    BY <1>1, <1>2, <1>3, <1>4

\* A plan is the answer of a read-only turn.
LEMMA RoundsExhaustedSound ==
    ASSUME StateOK, Sound, RoundsExhausted
    PROVE  Sound'
<1>1. task \in Tasks /\ (task.plan => task.kind # "modify")
    BY TaskAssumption DEF StateOK
<1> QED
    BY <1>1, ReturnSound DEF RoundsExhausted, NeedsTrying, Validated, Mutation

LEMMA AutoValidateSound ==
    ASSUME StateOK, Sound, NEW k, AutoValidate(k)
    PROVE  Sound'
<1>1. pc = "validate" /\ pc' = "finalize" /\ UNCHANGED <<task, status>>
    BY DEF AutoValidate
<1>2. VerdictsAreAsked'
    BY TestEvidenceIsAsked DEF AutoValidate, Sound, VerdictsAreAsked, history
<1>3. OutcomeIsTried'
    <2>1. CASE tried' = TRUE
        BY <2>1 DEF OutcomeIsTried
    <2>2. CASE UNCHANGED <<evidence, history, outcome>>
               /\ ~(Mutation /\ outcome.status # "success" /\ evidence.changed /\ evidence.passed # "yes")
        BY <1>1, <2>2 DEF Sound, VerdictsAreAsked, OutcomeIsTried, NeedsTrying, Validated, Mutation, history
    <2> QED
        BY <2>1, <2>2 DEF AutoValidate
<1> QED
    BY <1>1, <1>2, <1>3 DEF Sound, ChangeIsPending, SuccessIsBacked, EditsAreValidated

\* The completion gate and the validator of TurnResult let no other success through.
LEMMA FinalizedIsBacked ==
    ASSUME NEW observed \in BOOLEAN, Finalized(observed) = "success"
    PROVE  /\ Mutation => Resolved
           /\ Validated => evidence.passed = "yes" /\ evidence.missing = {}
BY DEF Finalized

LEMMA FinalizeSound ==
    ASSUME StateOK, Sound, Finalize
    PROVE  Sound'
<1>1. pc = "finalize" /\ pc' = "ended" /\ UNCHANGED <<task, evidence, outcome, history>>
    BY DEF Finalize
<1>2. SuccessIsBacked'
    BY <1>1, FinalizedIsBacked DEF Finalize, SuccessIsBacked, Sound, VerdictsAreAsked, Mutation, Validated, Resolved
<1>3. EditsAreValidated'
    BY <1>1 DEF Sound, OutcomeIsTried, EditsAreValidated, NeedsTrying, Validated, Mutation, history
<1> QED
    BY <1>1, <1>2, <1>3 DEF Sound, VerdictsAreAsked, ChangeIsPending, OutcomeIsTried, history

LEMMA StepSound ==
    ASSUME StateOK, Sound, [Next]_vars
    PROVE  Sound'
<1>1. CASE UNCHANGED vars
    BY <1>1 DEF vars, history, Sound, VerdictsAreAsked, ChangeIsPending, OutcomeIsTried, NeedsTrying, Validated,
                Mutation, More, Resolved, SuccessIsBacked, EditsAreValidated
<1>2. ASSUME NEW s \in {"cancelled", "failed"}, Abort(s)
      PROVE  Sound'
    BY <1>2 DEF Abort, Sound, VerdictsAreAsked, ChangeIsPending, OutcomeIsTried, SuccessIsBacked,
                EditsAreValidated, history
<1>3. CASE Step
    BY <1>3, PreflightSound, ControlSound, InjectSound, BatchSound, RoundsExhaustedSound, AutoValidateSound,
       FinalizeSound, ResponseSound, ToolCallSound DEF Step
<1> QED
    BY <1>1, <1>2, <1>3 DEF Next, Ended

LEMMA AlwaysSound == Spec => []Sound
<1>1. Init => Sound
    BY InitSound
<1>2. StateOK /\ Sound /\ [Next]_vars => Sound'
    BY StepSound
<1> QED
    BY <1>1, <1>2, StateAlwaysOK, PTL DEF Spec

\* Whatever the model replies and the tools return, and whatever the limits are, a
\* turn reported as a success has made the change it was asked for and, where it
\* must be validated, ends on a pass with no artifact missing.
THEOREM SuccessIsBackedCorrect == Spec => []SuccessIsBacked
<1>1. Sound => SuccessIsBacked
    BY DEF Sound
<1> QED
    BY <1>1, AlwaysSound, PTL

\* Along every path out of the rounds, the early successes and the last rounds
\* included, a change that must be validated has had run_tests asked for.
THEOREM EditsAreValidatedCorrect == Spec => []EditsAreValidated
<1>1. Sound => EditsAreValidated
    BY DEF Sound
<1> QED
    BY <1>1, AlwaysSound, PTL

-----------------------------------------------------------------------------
\* The order of repair, validation and the final answer.  A validation is pending
\* only when there is something to validate, no artifact is missing but one that a
\* failed run asked for, and nothing that the turn has to change is still undone; a
\* validation awaited after a failed one follows an edit, or is injected before the
\* model is asked again; and in the last two rounds no change is left to the model.
InTurn == InRound \cup {"preflight"}
Pending == runtime.validation_action_pending \/ runtime.awaiting_revalidation
BatchTested == pc = "tools" /\ "tested" \in batch.facts
BatchEdited == pc = "tools" /\ "edited" \in batch.facts

PendingIsResolved ==
    Mutation /\ pc \in InTurn =>
        /\ Pending \/ BatchEdited \/ runtime.change_final => Resolved
        /\ ~runtime.inspect_final
PendingHasArtifacts ==
    Validated /\ pc \in InTurn =>
        /\ Pending /\ ~BatchTested /\ evidence.missing # {} => evidence.missing = {"source"} /\ evidence.passed = "no"
        /\ pc = "inject" /\ origin = "edit" => evidence.missing = {}
RetestFollowsEdit ==
    Validated /\ pc \in InTurn =>
        /\ runtime.awaiting_revalidation /\ evidence.passed = "no" =>
             stale \/ evidence.safe_noop \/ recovery.validation_action \/ LastRounds \/ BatchTested
        /\ BatchEdited => stale \/ evidence.safe_noop \/ BatchTested
        /\ pc = "inject" /\ origin = "edit" => recovery.validation_action \/ LastRounds
LastRoundsSee ==
    Validated /\ ~tried /\ LastRounds /\ evidence.changed /\ evidence.missing = {} =>
        /\ pc # "model"
        /\ pc = "tools" => unseen \/ BatchEdited
        /\ pc \in {"conclude", "over"} => unseen \/ DiscoveryNeeded(evidence)
Ordered ==
    /\ PendingIsResolved /\ PendingHasArtifacts /\ RetestFollowsEdit /\ LastRoundsSee
    /\ RoundsValidateEdits /\ RepairBeforeRetest /\ ValidationWaitsForArtifacts /\ NotLockedOut

\* What a step of the turn may leave as it is, or more settled.
FlagsSettle ==
    /\ runtime'.validation_action_pending => runtime.validation_action_pending
    /\ runtime'.awaiting_revalidation => runtime.awaiting_revalidation
    /\ Mutation /\ runtime'.inspect_final => runtime.inspect_final
    /\ Mutation /\ runtime'.change_final => runtime.change_final \/ Resolved
    /\ recovery.validation_action => recovery'.validation_action

LEMMA LeftOrdered ==
    ASSUME pc' \in {"validate", "finalize", "ended"}
    PROVE  Ordered'
BY DEF Ordered, PendingIsResolved, PendingHasArtifacts, RetestFollowsEdit, LastRoundsSee, BatchTested, BatchEdited,
       RoundsValidateEdits, RepairBeforeRetest, ValidationWaitsForArtifacts, NotLockedOut, InTurn, InRound

LEMMA NextRoundOrdered ==
    ASSUME StateOK, Ordered, pc \in {"model", "conclude"}, NextRound, FlagsSettle,
           UNCHANGED <<task, evidence, history>>
    PROVE  Ordered'
<1> USE DEF Mutation, Validated, Resolved
<1>1. /\ pc' \in {"control", "over"} /\ round' = round + 1 /\ (pc' = "over" => round = MaxRounds - 1)
      /\ UNCHANGED <<task, evidence, stale, tried, unseen>>
    BY LimitAssumption DEF NextRound, StateOK, PlaceOK, history
<1>2. LastRounds => LastRounds'
    BY <1>1, LimitAssumption DEF LastRounds, StateOK, PlaceOK
<1>3. PendingIsResolved'
    BY <1>1 DEF Ordered, PendingIsResolved, Pending, BatchEdited, FlagsSettle, InTurn, InRound
<1>4. PendingHasArtifacts'
    BY <1>1 DEF Ordered, PendingHasArtifacts, Pending, BatchTested, FlagsSettle, InTurn, InRound
<1>5. RetestFollowsEdit'
    BY <1>1, <1>2 DEF Ordered, RetestFollowsEdit, BatchTested, BatchEdited, FlagsSettle, InTurn, InRound
<1>6. pc' = "over" => LastRounds
    BY <1>1, LimitAssumption DEF LastRounds, StateOK, PlaceOK
<1>7. LastRoundsSee' /\ RoundsValidateEdits'
    BY <1>1, <1>6 DEF Ordered, LastRoundsSee, RoundsValidateEdits, BatchEdited, DiscoveryNeeded
<1> QED
    BY <1>1, <1>3, <1>4, <1>5, <1>7
    DEF Ordered, RepairBeforeRetest, ValidationWaitsForArtifacts, NotLockedOut

LEMMA ReturnOrdered ==
    ASSUME NEW s, NEW e, NEW a, Return(s, e, a)
    PROVE  Ordered'
BY LeftOrdered DEF Return

LEMMA InitOrdered ==
    ASSUME Init
    PROVE  Ordered
BY DEF Init, NewRuntime, Ordered, PendingIsResolved, PendingHasArtifacts, RetestFollowsEdit, LastRoundsSee,
       Pending, BatchTested, BatchEdited, RoundsValidateEdits, RepairBeforeRetest, ValidationWaitsForArtifacts, NotLockedOut

LEMMA PreflightOrdered ==
    ASSUME StateOK, Ordered, Preflight
    PROVE  Ordered'
<1>1. CASE Return("partial", "other", TRUE)
    BY <1>1, ReturnOrdered
<1>2. ASSUME NEW force, runtime' = [runtime EXCEPT !.mutation_action_pending = force], pc' = "control",
             UNCHANGED <<round, recovery, local, origin, outcome>>
      PROVE  Ordered'
    <2>1. /\ runtime'.validation_action_pending = runtime.validation_action_pending
          /\ runtime'.awaiting_revalidation = runtime.awaiting_revalidation
          /\ runtime'.inspect_final = runtime.inspect_final /\ runtime'.change_final = runtime.change_final
        BY <1>2 DEF StateOK, RuntimeSet
    <2>2. pc = "preflight" /\ UNCHANGED <<task, evidence, stale, tried, unseen>>
        BY DEF Preflight, history
    <2> QED
        BY <1>2, <2>1, <2>2 DEF Ordered, PendingIsResolved, PendingHasArtifacts, RetestFollowsEdit, LastRoundsSee,
           Pending, BatchTested, BatchEdited, RoundsValidateEdits, RepairBeforeRetest, ValidationWaitsForArtifacts,
           NotLockedOut, InTurn, InRound, Mutation, Validated, Resolved, LastRounds
<1> QED
    BY <1>1, <1>2 DEF Preflight

\* The model is called after the control only: its gates and filters leave run_tests
\* out while an artifact is missing or a repair is due, and the edits in.
LEMMA GatesWithEdits ==
    ASSUME StateOK, Mutation, NEW rt, ~rt.validation_action_pending, ~rt.awaiting_revalidation,
           NEW lock, NEW spent, NEW e, NEW gate \in Gates(rt, lock, spent, e), gate[1] # "validation_failed"
    PROVE  "edit" \in gate[2]
BY DEF Gates, Family, Mutation

LEMMA GatesForArtifacts ==
    ASSUME Mutation, More, ~task.web, NEW rt, NEW lock, NEW spent, NEW e, e.missing = evidence.missing,
           NEW gate \in Gates(rt, lock, spent, e)
    PROVE  "test" \notin gate[2] /\ gate[1] # "validation_failed"
BY DEF Gates, Mutation

LEMMA OfferedEdits ==
    ASSUME StateOK, Mutation, NEW rt, ~rt.validation_action_pending, ~rt.change_final, ~rt.inspect_final, ~rt.external_final,
           NEW lock, NEW gate, "edit" \in gate[2]
    PROVE  "edit" \in Offered(rt, lock, gate)
<1>1. ~task.readOnly
    BY TaskAssumption DEF StateOK, Mutation
<1> QED
    BY <1>1 DEF Offered, Family

LEMMA OfferedTests ==
    ASSUME NEW rt, NEW lock, NEW gate, rt.validation_repair_pending \/ "test" \notin gate[2]
    PROVE  "test" \notin Offered(rt, lock, gate)
BY DEF Offered

\* What a decision makes of the flags of the turn.
LEMMA ControlledFlags ==
    ASSUME NEW d, runtime \in RuntimeSet
    PROVE  /\ Controlled(d).validation_action_pending <=> d = "validate"
           /\ Controlled(d).awaiting_revalidation <=> d = "validate" /\ runtime.awaiting_revalidation
           /\ d = "repair" => Controlled(d).validation_repair_pending
           /\ Controlled(d).inspect_final = runtime.inspect_final
           /\ Controlled(d).change_final = runtime.change_final
BY DEF Controlled, RuntimeSet

LEMMA ControlOrdered ==
    ASSUME StateOK, Sound, Ordered, Control
    PROVE  Ordered'
<1> DEFINE d == Decision
           rt == Controlled(d)
           waiting == rt.validation_action_pending \/ rt.awaiting_revalidation
           found == evidence.discovered
                      \/ (waiting /\ ~More /\ ~task.web /\ DiscoveryNeeded(evidence) /\ task.related)
           seeded == [evidence EXCEPT !.discovered = found]
           Due == d = "validate" /\ (recovery.validation_action \/ LastRounds)
<1>1. pc = "control" /\ UNCHANGED <<task, stale, tried>>
    BY DEF Control
<1>2. evidence \in EvidenceSet /\ rt \in RuntimeSet /\ runtime \in RuntimeSet
    BY ControlledOK DEF StateOK
<1>3. /\ seeded.passed = evidence.passed /\ seeded.changed = evidence.changed
      /\ seeded.missing = evidence.missing /\ seeded.safe_noop = evidence.safe_noop
    BY <1>2 DEF EvidenceSet
<1>4. /\ rt.validation_action_pending <=> d = "validate"
      /\ rt.awaiting_revalidation <=> d = "validate" /\ runtime.awaiting_revalidation
      /\ d = "repair" => rt.validation_repair_pending
      /\ rt.inspect_final = runtime.inspect_final /\ rt.change_final = runtime.change_final
    BY <1>2, ControlledFlags
<1>5. /\ d = "validate" => Validated /\ (Pending \/ (evidence.changed /\ ~More))
      /\ d = "validate" /\ evidence.passed = "no" => runtime.awaiting_revalidation
      /\ Validated /\ evidence.passed = "no" /\ d # "validate" => d \in {"repair", "exhausted"}
      /\ Validated /\ evidence.passed = "none" /\ evidence.changed /\ ~More => d = "validate"
    BY <1>2 DEF Decision, Pending, EvidenceSet
<1>6. d = "validate" => Resolved
    BY <1>1, <1>5 DEF Ordered, PendingIsResolved, Validated, Resolved, InTurn, InRound
<1>7. d = "validate" /\ evidence.missing # {} => evidence.missing = {"source"} /\ evidence.passed = "no"
    BY <1>1, <1>5 DEF Ordered, PendingHasArtifacts, BatchTested, InTurn, InRound, More, Validated, Mutation
<1>8. CASE Return("partial", "other", TRUE)
    BY <1>8, ReturnOrdered
<1>9. CASE /\ d = "validate" /\ (recovery.validation_action \/ LastRounds)
           /\ pc' = "inject" /\ origin' = "control"
           /\ runtime' = rt /\ evidence' = seeded
           /\ UNCHANGED <<round, recovery, local, outcome>>
    <2> HIDE DEF rt, seeded, d
    <2>1. PendingIsResolved'
        BY <1>1, <1>3, <1>4, <1>6, <1>9
        DEF Ordered, PendingIsResolved, BatchEdited, InTurn, InRound, Mutation, Resolved
    <2>2. PendingHasArtifacts' /\ ValidationWaitsForArtifacts'
        BY <1>1, <1>3, <1>7, <1>9 DEF PendingHasArtifacts, ValidationWaitsForArtifacts, BatchTested
    <2>3. RetestFollowsEdit'
        BY <1>1, <1>9 DEF RetestFollowsEdit, BatchEdited, LastRounds
    <2> QED
        BY <1>9, <2>1, <2>2, <2>3
        DEF Ordered, LastRoundsSee, RoundsValidateEdits, RepairBeforeRetest, NotLockedOut
<1> DEFINE Lock(spent) == /\ rt.mutation_action_pending /\ ~rt.validation_repair_pending
                          /\ spent \/ recovery.mutation_requests >= MaxMutationRequests
           Inspect(ready) == rt.inspect_final \/ (ready /\ task.kind = "inspect")
           External(ready) == rt.external_final \/ (ready /\ task.web /\ round > 0)
           Asked(ready) == [rt EXCEPT !.inspect_final = Inspect(ready),
                                      !.external_final = External(ready)]
<1>10. CASE /\ d # "exhausted" /\ ~Due
            /\ \E spent, ready \in BOOLEAN :
                 /\ spent => round > 0
                 /\ \E gate \in Gates(Asked(ready), Lock(spent), spent, seeded) :
                      /\ phase' = gate[1]
                      /\ tools' = Offered(Asked(ready), Lock(spent), gate)
                 /\ runtime' = Asked(ready)
            /\ evidence' = seeded
            /\ pc' = "model"
            /\ UNCHANGED <<round, recovery, batch, origin, outcome>>
    <2> HIDE DEF rt, seeded, d, Lock
    <2>1. PICK spent \in BOOLEAN, ready \in BOOLEAN :
                /\ \E gate \in Gates(Asked(ready), Lock(spent), spent, seeded) :
                     /\ phase' = gate[1]
                     /\ tools' = Offered(Asked(ready), Lock(spent), gate)
                /\ runtime' = Asked(ready)
        BY <1>10, Zenon
    <2>2. PICK gate \in Gates(Asked(ready), Lock(spent), spent, seeded) :
                phase' = gate[1] /\ tools' = Offered(Asked(ready), Lock(spent), gate)
        BY <2>1, Zenon
    <2>3. /\ Asked(ready).validation_action_pending <=> d = "validate"
          /\ Asked(ready).awaiting_revalidation <=> d = "validate" /\ runtime.awaiting_revalidation
          /\ d = "repair" => Asked(ready).validation_repair_pending
          /\ Mutation /\ Asked(ready).inspect_final => runtime.inspect_final
          /\ Asked(ready).change_final = runtime.change_final
        BY <1>2, <1>4 DEF RuntimeSet, Mutation
    <2> HIDE DEF Asked
    <2>4. PendingIsResolved'
        BY <1>1, <1>3, <1>6, <1>10, <2>1, <2>3
        DEF Ordered, PendingIsResolved, Pending, BatchEdited, InTurn, InRound, Mutation, Resolved
    <2>5. PendingHasArtifacts'
        BY <1>1, <1>3, <1>7, <1>10, <2>1, <2>3 DEF PendingHasArtifacts, Pending, BatchTested
    <2>6. RetestFollowsEdit'
        BY <1>1, <1>3, <1>10, <2>1, <2>3
        DEF Ordered, RetestFollowsEdit, BatchTested, BatchEdited, LastRounds, InTurn, InRound, Validated, Mutation
    <2>7. LastRoundsSee'
        <3>1. Validated' /\ ~tried' => evidence.passed = "none"
            BY <1>1, <1>2 DEF Sound, VerdictsAreAsked, EvidenceSet
        <3> QED
            BY <1>1, <1>3, <1>5, <1>10, <3>1
            DEF LastRoundsSee, BatchEdited, LastRounds, Validated, Mutation, More
    <2>8. RepairBeforeRetest'
        <3> SUFFICES ASSUME Validated, evidence.passed = "no", ~stale, ~evidence.safe_noop
                     PROVE  "test" \notin tools'
            BY <1>1, <1>3, <1>10 DEF RepairBeforeRetest, Validated, Mutation
        <3>1. d = "repair"
            BY <1>1, <1>5, <1>10 DEF Ordered, RetestFollowsEdit, BatchTested, InTurn, InRound
        <3> QED
            BY <2>2, <2>3, <3>1, OfferedTests
    <2>9. ValidationWaitsForArtifacts'
        <3> SUFFICES ASSUME Validated, ~task.web, evidence.missing # {}
                     PROVE  "test" \notin tools'
            BY <1>1, <1>3, <1>10 DEF ValidationWaitsForArtifacts, Validated, Mutation
        <3>1. "test" \notin gate[2]
            BY <1>3, <2>2, GatesForArtifacts DEF Validated, Mutation, More
        <3> QED
            BY <2>2, <3>1, OfferedTests
    <2>10. NotLockedOut'
        <3> SUFFICES ASSUME Mutation, ~Resolved, gate[1] # "validation_failed", ~Asked(ready).external_final
                     PROVE  "edit" \in tools'
            BY <1>1, <1>3, <1>10, <2>1, <2>2 DEF NotLockedOut, Mutation, Resolved
        <3>1. /\ ~Asked(ready).validation_action_pending /\ ~Asked(ready).awaiting_revalidation
              /\ ~Asked(ready).inspect_final /\ ~Asked(ready).change_final
            BY <1>1, <1>6, <2>3 DEF Ordered, PendingIsResolved, InTurn, InRound
        <3>2. "edit" \in gate[2]
            BY <2>2, <3>1, GatesWithEdits
        <3> QED
            BY <2>2, <3>1, <3>2, OfferedEdits
    <2> QED
        BY <1>10, <2>4, <2>5, <2>6, <2>7, <2>8, <2>9, <2>10 DEF Ordered, RoundsValidateEdits
<1> QED
    BY <1>8, <1>9, <1>10, Zenon DEF Control

LEMMA AfterTestsFlags ==
    ASSUME NEW rt \in RuntimeSet
    PROVE  /\ AfterTests(rt).validation_action_pending <=> rt.validation_action_pending /\ "tested" \notin batch.facts
           /\ AfterTests(rt).awaiting_revalidation <=> rt.awaiting_revalidation /\ "tested" \notin batch.facts
           /\ AfterTests(rt).inspect_final = rt.inspect_final /\ AfterTests(rt).change_final = rt.change_final
<1> DEFINE a == rt.validation_action_pending /\ "tested" \notin batch.facts
           b == rt.awaiting_revalidation /\ "tested" \notin batch.facts
           asked == [rt EXCEPT !.validation_action_pending = a, !.awaiting_revalidation = b]
<1>1. AfterTests(rt) = IF "failed" \in batch.facts THEN RepairNext(asked) ELSE asked
    BY Zenon DEF AfterTests
<1>2. a <=> rt.validation_action_pending /\ "tested" \notin batch.facts
    OBVIOUS
<1>3. b <=> rt.awaiting_revalidation /\ "tested" \notin batch.facts
    OBVIOUS
<1> HIDE DEF a, b
<1> QED
    BY <1>1, <1>2, <1>3 DEF RepairNext, RuntimeSet

LEMMA InjectOrdered ==
    ASSUME StateOK, Ordered, NEW k, Inject(k)
    PROVE  Ordered'
<1> DEFINE t == TestEvidence(evidence, k)
           w == runtime.awaiting_revalidation /\ origin = "edit"
           n == IF origin = "malformed" /\ k = "fail" THEN 0 ELSE runtime.malformed
           rt == [runtime EXCEPT !.validation_action_pending = FALSE,
                                 !.awaiting_revalidation = w, !.malformed = n]
           told == IF k = "fail" THEN RepairNext(rt) ELSE rt
<1>1. evidence \in EvidenceSet /\ runtime \in RuntimeSet /\ t \in EvidenceSet
    BY TestEvidenceOK DEF StateOK
<1>2. /\ pc = "inject" /\ UNCHANGED <<task, status, unseen>> /\ tried' = TRUE
      /\ evidence' \in MissingModule(t, k)
    BY DEF Inject, RunTests
<1>3. /\ t.changed = evidence.changed /\ t.safe_noop = evidence.safe_noop /\ t.missing = evidence.missing
      /\ k = "fail" => t.passed = "no"
    BY <1>1 DEF TestEvidence, EvidenceSet
<1>4. /\ evidence'.changed = evidence.changed /\ evidence'.safe_noop = evidence.safe_noop
      /\ evidence.missing = {} /\ evidence'.missing # {} => evidence'.missing = {"source"} /\ evidence'.passed = "no"
    <2> HIDE DEF t
    <2> QED
        BY <1>1, <1>2, <1>3 DEF MissingModule, EvidenceSet
<1>5. /\ ~told.validation_action_pending
      /\ told.awaiting_revalidation => runtime.awaiting_revalidation /\ origin = "edit"
      /\ told.inspect_final = runtime.inspect_final /\ told.change_final = runtime.change_final
    <2> HIDE DEF n
    <2> QED
        BY <1>1 DEF RepairNext, RuntimeSet
<1>6. CASE origin = "edit" /\ runtime' = AfterTests(told) /\ pc' = "conclude"
           /\ UNCHANGED <<round, recovery, local, origin, outcome>>
    <2>1. told \in RuntimeSet
        <3>1. n \in 0..MaxMalformed
            BY <1>1, LimitAssumption DEF RuntimeSet
        <3>2. w \in BOOLEAN
            BY Zenon
        <3>3. rt \in RuntimeSet
            <4> HIDE DEF n, w
            <4> QED BY <1>1, <3>1, <3>2 DEF RuntimeSet
        <3> HIDE DEF rt
        <3> QED
            BY <3>3, RepairNextOK
    <2> HIDE DEF told
    <2>2. /\ ~runtime'.validation_action_pending
          /\ runtime'.awaiting_revalidation => told.awaiting_revalidation
          /\ runtime'.inspect_final = told.inspect_final /\ runtime'.change_final = told.change_final
        BY <1>5, <1>6, <2>1, AfterTestsFlags
    <2>3. PendingIsResolved' /\ PendingHasArtifacts'
        BY <1>2, <1>4, <1>5, <1>6, <2>2
        DEF Ordered, PendingIsResolved, PendingHasArtifacts, Pending, BatchEdited, BatchTested, InTurn, InRound,
            Mutation, Validated, Resolved
    <2>4. RetestFollowsEdit'
        BY <1>2, <1>5, <1>6, <2>2
        DEF Ordered, RetestFollowsEdit, BatchEdited, BatchTested, InTurn, InRound, Validated, Mutation, LastRounds
    <2> QED
        BY <1>2, <1>6, <2>3, <2>4
        DEF Ordered, LastRoundsSee, RoundsValidateEdits, RepairBeforeRetest, ValidationWaitsForArtifacts, NotLockedOut
<1>7. CASE Return("success", "none", TRUE)
    BY <1>7, ReturnOrdered
<1>8. CASE origin # "edit" /\ runtime' = told /\ NextRound /\ UNCHANGED recovery
    <2> HIDE DEF told
    <2>1. pc' \in {"control", "over"}
        BY <1>8 DEF NextRound
    <2>2. PendingIsResolved' /\ PendingHasArtifacts' /\ RetestFollowsEdit'
        BY <1>2, <1>4, <1>5, <1>8, <2>1
        DEF Ordered, PendingIsResolved, PendingHasArtifacts, RetestFollowsEdit, Pending, BatchEdited, BatchTested,
            InTurn, InRound, Mutation, Validated, Resolved
    <2> QED
        BY <1>2, <2>1, <2>2
        DEF Ordered, LastRoundsSee, RoundsValidateEdits, RepairBeforeRetest, ValidationWaitsForArtifacts, NotLockedOut
<1> QED
    BY <1>6, <1>7, <1>8, Zenon DEF Inject

\* A call of the batch: what it does to the evidence and the files.
LEMMA CalledOrdered ==
    ASSUME StateOK, Ordered, NEW f, NEW facts, Called(f, facts),
           evidence.changed => evidence'.changed,
           evidence.safe_noop => evidence'.safe_noop,
           "edited" \in facts => Resolved' /\ (stale' \/ evidence'.safe_noop),
           f # "test" => /\ evidence'.passed = evidence.passed
                         /\ evidence'.missing \subseteq evidence.missing
                         /\ stale => stale',
           Validated /\ ~tried' /\ evidence'.changed /\ evidence'.missing = {} =>
              \/ unseen' \/ "edited" \in facts
              \/ ~tried /\ evidence.changed /\ evidence.missing = {} /\ (unseen => unseen')
    PROVE  Ordered'
<1>1. /\ batch.facts \subseteq batch'.facts /\ facts \subseteq batch'.facts
      /\ batch'.facts \subseteq batch.facts \cup facts \cup {"tested"}
      /\ f = "test" => "tested" \in batch'.facts
    BY DEF Called, StateOK, LocalOK, BatchSet
<1>2. pc = "tools" /\ UNCHANGED <<task, pc, round, runtime, recovery, phase, tools, origin>>
    BY DEF Called
<1>3. "edited" \in batch'.facts => "edited" \in batch.facts \/ "edited" \in facts
    BY <1>1
<1> USE DEF Mutation, Validated, Resolved, InTurn, InRound, BatchTested, BatchEdited
<1>4. PendingIsResolved'
    BY <1>2, <1>3 DEF Ordered, PendingIsResolved, Pending
<1>5. PendingHasArtifacts'
    BY <1>1, <1>2 DEF Ordered, PendingHasArtifacts, Pending, StateOK, EvidenceSet
<1>6. RetestFollowsEdit'
    BY <1>1, <1>2, <1>3 DEF Ordered, RetestFollowsEdit, LastRounds
<1>7. LastRoundsSee'
    BY <1>1, <1>2 DEF Ordered, LastRoundsSee, LastRounds
<1> QED
    BY <1>2, <1>4, <1>5, <1>6, <1>7
    DEF Ordered, RoundsValidateEdits, RepairBeforeRetest, ValidationWaitsForArtifacts, NotLockedOut

LEMMA DiscardedOrdered ==
    ASSUME StateOK, Ordered, NEW f, NEW k, NEW facts, "edited" \notin facts, Called(f, facts), Discarded(f, k)
    PROVE  Ordered'
<1>1. CASE batch.prefetched /\ f = "test"
    <2>1. /\ TestEvidence(evidence, k).changed = evidence.changed
          /\ TestEvidence(evidence, k).safe_noop = evidence.safe_noop
        BY DEF TestEvidence, StateOK, EvidenceSet
    <2> QED
        BY <1>1, <2>1, CalledOrdered DEF Discarded
<1>2. CASE UNCHANGED <<evidence, history>>
    BY <1>2, CalledOrdered DEF history
<1> QED
    BY <1>1, <1>2 DEF Discarded

LEMMA ToolCallOrdered ==
    ASSUME StateOK, Ordered, ToolCall
    PROVE  Ordered'
<1>1. evidence \in EvidenceSet
    BY DEF StateOK
<1>2. ASSUME NEW f \in Family, NEW k, CallReads(f, k)
      PROVE  Ordered'
    <2>1. PICK facts : Called(f, facts) /\ "edited" \notin facts
        BY <1>2 DEF CallReads, Observed
    <2>2. /\ evidence'.changed = evidence.changed /\ evidence'.safe_noop = evidence.safe_noop
          /\ evidence'.passed = evidence.passed /\ evidence'.missing = evidence.missing
        BY <1>1, <1>2 DEF CallReads, EvidenceSet
    <2> QED
        BY <1>2, <2>1, <2>2, CalledOrdered DEF CallReads, history
<1>3. ASSUME NEW w, CallEdits(w)
      PROVE  Ordered'
    <2>1. PICK met : evidence' = [evidence EXCEPT
                        !.changed = @ \/ w # "noop",
                        !.sourceChanged = @ \/ w = "source",
                        !.safe_noop = @ \/ w = "noop",
                        !.discovered = @ \/ w = "test",
                        !.missing = @ \ met]
        BY <1>3, Zenon DEF CallEdits
    <2>2. /\ evidence'.changed <=> evidence.changed \/ w # "noop"
          /\ evidence'.safe_noop <=> evidence.safe_noop \/ w = "noop"
          /\ evidence'.passed = evidence.passed /\ evidence'.missing \subseteq evidence.missing
        BY <1>1, <2>1 DEF EvidenceSet
    <2>3. stale' <=> stale \/ w # "noop"
        BY <1>3 DEF CallEdits
    <2> HIDE <2>1
    <2>4. Resolved' /\ (stale' \/ evidence'.safe_noop)
        BY <2>2, <2>3 DEF Resolved
    <2>5. Called("edit", {"edited", "ran"})
        BY <1>3 DEF CallEdits
    <2> QED
        BY <2>2, <2>3, <2>4, <2>5, CalledOrdered
<1>4. CASE CallDeletes
    <2>1. /\ evidence'.changed /\ evidence'.safe_noop = evidence.safe_noop
          /\ evidence'.passed = evidence.passed /\ evidence'.missing = evidence.missing
        BY <1>1, <1>4 DEF CallDeletes, EvidenceSet
    <2>2. stale' /\ Resolved' /\ Called("delete", {"edited", "ran"})
        BY <1>4, <2>1 DEF CallDeletes, Resolved
    <2> QED
        BY <2>1, <2>2, CalledOrdered
<1>5. ASSUME NEW w, CallRewrites(w)
      PROVE  Ordered'
    <2>1. PICK facts : Called("rewrite", facts) /\ "edited" \notin facts
        BY <1>5 DEF CallRewrites, Observed
    <2>2. PICK met : evidence' = [evidence EXCEPT
                        !.changed = TRUE,
                        !.sourceChanged = @ \/ w = "source",
                        !.missing = @ \ met]
        BY <1>5, Zenon DEF CallRewrites
    <2>3. /\ evidence'.changed /\ evidence'.safe_noop = evidence.safe_noop
          /\ evidence'.passed = evidence.passed /\ evidence'.missing \subseteq evidence.missing
        BY <1>1, <2>2 DEF EvidenceSet
    <2>4. stale' /\ unseen'
        BY <1>5 DEF CallRewrites
    <2> HIDE <2>2
    <2> QED
        BY <2>1, <2>3, <2>4, CalledOrdered
<1>6. ASSUME NEW k, CallTests(k)
      PROVE  Ordered'
    <2>1. PICK facts : Called("test", facts) /\ "edited" \notin facts
        BY <1>6 DEF CallTests, Observed
    <2> DEFINE t == TestEvidence(evidence, k)
    <2>2. t \in EvidenceSet /\ t.changed = evidence.changed /\ t.safe_noop = evidence.safe_noop
        BY <1>1, TestEvidenceOK DEF TestEvidence, EvidenceSet
    <2>3. evidence' \in MissingModule(t, k) /\ tried' = TRUE
        BY <1>6 DEF CallTests, RunTests
    <2>4. evidence'.changed = evidence.changed /\ evidence'.safe_noop = evidence.safe_noop
        <3> HIDE DEF t
        <3> QED BY <2>2, <2>3 DEF MissingModule, EvidenceSet
    <2> QED
        BY <2>1, <2>3, <2>4, CalledOrdered
<1>7. ASSUME NEW f, NEW k, CallDenied(f, k)
      PROVE  Ordered'
    BY <1>7, DiscardedOrdered DEF CallDenied
<1>8. ASSUME NEW f, NEW k, NEW why, CallRefused(f, k, why)
      PROVE  Ordered'
    <2>1. PICK facts : Called(f, facts) /\ "edited" \notin facts
        BY <1>8 DEF CallRefused, MutationFamily
    <2> QED
        BY <1>8, <2>1, DiscardedOrdered DEF CallRefused
<1> QED
    BY <1>2, <1>3, <1>4, <1>5, <1>6, <1>7, <1>8 DEF ToolCall, Family

LEMMA RecordBatchOrdered ==
    ASSUME StateOK, Sound, Ordered, RecordBatch
    PROVE  Ordered'
<1> DEFINE edited == "edited" \in batch.facts
           clear == {"edited", "passed"} \cap batch.facts # {}
           again == evidence.passed = "no" /\ task.validation /\ ~More
           kept == IF clear THEN [runtime EXCEPT !.blocks = [b \in BlockReason |-> [p \in GatePhase |-> 0]]] ELSE runtime
           act == task.validation /\ evidence.passed # "yes" /\ ~More /\ ~again
           more == More
           rt == IF edited
                 THEN [kept EXCEPT
                         !.mutation_action_pending = more,
                         !.validation_repair_pending = FALSE,
                         !.awaiting_revalidation = again,
                         !.validation_action_pending = act]
                 ELSE kept
<1>1. again \in BOOLEAN /\ act \in BOOLEAN /\ more \in BOOLEAN
    BY Zenon DEF More
<1>2. kept \in RuntimeSet
    BY LimitAssumption DEF StateOK, RuntimeSet
<1>3. /\ kept.validation_action_pending = runtime.validation_action_pending
      /\ kept.awaiting_revalidation = runtime.awaiting_revalidation
      /\ kept.inspect_final = runtime.inspect_final /\ kept.change_final = runtime.change_final
    BY DEF StateOK, RuntimeSet
<1>4. /\ rt \in RuntimeSet
      /\ edited => rt.validation_action_pending = act /\ rt.awaiting_revalidation = again
      /\ ~edited => /\ rt.validation_action_pending = kept.validation_action_pending
                    /\ rt.awaiting_revalidation = kept.awaiting_revalidation
      /\ rt.inspect_final = kept.inspect_final /\ rt.change_final = kept.change_final
    <2> HIDE DEF kept, again, act, more, edited
    <2> QED BY <1>1, <1>2 DEF RuntimeSet
<1>5. /\ pc = "tools" /\ UNCHANGED <<task, round, recovery, evidence, batch, stale, tried, unseen>>
      /\ \/ edited /\ ShouldInject(rt) /\ pc' = "inject" /\ origin' = "edit" /\ runtime' = rt
         \/ ~(edited /\ ShouldInject(rt)) /\ pc' = "conclude" /\ runtime' = AfterTests(rt) /\ UNCHANGED origin
    BY Zenon DEF RecordBatch, local, history
<1>6. Mutation /\ (edited \/ Pending) => Resolved
    BY <1>5 DEF Ordered, PendingIsResolved, BatchEdited, InTurn, InRound
<1>7. Validated /\ edited => (act <=> evidence.passed # "yes" /\ ~More /\ ~again)
                             /\ (again <=> evidence.passed = "no" /\ ~More)
    BY DEF Validated
<1> HIDE DEF rt, kept, again, act, more
<1> USE DEF Mutation, Validated, Resolved, InTurn, InRound, BatchTested, BatchEdited, LastRounds, Pending
<1>8. CASE edited /\ ShouldInject(rt) /\ pc' = "inject" /\ origin' = "edit" /\ runtime' = rt
    <2>1. PendingIsResolved'
        BY <1>3, <1>4, <1>5, <1>6, <1>8 DEF Ordered, PendingIsResolved
    <2>2. PendingHasArtifacts' /\ ValidationWaitsForArtifacts'
        <3>1. Validated => evidence.missing = {}
            BY <1>4, <1>7, <1>8 DEF ShouldInject, More
        <3> QED
            BY <1>5, <1>8, <3>1 DEF PendingHasArtifacts, ValidationWaitsForArtifacts
    <2>3. RetestFollowsEdit'
        BY <1>5, <1>8 DEF RetestFollowsEdit, ShouldInject
    <2> QED
        BY <1>8, <2>1, <2>2, <2>3
        DEF Ordered, LastRoundsSee, RoundsValidateEdits, RepairBeforeRetest, NotLockedOut
<1>9. CASE ~(edited /\ ShouldInject(rt)) /\ pc' = "conclude" /\ runtime' = AfterTests(rt) /\ UNCHANGED origin
    <2>1. /\ runtime'.validation_action_pending <=> rt.validation_action_pending /\ "tested" \notin batch.facts
          /\ runtime'.awaiting_revalidation <=> rt.awaiting_revalidation /\ "tested" \notin batch.facts
          /\ runtime'.inspect_final = rt.inspect_final /\ runtime'.change_final = rt.change_final
        BY <1>4, <1>9, AfterTestsFlags
    <2>2. PendingIsResolved'
        BY <1>3, <1>4, <1>5, <1>6, <1>9, <2>1 DEF Ordered, PendingIsResolved
    <2>3. PendingHasArtifacts'
        BY <1>3, <1>4, <1>5, <1>7, <1>9, <2>1 DEF Ordered, PendingHasArtifacts, More
    <2>4. RetestFollowsEdit'
        BY <1>3, <1>4, <1>5, <1>7, <1>9, <2>1 DEF Ordered, RetestFollowsEdit
    <2>5. LastRoundsSee'
        <3> SUFFICES ASSUME Validated, ~tried, LastRounds, evidence.changed, evidence.missing = {}, ~unseen,
                            ~DiscoveryNeeded(evidence)
                     PROVE  FALSE
            BY <1>5, <1>9 DEF LastRoundsSee, DiscoveryNeeded
        <3>1. edited /\ evidence.passed = "none"
            BY <1>5 DEF Ordered, LastRoundsSee, Sound, VerdictsAreAsked, StateOK, EvidenceSet
        <3>2. rt.validation_action_pending
            BY <1>4, <1>7, <3>1 DEF More
        <3> QED
            BY <1>9, <3>1, <3>2 DEF ShouldInject
    <2> QED
        BY <1>9, <2>2, <2>3, <2>4, <2>5
        DEF Ordered, RoundsValidateEdits, RepairBeforeRetest, ValidationWaitsForArtifacts, NotLockedOut
<1> QED
    BY <1>5, <1>8, <1>9

LEMMA ConcludeOrdered ==
    ASSUME StateOK, Ordered, ChangeComplete \/ PhaseBlocked \/ Proceed
    PROVE  Ordered'
<1>1. runtime \in RuntimeSet /\ recovery \in RecoverySet /\ pc = "conclude"
    BY DEF StateOK, ChangeComplete, PhaseBlocked, Proceed
<1>2. CASE ChangeComplete
    <2>1. CASE runtime' = [runtime EXCEPT !.change_final = TRUE] /\ NextRound /\ UNCHANGED recovery
        <3>1. Resolved
            BY <1>2 DEF ChangeComplete, ValidatedComplete, MutationComplete, Resolved
        <3>2. FlagsSettle
            BY <1>1, <2>1, <3>1 DEF FlagsSettle, RuntimeSet
        <3> QED
            BY <1>1, <1>2, <2>1, <3>2, NextRoundOrdered DEF ChangeComplete
    <2> QED
        BY <1>2, <2>1, ReturnOrdered DEF ChangeComplete
<1>3. CASE PhaseBlocked
    <2> DEFINE c == CountBlock("schema_denied")
               rt == [c EXCEPT !.mutation_action_pending = TRUE]
               r == rt.validation_repair_pending \/ phase = "validation_failed"
    <2>1. CASE Return("partial", "other", TRUE)
        BY <2>1, ReturnOrdered
    <2>2. CASE /\ Tried("schema_denied") < MaxPhaseBlocks
               /\ runtime' = [rt EXCEPT !.validation_repair_pending = r]
               /\ recovery' = [recovery EXCEPT !.mutation_requests =
                                  IF phase = "mutation_required" THEN @ + 1 ELSE @]
               /\ NextRound
        <3>1. c \in RuntimeSet
            BY <2>2, CountBlockOK DEF BlockReason
        <3>2. /\ c.validation_action_pending = runtime.validation_action_pending
              /\ c.awaiting_revalidation = runtime.awaiting_revalidation
              /\ c.inspect_final = runtime.inspect_final /\ c.change_final = runtime.change_final
            BY <1>1 DEF CountBlock, RuntimeSet
        <3>3. FlagsSettle
            <4> HIDE DEF c, r
            <4> QED BY <1>1, <2>2, <3>1, <3>2 DEF FlagsSettle, RuntimeSet, RecoverySet
        <3> QED
            BY <1>1, <1>3, <2>2, <3>3, NextRoundOrdered DEF PhaseBlocked
    <2> QED
        BY <1>3, <2>1, <2>2, Zenon DEF PhaseBlocked
<1>4. CASE Proceed
    <2> DEFINE strategy == "strategy" \in batch.facts
               rt == IF strategy THEN RepairNext(CountBlock("patch_strategy_required")) ELSE runtime
    <2>1. /\ rt.validation_action_pending = runtime.validation_action_pending
          /\ rt.awaiting_revalidation = runtime.awaiting_revalidation
          /\ rt.inspect_final = runtime.inspect_final /\ rt.change_final = runtime.change_final
          /\ [rt EXCEPT !.inspect_final = TRUE].validation_action_pending = runtime.validation_action_pending
          /\ [rt EXCEPT !.inspect_final = TRUE].awaiting_revalidation = runtime.awaiting_revalidation
          /\ [rt EXCEPT !.inspect_final = TRUE].change_final = runtime.change_final
          /\ [rt EXCEPT !.mutation_action_pending = TRUE].validation_action_pending = runtime.validation_action_pending
          /\ [rt EXCEPT !.mutation_action_pending = TRUE].awaiting_revalidation = runtime.awaiting_revalidation
          /\ [rt EXCEPT !.mutation_action_pending = TRUE].inspect_final = runtime.inspect_final
          /\ [rt EXCEPT !.mutation_action_pending = TRUE].change_final = runtime.change_final
        BY <1>1 DEF CountBlock, RepairNext, RuntimeSet
    <2> HIDE DEF rt
    <2>2. CASE Return("partial", "other", TRUE)
        BY <2>2, ReturnOrdered
    <2>3. CASE /\ ~Mutation /\ runtime' = [rt EXCEPT !.inspect_final = TRUE]
               /\ NextRound
               /\ UNCHANGED <<recovery, evidence, history>>
        <3>1. FlagsSettle
            BY <2>1, <2>3 DEF FlagsSettle
        <3> QED
            BY <1>1, <1>4, <2>3, <3>1, NextRoundOrdered DEF Proceed
    <2>4. CASE AskForEdit(rt)
        <3>1. FlagsSettle
            BY <1>1, <2>1, <2>4 DEF AskForEdit, FlagsSettle, RecoverySet
        <3> QED
            BY <1>1, <1>4, <2>4, <3>1, NextRoundOrdered DEF Proceed, AskForEdit
    <2>5. CASE /\ runtime' = rt
               /\ NextRound
               /\ UNCHANGED <<recovery, evidence, history>>
        <3>1. FlagsSettle
            BY <2>1, <2>5 DEF FlagsSettle
        <3> QED
            BY <1>1, <1>4, <2>5, <3>1, NextRoundOrdered DEF Proceed
    <2> QED
        BY <1>4, <2>2, <2>3, <2>4, <2>5, Zenon DEF Proceed, rt
<1> QED
    BY <1>2, <1>3, <1>4

\* The requests that a handler makes before it accepts the end of the turn.
LEMMA AskOrdered ==
    ASSUME StateOK, Ordered, pc = "model", UNCHANGED <<task, status>>,
           AskForEdit(runtime) \/ AskForValidation \/ AskForRepair \/ AskAgain
    PROVE  Ordered'
<1>1. runtime \in RuntimeSet /\ recovery \in RecoverySet
    BY DEF StateOK
<1>2. CASE AskForEdit(runtime) \/ AskForRepair \/ AskAgain
    <2>1. FlagsSettle
        BY <1>1, <1>2 DEF AskForEdit, AskForRepair, AskAgain, RepairNext, FlagsSettle, RuntimeSet, RecoverySet
    <2> QED
        BY <1>2, <2>1, NextRoundOrdered DEF AskForEdit, AskForRepair, AskAgain
<1>3. CASE AskForValidation
    <2>1. CASE NextRound /\ UNCHANGED <<runtime, evidence, history>> /\ recovery' = [recovery EXCEPT !.validation_action = TRUE]
        <3>1. FlagsSettle
            BY <1>1, <2>1 DEF FlagsSettle, RecoverySet
        <3> QED
            BY <2>1, <3>1, NextRoundOrdered
    <2> QED
        BY <1>3, <2>1, ReturnOrdered DEF AskForValidation
<1> QED
    BY <1>2, <1>3

LEMMA ResponseOrdered ==
    ASSUME StateOK, Ordered, Response
    PROVE  Ordered'
<1>1. runtime \in RuntimeSet /\ recovery \in RecoverySet
    BY DEF StateOK
<1>2. pc = "model" /\ UNCHANGED <<task, status>>
    BY DEF Response, StreamTimeout, ToolCalls, EmptyResponse, PseudoToolCall, LengthCutoff, MalformedToolCall,
           ReasoningOnly, TextAnswer
<1>3. ASSUME NextRound, UNCHANGED <<evidence, history>>,
             \/ UNCHANGED runtime /\ recovery' \in {[recovery EXCEPT !.timeout = TRUE], [recovery EXCEPT !.empty = TRUE],
                                                   [recovery EXCEPT !.final_answer = TRUE]}
             \/ UNCHANGED recovery /\ runtime' \in {[runtime EXCEPT !.pseudo = TRUE],
                                                   [runtime EXCEPT !.malformed = @ + 1]}
      PROVE  Ordered'
    <2>1. FlagsSettle
        BY <1>1, <1>3 DEF FlagsSettle, RuntimeSet, RecoverySet
    <2> QED
        BY <1>2, <1>3, <2>1, NextRoundOrdered
<1>4. CASE StreamTimeout \/ EmptyResponse \/ PseudoToolCall \/ LengthCutoff
    BY <1>3, <1>4, ReturnOrdered DEF StreamTimeout, EmptyResponse, PseudoToolCall, LengthCutoff
<1>5. CASE ToolCalls
    <2>1. CASE /\ \E p \in BOOLEAN : batch' = [NoBatch EXCEPT !.prefetched = p]
               /\ pc' = "tools"
               /\ UNCHANGED <<round, runtime, recovery, phase, tools, origin, outcome>>
        <3>1. batch'.facts = {} /\ UNCHANGED <<evidence, stale, tried, unseen>>
            BY <1>5, <2>1 DEF ToolCalls, NoBatch, history
        <3> QED
            BY <1>2, <2>1, <3>1
            DEF Ordered, PendingIsResolved, PendingHasArtifacts, RetestFollowsEdit, LastRoundsSee, Pending, BatchTested,
                BatchEdited, RoundsValidateEdits, RepairBeforeRetest, ValidationWaitsForArtifacts, NotLockedOut,
                InTurn, InRound, Mutation, Validated, Resolved, LastRounds
    <2> QED
        BY <1>5, <2>1, ReturnOrdered DEF ToolCalls
<1>6. CASE MalformedToolCall
    <2>1. CASE AskForEdit([runtime EXCEPT !.malformed = 0])
        <3>1. FlagsSettle
            BY <1>1, <2>1 DEF AskForEdit, FlagsSettle, RuntimeSet, RecoverySet
        <3> QED
            BY <1>2, <2>1, <3>1, NextRoundOrdered DEF AskForEdit
    <2>2. CASE /\ recovery' = [recovery EXCEPT !.validation_action = TRUE]
               /\ pc' = "inject" /\ origin' = "malformed"
               /\ UNCHANGED <<round, runtime, evidence, local, outcome, history>>
        <3>1. recovery'.validation_action /\ UNCHANGED <<evidence, stale, tried, unseen>>
            BY <1>1, <2>2 DEF RecoverySet, history
        <3> QED
            BY <1>2, <2>2, <3>1
            DEF Ordered, PendingIsResolved, PendingHasArtifacts, RetestFollowsEdit, LastRoundsSee, Pending, BatchTested,
                BatchEdited, RoundsValidateEdits, RepairBeforeRetest, ValidationWaitsForArtifacts, NotLockedOut,
                InTurn, InRound, Mutation, Validated, Resolved, LastRounds
    <2> QED
        BY <1>3, <1>6, <2>1, <2>2, ReturnOrdered, Zenon DEF MalformedToolCall
<1>7. CASE ReasoningOnly
    BY <1>2, <1>3, <1>7, AskOrdered, ReturnOrdered DEF ReasoningOnly
<1>8. CASE TextAnswer
    BY <1>2, <1>8, AskOrdered, ReturnOrdered DEF TextAnswer
<1> QED
    BY <1>4, <1>5, <1>6, <1>7, <1>8 DEF Response

LEMMA StepOrdered ==
    ASSUME StateOK, Sound, Ordered, [Next]_vars
    PROVE  Ordered'
<1>1. CASE UNCHANGED vars
    BY <1>1 DEF vars, local, history, Ordered, PendingIsResolved, PendingHasArtifacts, RetestFollowsEdit, LastRoundsSee,
                Pending, BatchTested, BatchEdited, RoundsValidateEdits, RepairBeforeRetest, ValidationWaitsForArtifacts,
                NotLockedOut, Mutation, Validated, Resolved, LastRounds, DiscoveryNeeded
<1>2. ASSUME NEW s, Abort(s)
      PROVE  Ordered'
    BY <1>2, LeftOrdered DEF Abort
<1>3. ASSUME NEW k, AutoValidate(k)
      PROVE  Ordered'
    BY <1>3, LeftOrdered DEF AutoValidate
<1>4. CASE Finalize
    BY <1>4, LeftOrdered DEF Finalize
<1>5. CASE RoundsExhausted
    BY <1>5, ReturnOrdered DEF RoundsExhausted
<1>6. CASE Step
    BY <1>3, <1>4, <1>5, <1>6, PreflightOrdered, ControlOrdered, InjectOrdered, RecordBatchOrdered, ConcludeOrdered,
       ResponseOrdered, ToolCallOrdered DEF Step
<1> QED
    BY <1>1, <1>2, <1>6 DEF Next, Ended

LEMMA AlwaysOrdered == Spec => []Ordered
<1>1. Init => Ordered
    BY InitOrdered
<1>2. StateOK /\ Sound /\ Ordered /\ [Next]_vars => Ordered'
    BY StepOrdered
<1> QED
    BY <1>1, <1>2, StateAlwaysOK, AlwaysSound, PTL DEF Spec

\* However many rounds there are and whatever the model does with them, they do not
\* run out on a change that could have been validated.
THEOREM RoundsValidateEditsCorrect == Spec => []RoundsValidateEdits
<1>1. Ordered => RoundsValidateEdits
    BY DEF Ordered
<1> QED
    BY <1>1, AlwaysOrdered, PTL

\* After a failed validation no round offers run_tests before an edit has succeeded.
THEOREM RepairBeforeRetestCorrect == Spec => []RepairBeforeRetest
<1>1. Ordered => RepairBeforeRetest
    BY DEF Ordered
<1> QED
    BY <1>1, AlwaysOrdered, PTL

\* In every round of every task a missing artifact comes before its validation.
THEOREM ValidationWaitsForArtifactsCorrect == Spec => []ValidationWaitsForArtifacts
<1>1. Ordered => ValidationWaitsForArtifacts
    BY DEF Ordered
<1> QED
    BY <1>1, AlwaysOrdered, PTL

\* No lock on reading, no phase and no pending action ever takes the edits away from
\* a turn that has to make one.
THEOREM NotLockedOutCorrect == Spec => []NotLockedOut
<1>1. Ordered => NotLockedOut
    BY DEF Ordered
<1> QED
    BY <1>1, AlwaysOrdered, PTL
=============================================================================
