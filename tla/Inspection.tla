----------------------------- MODULE Inspection -----------------------------
(***************************************************************************)
(* A turn that only inspects the source (inspect_staging.py and the parts  *)
(* of the round loop around it).  The evidence of the tools decides the    *)
(* stage of each round; an answer given too early is asked for again, and  *)
(* when the evidence suffices a gate opens: the final answer is requested  *)
(* without tools.  After each call the loop reads a candidate by itself    *)
(* (grounding.py), and an answer passes the source, dependency and scope   *)
(* guards (round_text_response.py).                                        *)
(*                                                                         *)
(* All files lie in one directory, which the prompt may name too.  A path  *)
(* is relative or absolute: read_file and search_files record absolute     *)
(* paths, source_probe relative ones, and the two forms never overlap.     *)
(* Of an answer only the files matter of which a line makes a claim that    *)
(* admits no limit (CLAIM_MARKERS, LIMITATION_MARKERS).                    *)
(***************************************************************************)
EXTENDS Naturals, FiniteSets, FiniteSetsExt

CONSTANTS
    SourceFiles,   \* the files of the directory
    MaxPackages,   \* how many packages an overview may find
    RoundBudget,   \* inspect_round_budget (6 in the code)
    ActionBudget,  \* inspect_action_budget (7 in the code)
    MaxRounds      \* rounds of a turn (40 in the code)

ASSUME InspectionAssumption ==
    IsFiniteSet(SourceFiles) /\ {RoundBudget, MaxPackages} \subseteq Nat /\ MaxRounds \in Nat \ {0}

VARIABLES
    inquiry,       \* what the prompt names, and whether it says read-only or asks for the whole source
    inspected,     \* evidence.inspected_paths
    representative,\* evidence.representative_read_paths
    candidates,    \* evidence.source_representative_candidates
    searched,      \* evidence.search_candidate_paths
    overviewed, packages, truncated,  \* what the overviews said
    observations,  \* evidence.inspect_observation_count, up to 2
    probed,        \* the files that a probe has opened
    anchored,      \* a probe has returned line ranges
    round, roundStage, actions,
    requested,     \* who has requested the final answer
    guarded,       \* the loop guard has blocked the call of this round
    reported, scopeRetries, dependencyRetried,  \* recovery.states
    at, outcome, cited

gathered ==
    <<inspected, representative, candidates, searched, overviewed, packages, truncated, observations,
      probed, anchored>>
retries == <<reported, scopeRetries, dependencyRetried>>
inspectVars ==
    <<inquiry, gathered, round, roundStage, actions, requested, guarded, retries, at, outcome, cited>>

Forms == {"rel", "abs"}
Known == inspected \cup {<<"rel", f>> : f \in representative}

(***************************************************************************)
(* How many representatives must be read (source_inspection_budget.py).    *)
(***************************************************************************)
Broad == truncated \/ packages > 1
StructuralNeed(n) ==
    CASE packages > 1 -> Max({2, packages})
      [] packages <= 1 /\ n >= 8 -> 5
      [] packages <= 1 /\ n \in 5..7 -> 4
      [] OTHER -> 2
CoverageCap(n) ==
    CASE packages >= 6 \/ n >= 10 -> 8
      [] packages \in 4..5 /\ n < 10 -> 6
      [] packages < 4 /\ n \in 8..9 -> 6
      [] OTHER -> 4
RequiredReads(n) ==
    CASE n = 0 -> IF overviewed THEN 2 ELSE 0
      [] n \in 1..4 /\ ~Broad -> Min({n, 2})
      [] OTHER -> Min({n, CoverageCap(n), StructuralNeed(n)})

\* An inspection of the whole source has a larger budget (round_inspection_budget.py).
BroadInspect == inquiry.readOnly /\ (candidates # {} \/ Broad)
Rounds ==
    IF BroadInspect
    THEN Min({Max({RoundBudget, MaxRounds - 1}),
              Max({RoundBudget, RequiredReads(Cardinality(candidates)) + 1})})
    ELSE RoundBudget
Actions ==
    IF BroadInspect THEN Max({ActionBudget, RequiredReads(Cardinality(candidates)) + 1}) ELSE ActionBudget
LastRound == round + 1 >= Max({2, Rounds})

(***************************************************************************)
(* What the evidence still lacks.                                          *)
(***************************************************************************)
MissingFiles == inquiry.files \ Known
MissingOverview == inquiry.directory /\ ~overviewed
Unread == {f \in candidates : <<"rel", f>> \notin Known}
RepresentativeTargets ==
    IF overviewed /\ Cardinality(candidates \ Unread) < RequiredReads(Cardinality(candidates))
    THEN Unread ELSE {}
RepresentativesMissing ==
    /\ overviewed
    /\ Broad \/ inquiry.directory
    /\ IF candidates # {} THEN Cardinality(candidates \ Unread) < RequiredReads(Cardinality(candidates))
       ELSE Cardinality(Known) < Max({IF packages > 1 THEN Min({4, packages}) ELSE 1,
                                      IF inquiry.directory THEN 1 ELSE 0})
DirectorySeen == ~inquiry.directory \/ \E f \in SourceFiles : <<"rel", f>> \in inspected
NamedSeen == inquiry.files \subseteq inspected /\ DirectorySeen
EvidenceComplete ==
    /\ MissingFiles = {} /\ ~MissingOverview /\ ~RepresentativesMissing
    /\ \/ inquiry.files # {} /\ NamedSeen
       \/ overviewed /\ RepresentativeTargets = {}
       \/ /\ ~overviewed
          /\ \/ inquiry.directory /\ NamedSeen
             \/ searched # {} /\ inspected # {}
             \/ observations = 2 /\ (searched # {} \/ inspected # {})

(***************************************************************************)
(* The stage of a round.  only is the one tool of a strict stage.          *)
(***************************************************************************)
StageOf(name, only, complete) == [name |-> name, only |-> only, complete |-> complete]
Observed == overviewed \/ searched # {} \/ inspected # {}
DecidedStage ==
    CASE ~inquiry.staged -> StageOf("none", "", FALSE)
      [] inquiry.staged /\ EvidenceComplete -> StageOf("finalize", "", TRUE)
      [] inquiry.staged /\ MissingFiles # {} -> StageOf("targeted_read", "", FALSE)
      [] OTHER ->
         CASE MissingOverview /\ ~LastRound -> StageOf("source_discovery", "source_overview", FALSE)
           [] (~MissingOverview \/ LastRound) /\ requested # "nobody" -> StageOf("finalize", "", FALSE)
           [] OTHER ->
              CASE inquiry.files # {} /\ round = 0 -> StageOf("targeted_read", "", FALSE)
                [] (inquiry.files = {} \/ round > 0) /\ ~Observed ->
                     StageOf("source_discovery", IF inquiry.directory THEN "source_overview" ELSE "", FALSE)
                [] OTHER ->
                   CASE RepresentativeTargets # {} -> StageOf("targeted_read", "source_probe", FALSE)
                     [] RepresentativeTargets = {} /\ LastRound -> StageOf("finalize", "", TRUE)
                     [] OTHER -> StageOf("targeted_read", "", FALSE)

\* The round begins; the gate opens when the stage is the last one.
Decide ==
    /\ at = "round"
    /\ round < MaxRounds
    /\ roundStage' = DecidedStage
    /\ requested' = IF roundStage'.name = "finalize" /\ requested = "nobody" /\ observations > 0
                    THEN "gate" ELSE requested
    /\ at' = "model"
    /\ UNCHANGED <<inquiry, gathered, round, actions, guarded, retries, outcome, cited>>
\* The rounds are used up: what was found is summarised.
Exhausted ==
    /\ at = "round"
    /\ round = MaxRounds
    /\ outcome' = "partial"
    /\ at' = "ended"
    /\ UNCHANGED <<inquiry, gathered, round, roundStage, actions, requested, guarded, retries, cited>>

(***************************************************************************)
(* A tool call of the model; its evidence; what the loop reads itself.     *)
(***************************************************************************)
Called == at = "model" /\ requested = "nobody" /\ at' = "ground" /\ actions' = actions + 1
Counted == observations' = Min({2, observations + 1})
CallRest == UNCHANGED <<inquiry, round, roundStage, requested, guarded, retries, outcome, cited>>

SeeOverview(found, n, cut) ==
    /\ overviewed' = TRUE
    /\ candidates' = candidates \cup found
    /\ searched' = searched \cup {<<"rel", f>> : f \in found}
    /\ packages' = n
    /\ truncated' = (truncated \/ cut)
    /\ UNCHANGED <<inspected, representative, probed, anchored>>
SeeMatches(found) ==
    /\ searched' = searched \cup {<<"abs", f>> : f \in found}
    /\ UNCHANGED <<inspected, representative, candidates, overviewed, packages, truncated, probed, anchored>>
\* A file that is not there, or has fewer lines, counts as one that was read.
SeeFile(f) ==
    /\ inspected' = inspected \cup {<<"abs", f>>}
    /\ representative' = representative \cup ({f} \cap candidates)
    /\ UNCHANGED <<candidates, searched, overviewed, packages, truncated, probed, anchored>>
\* So does a probe of a file that is not there; of a large one it returns no line ranges.
Probes == {"ranges", "bare", "missing"}
SeeProbe(f, got) ==
    /\ inspected' = inspected \cup {<<"rel", f>>}
    /\ representative' = representative \cup {f}
    /\ probed' = IF got = "missing" THEN probed ELSE probed \cup {f}
    /\ anchored' = (anchored \/ got = "ranges")
    /\ UNCHANGED <<candidates, searched, overviewed, packages, truncated>>

Overview(found, n, cut) == Called /\ SeeOverview(found, n, cut) /\ Counted /\ CallRest
Search(found) == Called /\ SeeMatches(found) /\ Counted /\ CallRest
\* A listing is made an overview when the stage wants one (inspect_tool_normalization.py).
List(found, n, cut) ==
    /\ Called
    /\ IF roundStage.only = "source_overview" THEN SeeOverview(found, n, cut) ELSE SeeMatches(found)
    /\ Counted
    /\ CallRest
Read(f) == Called /\ SeeFile(f) /\ Counted /\ CallRest
\* A probe is sent to a representative when the stage wants those.
Probe(f, got) ==
    /\ Called
    /\ roundStage.only = "source_probe" => f \in RepresentativeTargets
    /\ SeeProbe(f, got)
    /\ Counted
    /\ CallRest
\* The tool raises: all that is recorded is that it was called.
CallFails ==
    /\ Called
    /\ Counted
    /\ UNCHANGED <<inspected, representative, candidates, searched, overviewed, packages, truncated, probed, anchored>>
    /\ CallRest
CallBlocked ==
    /\ at = "model"
    /\ at' = "ground"
    /\ actions' = actions + 1
    /\ guarded' = TRUE
    /\ Counted
    /\ UNCHANGED <<inspected, representative, candidates, searched, overviewed, packages, truncated, probed, anchored>>
    /\ UNCHANGED <<inquiry, round, roundStage, requested, retries, outcome, cited>>
\* Without tools in its schema a call is denied, and the round is lost.
CallDenied ==
    /\ at = "model"
    /\ requested # "nobody"
    /\ at' = "ground"
    /\ actions' = actions + 1
    /\ Counted
    /\ UNCHANGED <<inspected, representative, candidates, searched, overviewed, packages, truncated, probed, anchored>>
    /\ CallRest

\* The candidates of the searches come first, then the representatives.
ToRead == searched \ inspected
GroundOutcome ==
    /\ guarded' = FALSE
    /\ IF guarded /\ requested # "nobody"
       THEN outcome' = "partial" /\ at' = "ended" /\ UNCHANGED <<requested, round>>
       ELSE /\ requested' = IF guarded THEN "guard" ELSE requested
            /\ round' = round + 1
            /\ at' = "round"
            /\ UNCHANGED outcome
    /\ UNCHANGED <<inquiry, roundStage, retries, cited>>
NothingToGround ==
    \/ actions >= Actions
    \/ ToRead = {} /\ (RepresentativeTargets = {} \/ ~inquiry.readOnly)
GroundNothing ==
    /\ at = "ground"
    /\ NothingToGround
    /\ GroundOutcome
    /\ UNCHANGED <<gathered, actions>>
GroundRead(f) ==
    /\ at = "ground"
    /\ actions < Actions
    /\ \/ <<"abs", f>> \in ToRead
       \/ <<"rel", f>> \in ToRead /\ f \notin candidates
    /\ SeeFile(f)
    /\ Counted
    /\ actions' = actions + 1
    /\ GroundOutcome
GroundProbe(f, got) ==
    /\ at = "ground"
    /\ actions < Actions
    /\ \/ <<"rel", f>> \in ToRead /\ f \in candidates
       \/ ToRead = {} /\ inquiry.readOnly /\ f \in RepresentativeTargets
    /\ SeeProbe(f, got)
    /\ Counted
    /\ actions' = actions + 1
    /\ GroundOutcome
\* The loop guards refuse the call of the loop as they refuse the model's, or it fails.
GroundRefused ==
    /\ at = "ground"
    /\ ~NothingToGround
    /\ actions' = actions + 1
    /\ Counted
    /\ GroundOutcome
    /\ UNCHANGED <<inspected, representative, candidates, searched, overviewed, packages, truncated, probed, anchored>>

(***************************************************************************)
(* A text of the model, which names files and may break a constraint.      *)
(***************************************************************************)
HasEvidence == Observed \/ representative # {}
\* Mutant: only the first stage asks for more evidence.
PrematureAtFirst ==
    /\ requested = "nobody"
    /\ HasEvidence
    /\ roundStage.name = "source_discovery"
    /\ ~roundStage.complete
Premature ==
    /\ requested = "nobody"
    /\ HasEvidence
    /\ roundStage.name \in {"source_discovery", "targeted_read"}
    /\ ~roundStage.complete
\* Once there are line ranges, a file is known by a probe or by the overview of its
\* directory; where the whole source is asked for, nothing is looked up.
Unobserved(names) == IF ~anchored \/ inquiry.broad \/ overviewed THEN {} ELSE names \ probed

Again ==
    /\ round' = round + 1
    /\ at' = "round"
    /\ UNCHANGED <<inquiry, gathered, roundStage, actions, requested, guarded, outcome, cited>>
Ends(how, names) ==
    /\ outcome' = how
    /\ cited' = names
    /\ at' = "ended"
    /\ UNCHANGED <<inquiry, gathered, round, roundStage, actions, requested, guarded, retries>>

AnswersEarly == at = "model" /\ Premature /\ Again /\ UNCHANGED retries
AnswersUnobserved(names) ==
    \E f \in Unobserved(names) :
        /\ at = "model"
        /\ ~Premature
        /\ \/ /\ Cardinality(reported) < 2 /\ f \notin reported
              /\ reported' = reported \cup {f}
              /\ Again
              /\ UNCHANGED <<scopeRetries, dependencyRetried>>
           \/ /\ Cardinality(reported) >= 2 \/ f \in reported
              /\ Ends("safe", {})
AnswersDependency ==
    /\ at = "model"
    /\ ~Premature
    /\ \/ /\ ~dependencyRetried
          /\ dependencyRetried' = TRUE
          /\ Again
          /\ UNCHANGED <<reported, scopeRetries>>
       \/ /\ dependencyRetried
          /\ \E how \in {"sanitized", "partial"} : Ends(how, {})
AnswersBeyondScope ==
    /\ at = "model"
    /\ ~Premature
    /\ scopeRetries < 2
    /\ scopeRetries' = scopeRetries + 1
    /\ Again
    /\ UNCHANGED <<reported, dependencyRetried>>
\* A third answer beyond the scope is accepted too.
Answers(names) == at = "model" /\ ~Premature /\ Unobserved(names) = {} /\ Ends("answered", names)

InspectInit ==
    /\ inquiry \in [files : {S \in SUBSET (Forms \X SourceFiles) : Cardinality(S) <= 1},
                   directory : BOOLEAN, readOnly : BOOLEAN, staged : BOOLEAN, broad : BOOLEAN]
    /\ (inquiry.readOnly => inquiry.staged) /\ (inquiry.broad => inquiry.directory)
    /\ inspected = {} /\ representative = {} /\ candidates = {} /\ searched = {}
    /\ overviewed = FALSE /\ packages = 0 /\ truncated = FALSE /\ observations = 0
    /\ probed = {} /\ anchored = FALSE
    /\ round = 0 /\ roundStage = StageOf("none", "", FALSE) /\ actions = 0
    /\ requested = "nobody" /\ guarded = FALSE
    /\ reported = {} /\ scopeRetries = 0 /\ dependencyRetried = FALSE
    /\ at = "round" /\ outcome = "none" /\ cited = {}

InspectNext ==
    \/ Decide \/ Exhausted
    \/ \E S \in SUBSET SourceFiles :
         \/ Search(S)
         \/ AnswersUnobserved(S)
         \/ Answers(S)
         \/ \E n \in 1..MaxPackages, cut \in BOOLEAN : Overview(S, n, cut) \/ List(S, n, cut)
    \/ \E f \in SourceFiles : Read(f) \/ GroundRead(f) \/ \E got \in Probes : Probe(f, got) \/ GroundProbe(f, got)
    \/ CallFails \/ CallBlocked \/ CallDenied \/ GroundNothing \/ GroundRefused
    \/ AnswersEarly \/ AnswersDependency \/ AnswersBeyondScope

InspectSpec == InspectInit /\ [][InspectNext]_inspectVars
-----------------------------------------------------------------------------
InspectTypeOK ==
    /\ inspected \subseteq Forms \X SourceFiles /\ searched \subseteq Forms \X SourceFiles
    /\ representative \subseteq SourceFiles /\ candidates \subseteq SourceFiles /\ probed \subseteq SourceFiles
    /\ anchored \in BOOLEAN /\ overviewed \in BOOLEAN /\ packages \in 0..MaxPackages /\ truncated \in BOOLEAN
    /\ observations \in 0..2 /\ round \in 0..MaxRounds /\ actions \in 0..2 * MaxRounds
    /\ requested \in {"nobody", "gate", "guard"} /\ guarded \in BOOLEAN
    /\ reported \subseteq SourceFiles /\ scopeRetries \in 0..2 /\ dependencyRetried \in BOOLEAN
    /\ at \in {"round", "model", "ground", "ended"}
    /\ outcome \in {"none", "answered", "safe", "sanitized", "partial"}
    /\ cited \subseteq SourceFiles

\* An answer is accepted only when what the prompt names has been asked for, be it that
\* the tool did not find it (executor_evidence.py:129-132, tool_evidence.py:41-48): every
\* named file, enough representatives of what a broad overview has found, and the named
\* directory unless the rounds of the inspection are used up; unless the turn is not
\* staged, nothing at all was found, or the loop guard has asked for the answer.  Once a
\* probe has returned line ranges, no overview was made and the route is not a broad one
\* (source_answer_guard.py:118-125), it makes claims of files only that a probe has opened.
AnswerIsGrounded ==
    outcome = "answered" =>
        /\ \/ ~inquiry.staged \/ ~HasEvidence \/ requested = "guard"
           \/ /\ MissingFiles = {}
              /\ RepresentativeTargets = {} \/ (inquiry.files # {} /\ ~RepresentativesMissing)
              /\ ~MissingOverview \/ LastRound
        /\ ~anchored \/ inquiry.broad \/ overviewed \/ cited \subseteq probed
=============================================================================
