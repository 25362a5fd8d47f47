------------------------------- MODULE Routes -------------------------------
(***************************************************************************)
(* How a prompt becomes a route (agent/model_router.py, router.py,         *)
(* route_validator.py, loop.py): two extractors read the words of the      *)
(* prompt, each with a dictionary of its own; a model proposes a route,    *)
(* which code merges with the constraints of the prompt and validates, or  *)
(* replaces by that of the rules; the loop then checks it against the      *)
(* rules, gives it a target and plans the first calls.                     *)
(*                                                                         *)
(* A prompt is the set of the kinds of words in it.  "readOnly" is a word  *)
(* that both dictionaries hold, "noFiles" one that only that of the        *)
(* constraints does ("no new files"), and "exception" asks for a change    *)
(* beside the files that must not change.                                  *)
(***************************************************************************)
EXTENDS Naturals, FiniteSets

CONSTANTS
    Words,      \* the kinds of words that prompts are made of
    MaxWords,   \* a bound on the kinds of words in one prompt
    Decisions   \* what the model may answer to the router

VARIABLES routing, prompt, route, unified, first

routesVars == <<routing, prompt, route, unified, first>>

-----------------------------------------------------------------------------
Local == {"read_file", "search_workspace"}
Mutating == {"mutate_file", "delete_file"}
Shelling == {"run_shell", "run_validation"}
Web == {"web_search"}
Changing == Mutating \cup Shelling
Staged == {"multi_file_generation", "validation_repair"}
Kinds == {"answer", "inspect", "modify", "operate"}
Hints == Staged \cup {"none", "direct_answer", "direct_file_edit", "single_file_create", "external_research"}

\* ModelRoutingDecision: all that its schema admits, a confidence below 0.45 as unsure.
Schema ==
    [kind : Kinds, caps : SUBSET (Local \cup Changing \cup Web), hint : Hints,
     target : {"none", "file", "directory"},
     unsure : BOOLEAN, readOnly : BOOLEAN, validates : BOOLEAN, external : BOOLEAN]

ASSUME RoutesAssumption == MaxWords \in Nat /\ Decisions \subseteq Schema

Only(condition, set) == IF condition THEN set ELSE {}
Apply(condition, new, old) == IF condition THEN new ELSE old

\* What both dictionaries agree on.
Changes(p) == p \cap {"change", "delete", "exception"} # {}
Path(p) == IF "file" \in p THEN "file"
           ELSE IF "directory" \in p THEN "directory" ELSE "none"
NoFilesSnippet(p) == {"snippet", "noFiles"} \subseteq p

\* prompt_constraints.PromptConstraintExtractor.extract
Constraints(p) ==
    LET readOnly == p \cap {"readOnly", "noFiles"} # {} /\ "exception" \notin p
        artifact == readOnly /\ NoFilesSnippet(p)
        path == IF artifact /\ Path(p) = "directory" THEN "none" ELSE Path(p)
        mutation == ~readOnly /\ Changes(p)
    IN  [readOnly |-> readOnly,
         noShell |-> "noShell" \in p,
         noNetwork |-> "noNetwork" \in p,
         mutation |-> mutation,
         project |-> ~readOnly /\ "project" \in p,
         directory |-> mutation /\ "directory" \in p,
         validation |-> "validate" \in p,
         external |-> "external" \in p,
         followup |-> "followup" \in p,
         reference |-> "reference" \in p,
         workspace |-> "workspace" \in p /\ ~(artifact /\ path = "none"),
         code |-> "snippet" \in p,
         artifact |-> artifact,
         path |-> path]

\* model_router_signals: the prompt is about the last answer; it is about the
\* workspace.
AnswerFollowup(c) == c.followup /\ c.path = "none" /\ c.reference
LocalRequest(c) == c.noNetwork \/ c.path # "none" \/ (c.workspace /\ ~c.external)
AnswerArtifact(c) == c.artifact /\ c.path = "none" /\ ~LocalRequest(c)

\* The tests that a change calls for, unless no command may run.
TestsAnyway(c) == c.validation
TestsDue(c) == c.validation /\ ~c.noShell

\* intent.IntentExtractor.extract
Signals(p) ==
    LET readOnly == p \cap {"readOnly", "exception"} # {}
        artifact == readOnly /\ NoFilesSnippet(p)
    IN  [readOnly |-> readOnly,
         artifact |-> artifact,
         target |-> IF artifact THEN "none" ELSE Path(p),
         modify |-> ~readOnly /\ Changes(p),
         laidOut |-> ~readOnly /\ "project" \in p,
         operate |-> p \cap {"operate", "validate"} # {},
         external |-> "external" \in p /\ "noNetwork" \notin p]

-----------------------------------------------------------------------------
\* router.RuleBasedRouter: the kind, then the decision.
RuleKind(p) ==
    LET s == Signals(p)
        recalls == "recall" \in p /\ ~s.modify /\ ~s.operate /\ s.target = "none"
        reads == "inspect" \in p \/ s.target # "none"
        bare == s.target = "none" /\ ~s.laidOut
    IN  CASE recalls -> "answer"
          [] ~recalls /\ s.readOnly ->
               IF ~s.artifact /\ (s.operate \/ reads) THEN "inspect" ELSE "answer"
          [] ~recalls /\ ~s.readOnly /\ "question" \in p /\ ~s.modify /\ ~s.operate ->
               IF s.target # "none" THEN "inspect" ELSE "answer"
          [] ~recalls /\ s.modify ->
               IF bare /\ (s.external \/ p \cap {"snippet", "recall"} # {})
               THEN "answer" ELSE "modify"
          [] OTHER ->
               IF s.operate /\ "noShell" \notin p THEN "operate"
               ELSE IF ~("external" \in p /\ s.target = "none") /\ (reads \/ "followup" \in p)
                    THEN "inspect" ELSE "answer"

FlagsOf(p) == {f \in {"noShell", "noNetwork"} : f \in p}

RuleRoute(p) ==
    LET s == Signals(p)
        kind == RuleKind(p)
    IN  [kind |-> kind,
         caps |-> CASE kind = "answer" -> Only(s.external, Web)
                    [] kind = "inspect" -> Local \cup Only(s.external, Web)
                    [] kind = "operate" -> Local \cup (Shelling \ Only("noShell" \in p, {"run_shell"}))
                    [] kind = "modify" ->
                         Local \cup {"mutate_file"} \cup Only("delete" \in p, {"delete_file"})
                               \cup Only("validate" \in p, {"run_validation"}),
         target |-> s.target,
         hint |-> IF s.modify /\ "project" \in p THEN "multi_file_generation" ELSE "none",
         readOnly |-> s.readOnly,
         mutates |-> kind = "modify" /\ ~s.readOnly,
         validates |-> "validate" \in p,
         external |-> s.external,
         flags |-> FlagsOf(p),
         source |-> "rule"]

-----------------------------------------------------------------------------
NeedsWorkspace(c, caps) ==
    c.workspace \/ c.path # "none" \/ LocalRequest(c) \/ caps \cap Local # {}

\* model_router.ModelRouter._merge_constraints, up to the validation of the route.
Merged(d, p) ==
    LET c == Constraints(p)
        readOnly == c.readOnly \/ d.readOnly
        followup == AnswerFollowup(c)
        artifact == readOnly /\ AnswerArtifact(c)
        local == LocalRequest(c)
        mutation == c.mutation /\ ~readOnly /\ ~followup
        unsure == d.unsure /\ ~c.mutation
        searches == c.external /\ ~c.noNetwork
        given == IF unsure THEN Local
                 ELSE (d.caps \ (Only(readOnly, Changing) \cup Only(c.noShell, Shelling)
                                   \cup Only(c.noNetwork, Web)))
                      \cup Only(TestsDue(c) /\ ~followup /\ ~readOnly, {"run_validation"})
                      \cup Only(searches, Web)
        wanted == CASE artifact \/ followup -> {}
                    [] ~artifact /\ ~followup ->
                         given \cup Only(mutation, {"read_file", "mutate_file"})
        kind == CASE readOnly -> IF ~artifact /\ NeedsWorkspace(c, wanted)
                                 THEN "inspect" ELSE "answer"
                  [] ~readOnly /\ (mutation \/ wanted \cap Mutating # {}) -> "modify"
                  [] OTHER -> IF followup THEN "answer"
                              ELSE IF unsure \/ (searches /\ ~local) THEN "inspect" ELSE d.kind
        target == CASE followup \/ artifact -> "none"
                    [] OTHER -> IF d.target # "none" THEN d.target ELSE c.path
        known == wanted \cup Only(c.workspace /\ wanted = {} /\ ~followup, Local)
        onFile == target = "file" /\ kind = "modify"
        filed == known \cup Only(onFile, {"read_file", "mutate_file"})
                       \cup Only(onFile /\ TestsDue(c), {"run_validation"})
        hint == CASE artifact -> "direct_answer"
                  [] ~artifact /\ (readOnly \/ followup) -> "none"
                  [] OTHER -> IF target = "file"
                              THEN IF d.hint \in Staged THEN "direct_file_edit" ELSE d.hint
                              ELSE IF c.project /\ kind = "modify" THEN "multi_file_generation" ELSE d.hint
        looks == local /\ ~followup
        reads == readOnly /\ ~artifact /\ kind = "answer"
                   /\ (c.workspace \/ local)
        caps == (IF looks THEN (filed \ Web) \cup Local ELSE filed)
                \cup Only(reads, Local)
        allowed == CASE artifact -> {}
                     [] OTHER -> caps \ Only(readOnly, Changing)
    IN  [kind |-> IF artifact THEN "answer"
                  ELSE IF kind = "answer" /\ (looks \/ reads) THEN "inspect" ELSE kind,
         caps |-> allowed,
         target |-> target,
         hint |-> hint,
         readOnly |-> readOnly,
         mutates |-> kind = "modify" /\ filed \cap Mutating # {},
         validates |-> (d.validates \/ c.validation) /\ "run_validation" \in allowed,
         external |-> (d.external \/ "web_search" \in allowed)
                        /\ ~c.noNetwork /\ ~local,
         flags |-> FlagsOf(p),
         source |-> "model"]

-----------------------------------------------------------------------------
\* route_validator: what the prompt itself supports.
Evidence(c, target) ==
    /\ ~(c.external /\ c.path = "none" /\ ~LocalRequest(c))
    /\ ~AnswerArtifact(c)
    /\ c.workspace \/ LocalRequest(c) \/ target # "none"
Generates(c, target) == ~c.readOnly /\ c.directory /\ c.project /\ target = "directory"
Supported(c, r, target) ==
    /\ ~c.readOnly
    /\ c.project \/ target # "none" \/ (c.mutation /\ c.code /\ r.mutates)

\* The first half of validate_route: a route that must change nothing, that
\* continues the last answer, that searches, generates, or edits.
ReadOnlyRoute(c, r, external, grounds) ==
    LET caps == r.caps \ Changing
        hint == IF AnswerArtifact(c) THEN "direct_answer" ELSE "none"
    IN  [r EXCEPT !.hint = hint,
           !.kind = IF ~AnswerArtifact(c) /\ ~(external /\ ~grounds)
                         /\ (grounds \/ caps \cap Local # {})
                    THEN "inspect" ELSE "answer",
           !.caps = CASE AnswerArtifact(c) -> {}
                      [] ~AnswerArtifact(c) /\ external /\ ~grounds -> Web
                      [] OTHER -> IF grounds \/ caps \cap Local # {}
                                  THEN caps \cup Local ELSE {}]

Narrowed(c, r) == [r EXCEPT !.caps = @ \ (Only(c.noShell, Shelling) \cup Only(c.noNetwork, Web))]

Directed(c, r, external, grounds) ==
    LET generates == Generates(c, r.target)
        onlyAnswers == external /\ ~(c.mutation \/ r.mutates \/ r.kind = "modify" \/ generates)
        r1 == Apply(onlyAnswers /\ ~grounds,
                    [r EXCEPT !.kind = "answer", !.caps = Web, !.hint = "external_research"], r)
        r2 == Apply(generates /\ ~external,
                    [r1 EXCEPT !.kind = "modify", !.hint = "multi_file_generation",
                       !.caps = @ \cup {"read_file", "mutate_file"}
                                  \cup Only(TestsDue(c), {"run_validation"})], r1)
        r3 == Apply(r2.kind = "modify" /\ ~Supported(c, r, r2.target),
                    IF grounds
                    THEN [r2 EXCEPT !.kind = "inspect",
                            !.caps = (@ \ (Mutating \cup {"run_validation"})) \cup Local]
                    ELSE [r2 EXCEPT !.kind = "answer", !.caps = {}, !.hint = "none"], r2)
    IN  Apply(grounds /\ r3.kind = "answer" /\ ~external
                /\ (r3.caps \cap Local # {} \/ c.workspace \/ LocalRequest(c)),
              [r3 EXCEPT !.kind = "inspect", !.caps = @ \cup Local], r3)

\* The second half: each kind of route keeps the capabilities of its kind.
KindKeeps(c, r, external, grounds) ==
    LET caps == (r.caps \ Changing) \cup Only(grounds \/ ~external, Local)
    IN  CASE r.kind = "answer" ->
               IF external THEN [r EXCEPT !.caps = Web, !.hint = "external_research"]
               ELSE [r EXCEPT !.caps = {}, !.hint = IF @ = "direct_answer" THEN @ ELSE "none"]
          [] r.kind = "inspect" ->
               [r EXCEPT !.caps = caps \ Only(LocalRequest(c), Web), !.hint = "none"]
          [] r.kind = "operate" ->
               IF ~c.noShell THEN r
               ELSE [r EXCEPT !.kind = IF grounds THEN "inspect" ELSE "answer",
                              !.caps = Only(grounds, Local), !.hint = "none"]
          [] r.kind = "modify" ->
               [r EXCEPT !.caps = @ \cup {"read_file", "mutate_file"}
                                    \cup Only(TestsDue(c), {"run_validation"}),
                  !.hint = IF r.target = "file" /\ @ \in Staged THEN "direct_file_edit"
                           ELSE IF c.project \/ Generates(c, r.target)
                                THEN "multi_file_generation" ELSE @]

ValidatedRoute(r, p) ==
    LET c == Constraints(p)
        target == IF r.target # "none" THEN r.target ELSE c.path
        followup == AnswerFollowup(c)
        readOnly == r.readOnly \/ c.readOnly
        external == (r.external \/ c.external \/ "web_search" \in r.caps)
                      /\ ~c.noNetwork /\ ~LocalRequest(c)
        grounds == Evidence(c, target)
        narrowed == Narrowed(c, [r EXCEPT !.target = target, !.readOnly = readOnly])
        bound == Apply(readOnly, ReadOnlyRoute(c, narrowed, external, grounds), narrowed)
        aimed == CASE followup -> [bound EXCEPT !.kind = "answer", !.caps = {}, !.hint = "none",
                                                !.target = "none"]
                   [] ~followup /\ readOnly -> bound
                   [] OTHER -> Directed(c, bound, external, grounds)
        keeps == KindKeeps(c, aimed, external /\ ~followup, grounds)
    IN  [keeps EXCEPT
           !.external = "web_search" \in keeps.caps /\ ~c.noNetwork /\ ~LocalRequest(c),
           !.mutates = keeps.kind = "modify" /\ keeps.caps \cap Mutating # {} /\ ~readOnly,
           !.validates = keeps.kind \in {"modify", "operate"} /\ ~readOnly /\ ~c.noShell
                           /\ "run_validation" \in keeps.caps]

\* answer_policy.apply_answer_policy
AnswerPolicy(r, p) ==
    LET c == Constraints(p)
        searches == ~c.reference /\ (c.external \/ r.external)
                      /\ ~c.noNetwork /\ ~LocalRequest(c)
    IN  Apply(r.kind = "answer",
              [r EXCEPT !.caps = Only(searches, Web), !.external = searches,
                 !.hint = IF searches THEN "external_research"
                          ELSE IF @ = "direct_answer" THEN @ ELSE "none",
                 !.mutates = FALSE, !.validates = FALSE],
              r)

\* model_router_safety.sanitize_read_only_route
Sanitized(r, c) ==
    LET local == LocalRequest(c)
        caps == (r.caps \ Changing) \ Only(local, Web)
        reads == NeedsWorkspace(c, caps) \/ r.target # "none"
                   \/ (r.kind # "answer" /\ "web_search" \notin caps)
        kind == IF ~AnswerArtifact(c) /\ (reads \/ "web_search" \in caps)
                THEN "inspect" ELSE "answer"
        keeps == CASE kind = "answer" -> {}
                  [] kind = "inspect" -> caps \cup Only(reads, Local)
    IN  Apply(r.readOnly,
              [r EXCEPT !.kind = kind, !.caps = keeps, !.mutates = FALSE, !.validates = FALSE,
                 !.hint = IF AnswerArtifact(c) THEN "direct_answer" ELSE "none",
                 !.external = "web_search" \in keeps /\ ~local],
              r)

\* model_router.ModelRouter._safe_fallback: the reply of the model is no route.
FallbackRoute(p) ==
    LET c == Constraints(p)
        r == RuleRoute(p)
        local == LocalRequest(c)
        followup == AnswerFollowup(c)
        artifact == AnswerArtifact(c)
        looks == c.followup \/ c.workspace \/ c.path # "none"
        searches == c.external /\ ~c.noNetwork /\ ~local
        mutation == c.mutation /\ ~followup
        caps1 == IF followup \/ artifact THEN {}
                 ELSE r.caps \cup Only(looks, Local) \cup Only(searches, Web)
                      \cup Only(mutation, {"read_file", "mutate_file"})
                      \cup Only(mutation /\ TestsDue(c), {"run_validation"})
        kind1 == IF followup \/ artifact THEN "answer"
                 ELSE IF mutation THEN "modify"
                      ELSE IF looks \/ searches THEN "inspect" ELSE r.kind
        reads == c.readOnly /\ ~artifact /\ NeedsWorkspace(c, caps1 \ Changing)
        caps2 == (caps1 \ Only(c.readOnly, Changing)) \cup Only(reads, Local)
        kind2 == IF ~c.readOnly THEN kind1 ELSE IF reads THEN "inspect" ELSE "answer"
        here == local /\ ~followup
        caps == IF here THEN (caps2 \ Web) \cup Local ELSE caps2
        kind == IF ~c.readOnly /\ caps \cap Mutating # {} THEN "modify"
                ELSE IF here THEN "inspect" ELSE kind2
        target == IF r.target # "none" THEN r.target ELSE c.path
        hint == IF artifact THEN "direct_answer"
                ELSE IF target = "file"
                     THEN IF r.hint \in Staged THEN "direct_file_edit" ELSE r.hint
                     ELSE IF c.project /\ kind = "modify" THEN "multi_file_generation" ELSE r.hint
    IN  Sanitized([r EXCEPT !.kind = kind, !.caps = caps, !.target = target, !.hint = hint,
                     !.mutates = ~c.readOnly /\ kind = "modify" /\ caps \cap Mutating # {},
                     !.validates = (r.validates \/ c.validation) /\ "run_validation" \in caps,
                     !.external = "web_search" \in caps /\ ~local,
                     !.source = "fallback"],
                  c)

-----------------------------------------------------------------------------
NoRoute == [kind |-> "none"]

RouteInit ==
    /\ routing = "idle"
    /\ prompt = {}
    /\ route = NoRoute
    /\ unified = TRUE
    /\ first = "none"

\* A prompt is a choice of at most MaxWords kinds of words.
Prompts == {{}} \cup {{w[i] : i \in 1..MaxWords} : w \in [1..MaxWords -> Words]}

Ask ==
    /\ routing = "idle"
    /\ prompt' \in Prompts
    /\ unified' \in BOOLEAN
    /\ routing' = "asked"
    /\ UNCHANGED <<route, first>>

Routed(r) ==
    /\ route' = r
    /\ routing' = "routed"
    /\ UNCHANGED <<prompt, unified, first>>

\* A prompt that refers to the conversation is not shown to the model.
RuleRoutes ==
    /\ routing = "asked"
    /\ "recall" \in prompt
    /\ Routed(RuleRoute(prompt))

ModelRoutes ==
    /\ routing = "asked"
    /\ "recall" \notin prompt
    /\ \E d \in Decisions : Routed(AnswerPolicy(ValidatedRoute(Merged(d, prompt), prompt), prompt))

ModelFails ==
    /\ routing = "asked"
    /\ "recall" \notin prompt
    /\ Routed(FallbackRoute(prompt))

\* The loop prefers the route of the rules to an answer that should be a change,
\* and to the inspection of a question to the web.
Replaces(r, rule) ==
    \/ r.kind = "answer" /\ rule.kind \in {"modify", "operate"}
    \/ r.kind = "inspect" /\ rule.kind = "answer" /\ rule.external /\ r.target = "none"

CrossCheck ==
    /\ routing = "routed"
    /\ LET rule == RuleRoute(prompt)
       IN  route' = IF route.source # "rule" /\ Replaces(route, rule) THEN rule ELSE route
    /\ routing' = "checked"
    /\ UNCHANGED <<prompt, unified, first>>

\* The target of an earlier turn, for a prompt that refers to it and names none
\* that is there.
Target(found, missing) ==
    /\ routing = "checked"
    /\ found # "none" => "followup" \in prompt /\ route.kind # "answer"
    /\ route' = IF found # "none" /\ (route.target = "none" \/ missing)
                THEN [route EXCEPT !.target = found] ELSE route
    /\ routing' = "aimed"
    /\ UNCHANGED <<prompt, unified, first>>

\* workflow_routing.should_use_generation_workflow: the workspace may hold
\* sources, and the file may be there.
LaidOut == route.source = "model" /\ Constraints(prompt).directory /\ Constraints(prompt).project
Generation ==
    /\ routing = "aimed"
    /\ ~unified /\ route.kind = "modify" /\ ~route.readOnly
    /\ route.hint = "multi_file_generation" \/ LaidOut
    /\ route.target = "file" => "validate" \in prompt
    /\ first' = "generation"
    /\ routing' = "done"
    /\ UNCHANGED <<prompt, route, unified>>

\* preflight.PreflightPlanner.plan
Clarifies == route.target = "none" /\ ~route.readOnly /\ route.mutates /\ "followup" \in prompt
Searches == route.kind \in {"inspect", "modify"} /\ Path(prompt) = "none"
              /\ "followup" \notin prompt /\ "search_workspace" \in route.caps
              /\ (route.kind = "modify" => ~route.readOnly)
Deletes == route.target # "none" /\ route.kind = "modify" /\ ~route.readOnly /\ "delete" \in prompt
ReadsTarget == route.target = "file" /\ route.source = "model" /\ route.kind # "answer"
                 /\ ~route.external /\ "read_file" \in route.caps

Preflight(call) ==
    /\ routing = "aimed"
    /\ call \in {"none"} \cup
         (IF Clarifies THEN {"clarify"}
          ELSE Only(Searches, {"search"}) \cup Only(Deletes, {"delete"})
                 \cup Only(ReadsTarget, {"read"}))
    /\ (call = "none" => ~Clarifies)
    /\ first' = call
    /\ routing' = "done"
    /\ UNCHANGED <<prompt, route, unified>>

-----------------------------------------------------------------------------
\* policy.ToolPolicy.check: the categories of tools that the route lets run.
ByRoute(category) ==
    CASE category = "read" -> route.kind # "answer" \/ route.caps \cap Local # {}
      [] category = "mutation" -> route.kind = "modify" /\ route.caps \cap Mutating # {}
      [] category = "shell" -> route.kind = "operate" /\ "run_shell" \in route.caps
      [] category = "validation" ->
           route.kind \in {"modify", "operate"}
             /\ (route.validates \/ "run_validation" \in route.caps)
      [] category = "web" -> route.external \/ "web_search" \in route.caps

Allowed(category) ==
    /\ ~(route.readOnly /\ category \in {"mutation", "shell", "validation"})
    /\ ~("noShell" \in route.flags /\ category \in {"shell", "validation"})
    /\ ~("noNetwork" \in route.flags /\ category = "web")
    /\ unified \/ ByRoute(category)

RouteNext ==
    \/ Ask
    \/ RuleRoutes
    \/ ModelRoutes
    \/ ModelFails
    \/ CrossCheck
    \/ \E found \in {"none", "file"}, missing \in BOOLEAN : Target(found, missing)
    \/ Generation
    \/ \E call \in {"none", "clarify", "search", "delete", "read"} : Preflight(call)

RouteSpec == RouteInit /\ [][RouteNext]_routesVars

-----------------------------------------------------------------------------
RouteTypeOK ==
    /\ routing \in {"idle", "asked", "routed", "checked", "aimed", "done"}
    /\ prompt \subseteq Words /\ Cardinality(prompt) <= MaxWords
    /\ unified \in BOOLEAN
    /\ first \in {"none", "clarify", "search", "delete", "read", "generation"}
    /\ \/ route = NoRoute
       \/ /\ route.kind \in Kinds
          /\ route.caps \subseteq Local \cup Changing \cup Web
          /\ route.target \in {"none", "file", "directory"}
          /\ route.hint \in Hints
          /\ route.source \in {"rule", "model", "fallback"}

\* What the user's words forbid, by the dictionary that knows most of them.
Forbidden ==
    LET c == Constraints(prompt)
    IN  Only(c.readOnly, {"mutation", "shell", "validation"})
          \cup Only(c.noShell, {"shell", "validation"}) \cup Only(c.noNetwork, {"web"})

Banned(category) ==
    CASE category = "mutation" -> Mutating
      [] category = "shell" -> {"run_shell"}
      [] category = "validation" -> {"run_validation"}
      [] category = "web" -> Web

Does(call) ==
    CASE call = "delete" -> {"mutation"}
      [] call = "generation" -> {"mutation"}
      [] call \in {"read", "search"} -> {"read"}
      [] OTHER -> {}

\* Whatever reply the schema admits, of those in Decisions, a route that is made
\* of it gives the turn nothing that the words of the prompt forbid, be it by the
\* policy, as a capability, as a duty or as a first call; a change that it requires
\* is one that the policy lets the turn make, and so is a validation
\* (model_router.py, route_validator.py, policy.py).  A route that the fallback or
\* CrossCheck puts in its place is the router's own and is not spoken of.
ModelIsBound ==
    routing = "done" /\ route.source = "model" =>
        /\ \A category \in Forbidden : ~Allowed(category) /\ category \notin Does(first)
        /\ route.caps \cap UNION {Banned(category) : category \in Forbidden} = {}
        /\ route.mutates => Allowed("mutation") /\ ByRoute("mutation")
        /\ route.validates => Allowed("validation") /\ ByRoute("validation")
        /\ route.external => Allowed("web")
=============================================================================
