---------------------------- MODULE ProjectPlans ----------------------------
(***************************************************************************)
(* What becomes of the project plan that a language model answers:          *)
(* _coerce_plan_payload and _sanitize_plan (agent/project_planner.py), the  *)
(* quality of the result (agent/project_plan_quality.py), and the plan of   *)
(* a language strategy (generation/) that replaces one that is refused.     *)
(*                                                                         *)
(* A path is the sequence of its components and <<>> is ".".  Two files     *)
(* that end up under one path are one file.                                 *)
(***************************************************************************)
EXTENDS Naturals, Sequences, SequencesExt, FiniteSets, FiniteSetsExt

CONSTANTS
    Paths,       \* paths that an answer may name
    Roots,       \* target roots that an answer or the routing may name
    MaxFiles,    \* bound: files of an answer
    MaxAsks      \* bound: what the prompt asks for at once

VARIABLES
    planStage,   \* "asked", "answered", "sanitized", "judged", "strategy"
    answer,      \* the plan as the model wrote it
    wish,        \* what the prompt and the routing say
    project,     \* the sanitized plan; NoPlan when it is refused
    verdict      \* "acceptable", "sound", "unsound"

plansVars == <<planStage, answer, wish, project, verdict>>

NoRoot == <<"none">>
NoPlan == [root |-> NoRoot, files |-> {}, obliged |-> {}, commands |-> {}]

ForbiddenParts == {"..", ".git", ".venv", "node_modules"}
Extensionless == {"README", "Makefile"}
SourceNames == {"main.py", "cli.py"}
TestFiles == {"test_main.py"}
DocumentNames == {"README.md", "README", "REPORT.md"}

\* The commands by what the filter tells apart, in the directory where they run.
ValidationCommands == [text : {"pytest"}, cwd : Roots] \cup [text : {"pytest; rm", "make"}, cwd : {<<>>}]

\* Tests mention every obliged symbol or none.
PossibleAnswers ==
    [root : Roots, files : UNION {kSubset(k, Paths) : k \in 0..MaxFiles},
     obliged : UNION {kSubset(k, Paths) : k \in 0..1}, mentioned : BOOLEAN,
     commands : UNION {kSubset(k, ValidationCommands) : k \in 0..1}]

NoAnswer == [root |-> NoRoot, files |-> {}, obliged |-> {}, mentioned |-> FALSE, commands |-> {}]
\* asks: what the wording of the prompt asks for.
NoWish == [hint |-> NoRoot, asks |-> {}]
Wishes ==
    [hint : Roots \cup {NoRoot},
     asks : UNION {kSubset(k, {"package", "readme", "report", "tests"}) : k \in 0..MaxAsks}]
Asks(what) == what \in wish.asks

PlansInit ==
    /\ planStage = "asked" /\ answer = NoAnswer /\ wish = NoWish
    /\ project = NoPlan /\ verdict = "none"

-----------------------------------------------------------------------------
\* The request and the payload of the answer, after _coerce_plan_payload.
Receive ==
    /\ planStage = "asked" /\ planStage' = "answered"
    /\ wish' \in Wishes /\ answer' \in PossibleAnswers
    /\ UNCHANGED <<project, verdict>>

\* _safe_relative_path, _safe_root
SafePath(p) == p # <<>> /\ ToSet(p) \cap ForbiddenParts = {}
SafeRoot(r) == ToSet(r) \cap ForbiddenParts = {}

\* looks_like_planned_file_path: the last component has a suffix or is a known name.
LooksPlanned(p) == Last(p) \in SourceNames \cup TestFiles \cup DocumentNames \cup Extensionless \cup {"__init__.py", "pyproject.toml"}

\* The first of the roots that the path lies under is taken off.
Stripped(p, roots) ==
    LET under == {i \in 1..Len(roots) : roots[i] # <<>> /\ IsStrictPrefix(roots[i], p)}
    IN IF under = {} THEN p ELSE SubSeq(p, Len(roots[Min(under)]) + 1, Len(p))

\* Mutant: the root that the answer names is not looked for.
ObligedAtRoot(o, roots) == Stripped(o, <<roots[1]>>)
\* _sanitize_api_obligations
ObligedAt(o, roots) == Stripped(o, roots)

Package(root) == Last(root)                          \* _safe_python_package_name
HasLayout(files, name) ==                             \* _has_package_layout
    \E f \in files : Len(f) > 1 /\ (f[1] = name \/ (f[1] = "src" /\ Len(f) > 2 /\ f[2] = name))
Moves(f) == Len(f) = 1 /\ f[1] \in SourceNames \cup TestFiles \cup {"__init__.py"}

\* _ensure_python_package_metadata
WithMetadata(files, name) ==
    files \cup {<<"pyproject.toml">>}
          \cup IF <<"src", name, "__init__.py">> \in files THEN {} ELSE {<<name, "__init__.py">>}

\* _normalize_python_package_layout: modules at the top move into a package of the name
\* of the root.
WithLayout(files, root) ==
    IF ~Asks("package") \/ root = <<>> THEN files
    ELSE IF HasLayout(files, Package(root)) THEN WithMetadata(files, Package(root))
    ELSE WithMetadata({IF Moves(f) THEN <<Package(root)>> \o f ELSE f : f \in files}, Package(root))

\* _ensure_artifact_obligations, ensure_requested_report_artifact
WithDocuments(files) ==
    files \cup (IF Asks("readme") /\ ~(\E f \in files : Last(f) \in {"README.md", "README"}) THEN {<<"README.md">>} ELSE {})
          \cup (IF Asks("report") /\ ~(\E f \in files : Last(f) = "REPORT.md") THEN {<<"REPORT.md">>} ELSE {})

IsTest(f) == Last(f) \in TestFiles \/ f[1] = "tests"

\* _prune_untested_obligations: with tests planned, what they do not mention is dropped.
Pruned(obliged, files) ==
    IF (\E f \in files : IsTest(f)) /\ ~answer.mentioned THEN {} ELSE obliged

\* _normalize_validation_cwd, _sanitize_validation_command
SanitizedCommand(c, original, root) ==
    LET cwd == IF original # root /\ c.cwd = original THEN root
               ELSE IF root # <<>> /\ c.cwd = <<>> THEN root ELSE c.cwd
    IN IF c.text # "pytest" \/ ~(cwd = <<>> \/ SafePath(cwd)) THEN {} ELSE {[c EXCEPT !.cwd = cwd]}

\* The validators of ProjectPlan refuse what climbs out of the root.
Climbs(p) == ".." \in ToSet(p)
Parses(a) == ~Climbs(a.root) /\ \A p \in a.files \cup a.obliged : ~Climbs(p)

\* _attempt_plan, _sanitize_plan
Sanitize ==
    LET root == IF wish.hint = NoRoot THEN answer.root ELSE wish.hint
        roots == <<root, answer.root>>
        named == {Stripped(f, roots) : f \in {f \in answer.files : LooksPlanned(f)}}
        files == WithDocuments(WithLayout(named, root))
        obliged == {ObligedAt(o, roots) : o \in {o \in answer.obliged : SafePath(o)}}
    IN /\ planStage = "answered" /\ planStage' = "sanitized"
       /\ project' = IF ~Parses(answer) \/ ~SafeRoot(answer.root) \/ ~SafeRoot(root) \/ files = {} \/ \E f \in answer.files : ~SafePath(f)
                  THEN NoPlan
                  ELSE [root |-> root, files |-> files, obliged |-> Pruned(obliged, files),
                        commands |-> UNION {SanitizedCommand(c, answer.root, root) : c \in answer.commands}]
       /\ UNCHANGED <<answer, wish, verdict>>

-----------------------------------------------------------------------------
IsSource(f) == ~IsTest(f) /\ Last(f) \in SourceNames \cup {"__init__.py"}

\* project_plan_quality_errors; thin says that the public names of the sources are three or
\* more and that the planned tests use too few of them (_weak_test_errors).
Quality(p, thin) ==
    LET tests == {f \in p.files : IsTest(f)} IN
    {e \in {"no validation", "no tests", "no document", "unplanned obligation", "untested", "thin"} :
        CASE e = "no validation" -> /\ \E f \in p.files : IsSource(f)
                                    /\ Asks("tests") \/ p.obliged # {}
                                    /\ p.commands = {}
          [] e = "no tests" -> /\ \E f \in p.files : IsSource(f)
                               /\ Asks("tests") \/ p.obliged # {}
                               /\ tests = {}
          [] e = "no document" -> Asks("readme") /\ ~(\E f \in p.files : Last(f) \in DocumentNames)
          [] e = "unplanned obligation" -> ~(p.obliged \subseteq p.files)
          [] e = "untested" -> p.obliged # {} /\ (tests = {} \/ ~answer.mentioned)
          [] e = "thin" -> tests # {} /\ thin}

\* _model_plan_acceptable: a plan for a command line program in Python must have tests
\* of what it promises, too; featureful is what the prompt says of it.
Judge(featureful, thin) ==
    /\ planStage = "sanitized" /\ project # NoPlan /\ planStage' = "judged"
    /\ verdict' = IF Quality(project, thin) # {} THEN "unsound"
                  ELSE IF featureful /\ ~(answer.mentioned /\ \E f \in project.files : IsTest(f)) THEN "sound"
                  ELSE "acceptable"
    /\ UNCHANGED <<answer, wish, project>>

\* PythonProjectStrategy.create_plan and the other strategies: fixed files under the
\* root of the request, or one of their own.
StrategyFiles(package) ==
    {<<"pyproject.toml">>, <<"src", package, "__init__.py">>, <<"src", package, "main.py">>,
     <<"README.md">>, <<"tests", "test_main.py">>}
UseStrategy ==
    /\ \/ planStage = "sanitized" /\ project = NoPlan
       \/ planStage = "judged" /\ verdict = "unsound"
    /\ planStage' = "strategy" /\ verdict' = "acceptable"
    /\ project' = LET root == IF wish.hint # NoRoot /\ wish.hint # <<>> /\ SafeRoot(wish.hint) THEN wish.hint ELSE <<"generated_project">>
               IN [root |-> root, files |-> StrategyFiles(Last(root)), obliged |-> {},
                   commands |-> {[text |-> "pytest", cwd |-> root]}]
    /\ UNCHANGED <<answer, wish>>

PlansNext ==
    \/ Receive
    \/ Sanitize
    \/ \E featureful, thin \in BOOLEAN : Judge(featureful, thin)
    \/ UseStrategy
PlansSpec == PlansInit /\ [][PlansNext]_plansVars

-----------------------------------------------------------------------------
PlansTypeOK ==
    /\ planStage \in {"asked", "answered", "sanitized", "judged", "strategy"}
    /\ answer.files \subseteq Paths /\ answer.root \in Roots \cup {NoRoot} /\ wish.hint \in Roots \cup {NoRoot}
    /\ verdict \in {"none", "acceptable", "sound", "unsound"}
    /\ project.commands \subseteq ValidationCommands \cup [text : {"pytest"}, cwd : {<<"generated_project">>}]

\* Where no package layout is asked for, what the model promises of a file that it plans,
\* and tests, is promised of that file however the paths are rewritten
\* (_sanitize_api_obligations, _prune_untested_obligations).  A package layout
\* (_normalize_python_package_layout) moves files and not the promises: it is left out.
ObligationsFollow ==
    planStage \in {"sanitized", "judged"} /\ project # NoPlan /\ ~Asks("package") =>
        \A o \in answer.obliged \cap answer.files :
            LooksPlanned(o) /\ answer.mentioned =>
                Stripped(o, <<project.root, answer.root>>) \in project.obliged \cap project.files
=============================================================================
