--------------------------- MODULE ParallelTasks ---------------------------
(***************************************************************************)
(* The tool parallel_tasks (tools/builtin/task.py) and run_parallel_tasks   *)
(* (agent/parallel_orchestrator.py): sub-agents work at the same time, each *)
(* in a git worktree of its own, and their branches are merged one after    *)
(* the other on an integration branch.  A call may be cancelled, raise, or  *)
(* die with the process, and the next one finds what it has left behind.    *)
(*                                                                         *)
(* Tasks are numbered as they are in the call: names of branches and        *)
(* worktrees are made of that number, so that every call has the same ones. *)
(***************************************************************************)
EXTENDS Naturals, FiniteSets

CONSTANTS
    N,            \* tasks of a call, at most
    Overlaps,     \* pairs of tasks whose changes git cannot merge
    Concurrency,  \* max_concurrency
    MaxRuns,      \* bound: calls
    MaxMishaps    \* bound: git commands that fail or are cut off, cancellations, crashes

\* parallel_tasks takes two tasks or more.
Bounds == N \in Nat \ {0, 1} /\ MaxRuns \in Nat /\ MaxMishaps \in Nat
ASSUME ParallelAssumption == Bounds

VARIABLES
    pc,           \* where the call is
    size,         \* its number of tasks
    at,           \* the task that is prepared or merged next
    usable,       \* tasks that have a worktree
    runner,       \* task -> its sub-agent
    outcome,      \* task -> ParallelTaskOutcome.status
    integration,  \* integration_ok
    merging,      \* the task whose merge is not concluded, 0 when there is none
    \* of git
    branch,       \* task -> its branch: "none", or what was committed to it
    registered,   \* worktrees git knows of; 0 is that of the integration
    present,      \* those that are there
    merged,       \* tasks that the integration branch has
    marked,       \* those of them whose conflict was committed as it was
    unmerged,     \* files of the merge that is not concluded are in conflict
    \* history
    astray,       \* tasks whose merge --abort failed, or whose merge or commit was done but cut off
    litter,       \* tasks of which a worktree add was done but cut off, or a cleanup failed
    runs, mishaps, crashed

parallelVars == <<pc, size, at, usable, runner, outcome, integration, merging,
          branch, registered, present, merged, marked, unmerged,
          astray, litter, runs, mishaps, crashed>>
trees == <<branch, registered, present, litter>>
merges == <<merging, unmerged, merged, marked, astray>>
history == <<runs, mishaps, crashed>>

Tasks == 1..N
Call == 1..size
Idle == "idle"

ParallelInit ==
    /\ pc = Idle /\ size = 2 /\ at = 1 /\ usable = {} /\ integration = FALSE /\ merging = 0
    /\ runner = [t \in Tasks |-> "none"] /\ outcome = [t \in Tasks |-> "none"]
    /\ branch = [t \in Tasks |-> "none"] /\ registered = {} /\ present = {} /\ merged = {} /\ marked = {}
    /\ unmerged = FALSE /\ astray = {} /\ litter = {}
    /\ runs = 0 /\ mishaps = 0 /\ crashed = FALSE

\* _git gives up after its timeout: the command may have done what it does all the same.
Mishap == mishaps < MaxMishaps /\ mishaps' = mishaps + 1

Start(n) ==
    /\ pc = Idle /\ runs < MaxRuns /\ runs' = runs + 1
    /\ pc' = "prepare" /\ size' = n /\ at' = 1
    /\ usable' = {} /\ integration' = FALSE /\ merging' = 0 /\ unmerged' = FALSE /\ astray' = {}
    /\ runner' = [t \in Tasks |-> "none"] /\ outcome' = [t \in Tasks |-> "none"]
    /\ UNCHANGED <<trees, merged, marked, mishaps, crashed>>

-----------------------------------------------------------------------------
\* What is there is removed and the branch deleted, which git refuses while it knows
\* the worktree of the branch; so it does to add a worktree in that place.
Prepare ==
    /\ pc = "prepare" /\ at <= size
    /\ at' = at + 1
    /\ IF at \in registered
       THEN present' = present \ {at} /\ UNCHANGED <<usable, branch, registered, litter, mishaps>>
       ELSE \/ /\ usable' = usable \cup {at} /\ branch' = [branch EXCEPT ![at] = "base"]
               /\ registered' = registered \cup {at} /\ present' = present \cup {at}
               /\ litter' = litter \ {at} /\ UNCHANGED mishaps
            \/ /\ Mishap /\ present' = present \ {at}
               /\ branch' \in {branch, [branch EXCEPT ![at] = "none"]}
               /\ UNCHANGED <<usable, registered, litter>>
            \/ /\ Mishap /\ branch' = [branch EXCEPT ![at] = "base"]
               /\ registered' = registered \cup {at} /\ present' = present \cup {at}
               /\ litter' = litter \cup {at} /\ UNCHANGED usable
    /\ UNCHANGED <<pc, size, runner, outcome, integration, merges, runs, crashed>>

Prepared ==
    /\ pc = "prepare" /\ at > size
    /\ pc' = "run"
    /\ runner' = [t \in Tasks |-> IF t \in usable THEN "waits" ELSE "none"]
    /\ outcome' = [t \in Tasks |-> IF t \in Call \ usable THEN "error" ELSE "none"]
    /\ UNCHANGED <<size, at, usable, integration, trees, merges, history>>

\* The semaphore lets a task in.
RunnerStarts(t) ==
    /\ pc = "run" /\ runner[t] = "waits"
    /\ Cardinality({u \in Tasks : runner[u] = "runs"}) < Concurrency
    /\ runner' = [runner EXCEPT ![t] = "runs"]
    /\ UNCHANGED <<pc, size, at, usable, outcome, integration, trees, merges, history>>

RunnerRaises(t) ==
    /\ pc = "run" /\ runner[t] = "runs"
    /\ runner' = [runner EXCEPT ![t] = "done"] /\ outcome' = [outcome EXCEPT ![t] = "error"]
    /\ UNCHANGED <<pc, size, at, usable, integration, trees, merges, history>>

\* What was changed counts, whatever the sub-agent says of its success; but for a commit
\* that fails, or one that git does not tell of afterwards.
RunnerReturns(t, ok, changed) ==
    /\ pc = "run" /\ runner[t] = "runs"
    /\ runner' = [runner EXCEPT ![t] = "done"]
    /\ \/ /\ branch' = [branch EXCEPT ![t] = IF changed THEN "work" ELSE @]
          /\ outcome' = [outcome EXCEPT ![t] = IF changed THEN "applied" ELSE IF ok THEN "empty" ELSE "error"]
          /\ UNCHANGED mishaps
       \/ /\ changed /\ Mishap
          /\ outcome' = [outcome EXCEPT ![t] = IF ok THEN "empty" ELSE "error"]
          /\ branch' \in {branch, [branch EXCEPT ![t] = "work"]}
    /\ UNCHANGED <<pc, size, at, usable, integration, registered, present, litter, merges, runs, crashed>>

-----------------------------------------------------------------------------
\* The integration branch of the same base is made anew.
Integrate ==
    /\ pc = "run" /\ \A t \in Tasks : runner[t] \in {"none", "done"}
    /\ pc' = "merge" /\ at' = 1
    /\ \/ /\ 0 \notin registered
          /\ integration' = TRUE /\ merged' = {} /\ marked' = {}
          /\ registered' = registered \cup {0} /\ present' = present \cup {0}
          /\ litter' = litter \ {0} /\ UNCHANGED mishaps
       \/ /\ 0 \in registered \/ mishaps < MaxMishaps
          /\ mishaps' = IF 0 \in registered THEN mishaps ELSE mishaps + 1
          /\ present' = present \ {0}
          /\ UNCHANGED <<integration, merged, marked, registered, litter>>
       \/ /\ 0 \notin registered /\ Mishap
          /\ merged' = {} /\ marked' = {}
          /\ registered' = registered \cup {0} /\ present' = present \cup {0}
          /\ litter' = litter \cup {0} /\ UNCHANGED integration
    /\ UNCHANGED <<size, usable, runner, outcome, merging, unmerged, astray, branch, runs, crashed>>

Skip ==
    /\ pc = "merge" /\ at <= size /\ (~integration \/ outcome[at] # "applied")
    /\ at' = at + 1
    /\ UNCHANGED <<pc, size, usable, runner, outcome, integration, trees, merges, history>>

Conflicts(t) == \E u \in merged : {t, u} \in Overlaps
ToMerge == pc = "merge" /\ at <= size /\ integration /\ outcome[at] = "applied"

\* git merge, which refuses while another merge is not concluded.
Merge ==
    /\ ToMerge
    /\ IF merging = 0 /\ ~Conflicts(at)
       THEN merged' = merged \cup {at} /\ at' = at + 1 /\ UNCHANGED <<pc, merging, unmerged>>
       ELSE /\ pc' = "resolve" /\ UNCHANGED <<merged, at>>
            /\ IF merging = 0 THEN merging' = at /\ unmerged' = TRUE ELSE UNCHANGED <<merging, unmerged>>
    /\ UNCHANGED <<size, usable, runner, outcome, integration, trees, marked, astray, history>>

\* It does nothing, or is cut off before it has concluded the merge, or after.
MergeFails ==
    /\ ToMerge /\ Mishap /\ pc' = "resolve"
    /\ \/ UNCHANGED <<merging, merged, astray>>
       \/ merging = 0 /\ merging' = at /\ UNCHANGED <<merged, astray>>
       \/ /\ merging = 0 /\ ~Conflicts(at)
          /\ merged' = merged \cup {at} /\ astray' = astray \cup {at} /\ UNCHANGED merging
    /\ UNCHANGED <<size, at, usable, runner, outcome, integration, trees, marked, unmerged, runs, crashed>>

\* The resolver says that it is done; nothing looks whether it is.
Resolved(clean) ==
    /\ pc = "resolve" /\ merging # 0 /\ unmerged
    /\ pc' = "merge" /\ at' = at + 1
    /\ merged' = merged \cup {merging} /\ merging' = 0 /\ unmerged' = FALSE
    /\ marked' = IF clean THEN marked ELSE marked \cup {merging}
    /\ UNCHANGED <<size, usable, runner, outcome, integration, trees, astray, history>>

\* Mutant: the merge is left as it is.
UnresolvedStays ==
    /\ pc = "resolve"
    /\ pc' = "merge" /\ at' = at + 1
    /\ outcome' = [outcome EXCEPT ![at] = "conflict"]
    /\ UNCHANGED <<size, usable, runner, integration, trees, merges, history>>
\* There is nothing to resolve, the resolver gives up or raises, or its commit fails:
\* git merge --abort, which may fail as well, and nothing looks at that.  A commit that
\* is cut off may have concluded the merge.
Unresolved ==
    /\ pc = "resolve"
    /\ pc' = "merge" /\ at' = at + 1
    /\ outcome' = [outcome EXCEPT ![at] = "conflict"]
    /\ \/ merging' = 0 /\ unmerged' = FALSE /\ UNCHANGED <<merged, marked, astray, mishaps>>
       \/ /\ merging # 0 /\ Mishap /\ astray' = astray \cup {merging}
          /\ \/ unmerged' \in {unmerged, FALSE} /\ UNCHANGED <<merging, merged, marked>>
             \/ /\ unmerged /\ unmerged' = FALSE
                /\ merged' = merged \cup {merging} /\ merging' = 0
                /\ marked' \in {marked, marked \cup {merging}}
    /\ UNCHANGED <<size, usable, runner, integration, trees, runs, crashed>>

-----------------------------------------------------------------------------
Tracked == usable \cup IF integration THEN {0} ELSE {}

\* _Cleanup.run: what was tracked goes, but for the integration branch; prune makes git
\* forget the worktrees that are not there.  Whatever of it fails stays, unnoticed.
Cleaned(failed) ==
    /\ \E kept \in SUBSET failed, held \in SUBSET failed :
          /\ present' = (present \ Tracked) \cup (present \cap kept)
          /\ registered' = (registered \cap (present \ Tracked)) \cup (registered \cap held)
    /\ branch' = [t \in Tasks |-> IF t \in usable \ failed THEN "none" ELSE branch[t]]
    /\ litter' = litter \cup failed
Cleanable == Tracked \cup (registered \ present)

CallEnds ==
    /\ pc' = Idle /\ merging' = 0 /\ unmerged' = FALSE
    /\ UNCHANGED <<size, at, usable, outcome, integration, merged, marked, astray, runs, crashed>>

Report ==
    /\ pc = "merge" /\ at > size
    /\ \/ Cleaned({}) /\ UNCHANGED mishaps
       \/ \E failed \in SUBSET Cleanable : Cleaned(failed) /\ Mishap
    /\ CallEnds /\ UNCHANGED runner

\* The turn is cancelled while sub-agents run: gather ends them first.
Cancelled ==
    /\ (pc = "run" \/ (pc = "resolve" /\ unmerged))
    /\ Mishap
    /\ runner' = [t \in Tasks |-> IF runner[t] = "none" THEN "none" ELSE "done"]
    /\ \E failed \in SUBSET Cleanable : Cleaned(failed)
    /\ CallEnds

Crash ==
    /\ pc # Idle /\ Mishap
    /\ pc' = Idle /\ crashed' = TRUE
    /\ runner' = [t \in Tasks |-> "none"] /\ outcome' = [t \in Tasks |-> "none"]
    /\ merging' = 0 /\ unmerged' = FALSE
    /\ UNCHANGED <<size, at, usable, integration, trees, merged, marked, astray, runs>>

ParallelNext ==
    \/ \E n \in 2..N : Start(n)
    \/ Prepare \/ Prepared
    \/ \E t \in Tasks :
         \/ RunnerStarts(t) \/ RunnerRaises(t)
         \/ \E ok, changed \in BOOLEAN : RunnerReturns(t, ok, changed)
    \/ Integrate \/ Skip \/ Merge \/ MergeFails
    \/ \E clean \in BOOLEAN : Resolved(clean)
    \/ Unresolved \/ Report \/ Cancelled \/ Crash

ParallelSpec == ParallelInit /\ [][ParallelNext]_parallelVars

-----------------------------------------------------------------------------
Outcomes == {"none", "applied", "empty", "error", "conflict"}
ParallelTypeOK ==
    /\ pc \in {Idle, "prepare", "run", "merge", "resolve"} /\ size \in 2..N /\ at \in 1..(N + 1)
    /\ usable \subseteq Call /\ integration \in BOOLEAN /\ merging \in 0..N
    /\ runner \in [Tasks -> {"none", "waits", "runs", "done"}] /\ outcome \in [Tasks -> Outcomes]
    /\ branch \in [Tasks -> {"none", "base", "work"}]
    /\ registered \cup present \subseteq 0..N /\ marked \subseteq merged /\ merged \subseteq Tasks
    /\ unmerged \in BOOLEAN /\ astray \subseteq Tasks /\ litter \subseteq 0..N
    /\ runs \in 0..MaxRuns /\ mishaps \in 0..MaxMishaps /\ crashed \in BOOLEAN

Applied == {t \in Call : outcome[t] = "applied"}

\* Once merges, resolvers and aborts are through, the integration branch has the changes
\* of the tasks that are reported as applied and nothing of one reported as a conflict:
\* exactly so when no git merge, commit or merge --abort went astray (its return code is
\* not looked at, parallel_orchestrator.py:293), and otherwise with no more than the tasks
\* it went astray for, each of which may stand for one later task reported in its place.
AppliedIsIntegrated ==
    pc = "merge" /\ at > size /\ integration =>
        /\ merged \ Applied \subseteq astray
        /\ \A t \in Applied \ merged : \E u \in astray \cap merged : u < t

\* However a call ends, short of the death of the process, no worktree and no branch of a
\* task is left, but for those of which a command of the cleanup failed or a worktree add
\* was cut off after it was done; parallel_orchestrator.py:15 promises it without these.
NothingLeaks ==
    pc = Idle /\ ~crashed =>
        registered \cup present \subseteq litter /\ \A t \in Tasks \ litter : branch[t] = "none"

\* parallel_orchestrator.py:104 tells the user that the branch of each task whose
\* conflict was not resolved is kept.
ConflictsPreserved ==
    pc = Idle => \A t \in Tasks : outcome[t] = "conflict" => branch[t] = "work"
=============================================================================
