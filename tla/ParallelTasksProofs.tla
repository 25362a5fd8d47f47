------------------------- MODULE ParallelTasksProofs -------------------------
(***************************************************************************)
(* Proofs about ParallelTasks: for any number of tasks, every relation of   *)
(* overlap, any number of calls, of mishaps and of tasks that run at once.  *)
(***************************************************************************)
EXTENDS ParallelTasks, TLAPS

-----------------------------------------------------------------------------
TaskTypes ==
    /\ size \in Nat /\ size <= N /\ at \in Nat \ {0}
    /\ usable \subseteq Tasks
    /\ outcome \in [Tasks -> Outcomes]
    /\ runner \in [Tasks -> {"none", "waits", "runs", "done"}]
    /\ branch \in [Tasks -> {"none", "base", "work"}]

\* The applied tasks among those that have had their turn.
AppliedBefore == {t \in 1..(at - 1) : outcome[t] = "applied"}

\* What the integration branch has, but for the task whose turn it is: a task that is
\* there and not reported as applied went astray, and one that is reported and not there
\* has had the merge of an earlier one that went astray concluded in its place.
MergedBefore ==
    /\ merged \ AppliedBefore \subseteq astray
    /\ \A t \in AppliedBefore \ merged : \E u \in astray \cap merged : u < t

\* A merge that is not concluded is that of the task whose turn it is, or of an earlier
\* one whose abort has failed.
Open == merging # 0 => \/ pc = "resolve" /\ merging = at
                       \/ merging \in astray /\ merging < at
MergeInv ==
    /\ pc \in {"prepare", "run"} => ~integration /\ merging = 0
    /\ pc = "resolve" => integration /\ outcome[at] = "applied"
    /\ pc \in {"merge", "resolve"} => at <= size + 1 /\ (pc = "resolve" => at <= size)
    /\ pc \in {"merge", "resolve"} => Open /\ merging \in Nat
    /\ pc = Idle => merging = 0
    /\ pc \in {"merge", "resolve"} /\ integration => MergedBefore

\* Before any crash git knows the worktrees of this call, and none between two calls, but
\* for what a cleanup or a worktree add that failed has left.
Own == usable \cup (IF integration THEN {0} ELSE {})
LeakInv ==
    /\ pc = "prepare" => usable \subseteq 1..(at - 1) /\ at <= size + 1
    /\ \A t \in Tasks : pc = "run" /\ runner[t] # "none" => t \in usable
    /\ pc # Idle => registered \subseteq Own \cup litter /\ present \subseteq Own \cup litter
                    /\ \A t \in Tasks \ (usable \cup litter) : branch[t] = "none"
    /\ pc = Idle => registered \subseteq litter /\ present \subseteq litter
                    /\ \A t \in Tasks \ litter : branch[t] = "none"

TasksInv == TaskTypes /\ MergeInv /\ (crashed \/ LeakInv)

-----------------------------------------------------------------------------
LEMMA TasksInit == ASSUME Bounds, ParallelInit PROVE TasksInv
<1>1. TaskTypes
      BY DEF Bounds, ParallelInit, TaskTypes, Tasks, Outcomes
<1>2. MergeInv
      BY DEF ParallelInit, MergeInv, Idle
<1>3. LeakInv
      BY DEF ParallelInit, LeakInv, Idle
<1> QED
    BY <1>1, <1>2, <1>3 DEF TasksInv

LEMMA StartStep ==
    ASSUME Bounds, TasksInv, NEW n \in 2..N, Start(n) PROVE TasksInv'
<1>1. TaskTypes'
      BY DEF TasksInv, Start, TaskTypes, Bounds, Outcomes, trees
<1>2. MergeInv'
      BY DEF Start, MergeInv
<1>3. LeakInv \/ crashed
      BY DEF TasksInv
<1>4. CASE LeakInv
  <2>1. LeakInv'
        BY <1>4 DEF Start, LeakInv, trees, Own, Idle, Bounds
  <2> QED
      BY <1>1, <1>2, <2>1 DEF TasksInv
<1>5. CASE crashed
      BY <1>1, <1>2, <1>5 DEF TasksInv, Start
<1> QED
    BY <1>3, <1>4, <1>5

LEMMA PrepareStep == ASSUME Bounds, TasksInv, Prepare PROVE TasksInv'
<1>0. TaskTypes /\ MergeInv
      BY DEF TasksInv
<1>1. /\ pc = "prepare" /\ at <= size /\ at' = at + 1
      /\ usable' \in {usable, usable \cup {at}}
      /\ UNCHANGED <<pc, size, runner, outcome, integration, merging, crashed>>
      BY DEF Prepare, merges
<1>2. TaskTypes'
  <2>1. branch' \in [Tasks -> {"none", "base", "work"}]
        BY <1>0 DEF Prepare, TaskTypes
  <2>2. at \in Tasks
        BY <1>0, <1>1 DEF TaskTypes, Tasks, Bounds
  <2> QED
      BY <1>0, <1>1, <2>1, <2>2 DEF TaskTypes
<1>3. MergeInv'
      BY <1>0, <1>1 DEF MergeInv
<1>4. ASSUME LeakInv PROVE LeakInv'
  <2>1. /\ usable \subseteq 1..(at - 1) /\ Own = usable
        /\ registered \subseteq usable \cup litter /\ present \subseteq usable \cup litter
        BY <1>0, <1>1, <1>4 DEF LeakInv, MergeInv, Own, Idle
  <2>2. at \notin usable /\ at \in Nat
        BY <1>0, <2>1 DEF TaskTypes
  <2>3. /\ registered' \subseteq usable' \cup litter' /\ present' \subseteq usable' \cup litter'
        /\ usable \subseteq usable'
        /\ \A t \in Tasks \ (usable' \cup litter') : branch'[t] = "none"
    <3>0. \A t \in Tasks \ (usable \cup litter) : branch[t] = "none"
          BY <1>1, <1>4 DEF LeakInv, Idle
    <3>1. CASE /\ usable' = usable \cup {at} /\ branch' = [branch EXCEPT ![at] = "base"]
               /\ registered' = registered \cup {at} /\ present' = present \cup {at}
               /\ litter' = litter \ {at}
          BY <1>0, <2>1, <3>0, <3>1 DEF TaskTypes
    <3>2. CASE /\ present' = present \ {at} /\ branch' \in {branch, [branch EXCEPT ![at] = "none"]}
               /\ UNCHANGED <<usable, registered, litter>>
          BY <1>0, <2>1, <3>0, <3>2 DEF TaskTypes
    <3>3. CASE /\ branch' = [branch EXCEPT ![at] = "base"]
               /\ registered' = registered \cup {at} /\ present' = present \cup {at}
               /\ litter' = litter \cup {at} /\ UNCHANGED usable
          BY <1>0, <2>1, <3>0, <3>3 DEF TaskTypes
    <3> QED
        BY <3>1, <3>2, <3>3 DEF Prepare
  <2>4. usable' \subseteq 1..(at' - 1) /\ at' <= size' + 1
        BY <1>0, <1>1, <2>1 DEF TaskTypes
  <2>5. Own' = usable'
        BY <1>0, <1>1 DEF MergeInv, Own
  <2> QED
      BY <1>1, <1>4, <2>3, <2>4, <2>5 DEF LeakInv, Idle
<1> QED
    BY <1>1, <1>2, <1>3, <1>4 DEF TasksInv

\* A step that leaves git, the worktrees of the call and the integration as they are.
LEMMA LeakKept ==
    ASSUME LeakInv, pc \in {"prepare", "run", "merge", "resolve"},
           pc' \in {"run", "merge", "resolve"},
           \A t \in Tasks : pc' = "run" /\ runner'[t] # "none" => t \in usable,
           UNCHANGED <<usable, integration, branch, registered, present, litter>>
    PROVE  LeakInv'
BY DEF LeakInv, Own, Idle

LEMMA PreparedStep == ASSUME Bounds, TasksInv, Prepared PROVE TasksInv'
<1>0. TaskTypes /\ MergeInv
      BY DEF TasksInv
<1>1. /\ pc = "prepare" /\ pc' = "run"
      /\ runner' = [t \in Tasks |-> IF t \in usable THEN "waits" ELSE "none"]
      /\ outcome' = [t \in Tasks |-> IF t \in Call \ usable THEN "error" ELSE "none"]
      /\ UNCHANGED <<size, at, usable, integration, merging, branch, registered, present, litter, crashed>>
      BY DEF Prepared, trees, merges, history
<1>2. TaskTypes' /\ MergeInv'
  <2>1. TaskTypes'
        BY <1>0, <1>1 DEF TaskTypes, Outcomes
  <2>2. MergeInv'
        BY <1>0, <1>1 DEF MergeInv
  <2> QED
      BY <2>1, <2>2
<1>3. ASSUME LeakInv PROVE LeakInv'
  <2>1. \A t \in Tasks : runner'[t] # "none" => t \in usable
        BY <1>1
  <2> QED
      BY <1>1, <1>3, <2>1, LeakKept
<1> QED
    BY <1>1, <1>2, <1>3 DEF TasksInv

LEMMA RunnerStep ==
    ASSUME Bounds, TasksInv, NEW t \in Tasks,
           \/ RunnerStarts(t) \/ RunnerRaises(t)
           \/ \E ok, changed \in BOOLEAN : RunnerReturns(t, ok, changed)
    PROVE  TasksInv'
<1>0. TaskTypes /\ MergeInv
      BY DEF TasksInv
<1>1. /\ pc = "run" /\ runner[t] # "none"
      /\ \E w \in {"runs", "done"} : runner' = [runner EXCEPT ![t] = w]
      /\ outcome' = outcome \/ \E o \in Outcomes : outcome' = [outcome EXCEPT ![t] = o]
      /\ branch' = branch \/ branch' = [branch EXCEPT ![t] = "work"] \/ branch' = [branch EXCEPT ![t] = @]
      /\ UNCHANGED <<pc, size, at, usable, integration, merging, registered, present, litter, crashed>>
  <2>1. CASE RunnerStarts(t)
        BY <2>1 DEF RunnerStarts, trees, merges, history
  <2>2. CASE RunnerRaises(t)
        BY <2>2 DEF RunnerRaises, trees, merges, history, Outcomes
  <2>3. ASSUME NEW ok \in BOOLEAN, NEW changed \in BOOLEAN, RunnerReturns(t, ok, changed)
        PROVE  /\ pc = "run" /\ runner[t] # "none"
               /\ \E w \in {"runs", "done"} : runner' = [runner EXCEPT ![t] = w]
               /\ \E o \in Outcomes : outcome' = [outcome EXCEPT ![t] = o]
               /\ branch' = branch \/ branch' = [branch EXCEPT ![t] = "work"] \/ branch' = [branch EXCEPT ![t] = @]
               /\ UNCHANGED <<pc, size, at, usable, integration, merging, registered, present, litter, crashed>>
        BY <2>3 DEF RunnerReturns, Outcomes, merges
  <2> QED
      BY <2>1, <2>2, <2>3
<1>2. TaskTypes'
  <2>1. runner' \in [Tasks -> {"none", "waits", "runs", "done"}]
        BY <1>0, <1>1 DEF TaskTypes
  <2>2. outcome' \in [Tasks -> Outcomes]
        BY <1>0, <1>1 DEF TaskTypes
  <2>3. branch' \in [Tasks -> {"none", "base", "work"}]
        BY <1>0, <1>1 DEF TaskTypes
  <2> QED
      BY <1>0, <1>1, <2>1, <2>2, <2>3 DEF TaskTypes
<1>3. MergeInv'
      BY <1>0, <1>1 DEF MergeInv
<1>4. ASSUME LeakInv PROVE LeakInv'
  <2>1. t \in usable
        BY <1>1, <1>4 DEF LeakInv
  <2>2. \A u \in Tasks : u # t => branch'[u] = branch[u] /\ runner'[u] = runner[u]
        BY <1>0, <1>1 DEF TaskTypes
  <2> QED
      BY <1>1, <1>4, <2>1, <2>2 DEF LeakInv, Own, Idle
<1> QED
    BY <1>1, <1>2, <1>3, <1>4 DEF TasksInv

LEMMA IntegrateStep == ASSUME Bounds, TasksInv, Integrate PROVE TasksInv'
<1>0. TaskTypes /\ MergeInv
      BY DEF TasksInv
<1>1. /\ pc = "run" /\ pc' = "merge" /\ at' = 1
      /\ \/ /\ integration' = TRUE /\ merged' = {} /\ litter' = litter \ {0}
            /\ registered' = registered \cup {0} /\ present' = present \cup {0}
         \/ present' = present \ {0} /\ UNCHANGED <<integration, registered, litter>>
         \/ /\ UNCHANGED integration /\ litter' = litter \cup {0}
            /\ registered' = registered \cup {0} /\ present' = present \cup {0}
      /\ UNCHANGED <<size, usable, runner, outcome, merging, branch, crashed>>
      BY DEF Integrate
<1>2. TaskTypes'
      BY <1>0, <1>1 DEF TaskTypes
<1>3. ASSUME LeakInv PROVE LeakInv'
  <2>1. ~integration /\ Own = usable
        BY <1>0, <1>1 DEF MergeInv, Own
  <2>2. 0 \notin Tasks
        BY DEF Tasks
  <2> QED
      BY <1>1, <1>3, <2>1, <2>2 DEF LeakInv, Own, Idle
<1>4. MergeInv'
  <2>1. (1..(at - 1))' = {}
        BY <1>1
  <2> QED
      BY <1>0, <1>1, <2>1 DEF MergeInv, MergedBefore, Open, AppliedBefore, TaskTypes, Idle
<1> QED
    BY <1>1, <1>2, <1>3, <1>4 DEF TasksInv

-----------------------------------------------------------------------------
(* The merges.                                                             *)

\* The turn of one more task is over.
LEMMA NextApplied ==
    ASSUME TaskTypes, at <= size, at' = at + 1,
           \A t \in 1..(at - 1) : outcome'[t] = outcome[t]
    PROVE  AppliedBefore' = AppliedBefore \cup (IF outcome'[at] = "applied" THEN {at} ELSE {})
<1>1. 1..(at' - 1) = (1..(at - 1)) \cup {at}
      BY DEF TaskTypes
<1> QED
    BY <1>1 DEF AppliedBefore

LEMMA MergeTypes ==
    ASSUME Bounds, TaskTypes, pc \in {"merge", "resolve"}, at <= size,
           at' \in {at, at + 1}, UNCHANGED <<size, usable, runner, branch>>,
           outcome' = outcome \/ outcome' = [outcome EXCEPT ![at] = "conflict"]
    PROVE  /\ TaskTypes' /\ at \in Tasks
           /\ \A t \in 1..(at - 1) : outcome'[t] = outcome[t]
           /\ outcome' # outcome => outcome'[at] # "applied"
<1>1. at \in Tasks
      BY DEF TaskTypes, Tasks, Bounds
<1>2. outcome' \in [Tasks -> Outcomes]
      BY DEF TaskTypes, Outcomes
<1>3. \A t \in 1..(at - 1) : outcome'[t] = outcome[t]
      BY DEF TaskTypes, Tasks, Bounds
<1> QED
    BY <1>1, <1>2, <1>3 DEF TaskTypes

\* What a turn does to the branch and to the merge that is not concluded: no more than
\* to add the task, or one that went astray, and to report it as a conflict otherwise.
LEMMA TurnMerged ==
    ASSUME Bounds, TaskTypes, MergeInv, pc \in {"merge", "resolve"}, integration, at <= size,
           at' = at + 1, NEW added, merged' = merged \cup added, astray \subseteq astray',
           \A t \in 1..(at - 1) : outcome'[t] = outcome[t],
           added \subseteq {at} \cup astray',
           at \in added => outcome'[at] = "applied" \/ at \in astray',
           outcome'[at] = "applied" => \/ at \in added
                                       \/ \E u \in astray' \cap added : u < at
    PROVE  MergedBefore'
<1>1. /\ MergedBefore /\ at \in Nat
      /\ AppliedBefore' = AppliedBefore \cup (IF outcome'[at] = "applied" THEN {at} ELSE {})
      BY NextApplied DEF MergeInv, TaskTypes
<1>2. merged' \ AppliedBefore' \subseteq astray'
      BY <1>1 DEF MergedBefore
<1>3. \A t \in AppliedBefore' \ merged' : \E u \in astray' \cap merged' : u < t
  <2> SUFFICES ASSUME NEW t \in AppliedBefore' \ merged' PROVE \E u \in astray' \cap merged' : u < t
      OBVIOUS
  <2>1. CASE t \in AppliedBefore
    <3>1. PICK u \in astray \cap merged : u < t
          BY <1>1, <2>1 DEF MergedBefore
    <3> QED
        BY <3>1
  <2>2. CASE t = at /\ outcome'[at] = "applied"
        BY <2>2
  <2> QED
      BY <1>1, <2>1, <2>2
<1> QED
    BY <1>2, <1>3 DEF MergedBefore

LEMMA MergeStep ==
    ASSUME Bounds, TasksInv,
           \/ Skip \/ Merge \/ MergeFails \/ Unresolved
           \/ \E clean \in BOOLEAN : Resolved(clean)
    PROVE  TasksInv'
<1>0. TaskTypes /\ MergeInv
      BY DEF TasksInv
<1>1. /\ pc \in {"merge", "resolve"} /\ pc' \in {"merge", "resolve"} /\ at <= size
      /\ at' \in {at, at + 1}
      /\ outcome' = outcome \/ outcome' = [outcome EXCEPT ![at] = "conflict"]
      /\ UNCHANGED <<size, usable, runner, integration, branch, registered, present, litter, crashed>>
  <2>1. CASE Skip
        BY <2>1 DEF Skip, trees, history
  <2>2. CASE Merge
        BY <2>2 DEF Merge, ToMerge, trees, history
  <2>3. CASE MergeFails
        BY <2>3 DEF MergeFails, ToMerge, trees
  <2>4. CASE Unresolved
        BY <1>0, <2>4 DEF Unresolved, trees, MergeInv
  <2>5. CASE \E clean \in BOOLEAN : Resolved(clean)
        BY <1>0, <2>5 DEF Resolved, trees, history, MergeInv
  <2> QED
      BY <2>1, <2>2, <2>3, <2>4, <2>5
<1>2. /\ TaskTypes' /\ at \in Tasks /\ at \in Nat \ {0} /\ size \in Nat
      /\ \A t \in 1..(at - 1) : outcome'[t] = outcome[t]
      BY <1>0, <1>1, MergeTypes DEF TaskTypes
<1>3. Open /\ merging \in Nat
      BY <1>0, <1>1 DEF MergeInv
<1>4. outcome' = [outcome EXCEPT ![at] = "conflict"] => outcome'[at] # "applied"
      BY <1>0, <1>2 DEF TaskTypes
<1>5. MergeInv'
  <2>1. CASE Skip
    <3>1. /\ pc = "merge" /\ pc' = "merge" /\ at' = at + 1 /\ outcome' = outcome
          /\ UNCHANGED <<merged, merging, astray>>
          /\ integration => outcome'[at] # "applied"
          BY <2>1 DEF Skip, merges
    <3>2. integration => MergedBefore'
          BY <1>0, <1>1, <1>2, <3>1, TurnMerged, merged = merged \cup {}
    <3>3. Open'
          BY <1>2, <1>3, <3>1 DEF Open
    <3> QED
        BY <1>1, <1>2, <1>3, <3>1, <3>2, <3>3 DEF MergeInv, Idle
  <2>2. CASE Merge
    <3>1. /\ pc = "merge" /\ integration /\ outcome[at] = "applied" /\ outcome' = outcome /\ astray' = astray
          BY <2>2 DEF Merge, ToMerge
    <3>2. CASE merged' = merged \cup {at} /\ at' = at + 1 /\ merging = 0 /\ UNCHANGED <<pc, merging>>
      <4>1. MergedBefore'
            BY <1>0, <1>1, <1>2, <3>1, <3>2, TurnMerged
      <4> QED
          BY <1>1, <1>2, <3>1, <3>2, <4>1 DEF MergeInv, Open, Idle
    <3>3. CASE pc' = "resolve" /\ merging' \in {merging, at} /\ merged' = merged /\ at' = at
      <4>1. MergedBefore'
            BY <1>0, <1>1, <3>1, <3>3 DEF MergeInv, MergedBefore, AppliedBefore
      <4>2. Open' /\ merging' \in Nat
            BY <1>2, <1>3, <3>1, <3>3 DEF Open
      <4> QED
          BY <1>1, <1>2, <3>1, <3>3, <4>1, <4>2 DEF MergeInv, Idle
    <3> QED
        BY <2>2, <3>2, <3>3 DEF Merge
  <2>3. CASE MergeFails
    <3>1. /\ pc = "merge" /\ pc' = "resolve" /\ integration /\ outcome[at] = "applied" /\ outcome' = outcome
          /\ at' = at /\ merging' \in {merging, at}
          /\ \/ UNCHANGED <<merged, astray>>
             \/ merged' = merged \cup {at} /\ astray' = astray \cup {at} /\ merging' = merging
          BY <2>3 DEF MergeFails, ToMerge
    <3>2. MergedBefore /\ AppliedBefore' = AppliedBefore
          BY <1>0, <3>1 DEF MergeInv, AppliedBefore
    <3>3. MergedBefore'
      <4>1. merged' \ AppliedBefore' \subseteq astray'
            BY <3>1, <3>2 DEF MergedBefore
      <4>2. merged \subseteq merged' /\ astray \subseteq astray'
            BY <3>1
      <4> QED
          BY <3>2, <4>1, <4>2 DEF MergedBefore
    <3>4. Open' /\ merging' \in Nat
          BY <1>2, <1>3, <3>1 DEF Open
    <3> QED
        BY <1>1, <1>2, <3>1, <3>3, <3>4 DEF MergeInv, Idle
  <2>4. CASE Unresolved
    <3>1. /\ pc = "resolve" /\ pc' = "merge" /\ at' = at + 1 /\ integration /\ outcome'[at] # "applied"
          BY <1>0, <1>4, <2>4 DEF Unresolved, MergeInv
    <3>2. /\ astray \subseteq astray' /\ astray' \subseteq astray \cup {merging}
          /\ merging' # 0 => merging' = merging /\ merging \in astray'
          /\ merging' \in Nat
          /\ merged' = merged \/ (merged' = merged \cup {merging} /\ merging \in astray')
      <4>1. CASE merging' = 0 /\ UNCHANGED <<merged, astray>>
            BY <4>1
      <4>2. CASE astray' = astray \cup {merging} /\ UNCHANGED <<merging, merged>>
            BY <1>3, <4>2
      <4>3. CASE astray' = astray \cup {merging} /\ merged' = merged \cup {merging} /\ merging' = 0
            BY <4>3
      <4> QED
          BY <2>4, <4>1, <4>2, <4>3 DEF Unresolved
    <3>3. MergedBefore'
      <4>1. CASE merged' = merged \cup {}
            BY <1>0, <1>1, <1>2, <3>1, <3>2, <4>1, TurnMerged
      <4>2. CASE merged' = merged \cup {merging} /\ merging \in astray'
            BY <1>0, <1>1, <1>2, <3>1, <3>2, <4>2, TurnMerged
      <4> QED
          BY <3>2, <4>1, <4>2
    <3>4. Open'
          BY <1>2, <1>3, <3>1, <3>2 DEF Open
    <3> QED
        BY <1>1, <1>2, <3>1, <3>2, <3>3, <3>4 DEF MergeInv, Idle
  <2>5. CASE \E clean \in BOOLEAN : Resolved(clean)
    <3>1. /\ pc = "resolve" /\ pc' = "merge" /\ at' = at + 1 /\ integration /\ outcome' = outcome
          /\ outcome[at] = "applied" /\ merged' = merged \cup {merging} /\ merging # 0 /\ merging' = 0
          /\ astray' = astray
          BY <1>0, <2>5 DEF Resolved, MergeInv
    <3>2. merging = at \/ (merging \in astray /\ merging < at)
          BY <1>3, <3>1 DEF Open
    <3>3. MergedBefore'
          BY <1>0, <1>1, <1>2, <3>1, <3>2, TurnMerged
    <3> QED
        BY <1>1, <1>2, <3>1, <3>3 DEF MergeInv, Open, Idle
  <2> QED
      BY <2>1, <2>2, <2>3, <2>4, <2>5
<1>6. ASSUME LeakInv PROVE LeakInv'
      BY <1>1, <1>6, LeakKept
<1> QED
    BY <1>1, <1>2, <1>5, <1>6 DEF TasksInv

-----------------------------------------------------------------------------
(* The end of a call.                                                      *)

LEMMA EndStep == ASSUME Bounds, TasksInv, Report \/ Cancelled PROVE TasksInv'
<1>0. TaskTypes /\ MergeInv
      BY DEF TasksInv
<1>1. /\ pc # Idle /\ pc' = Idle /\ merging' = 0 /\ \E failed : Cleaned(failed)
      /\ runner' = runner \/ runner' = [t \in Tasks |-> IF runner[t] = "none" THEN "none" ELSE "done"]
      /\ UNCHANGED <<size, at, usable, outcome, integration, crashed>>
  <2>1. CASE Report
        BY <2>1 DEF Report, CallEnds, Idle
  <2>2. CASE Cancelled
        BY <2>2 DEF Cancelled, CallEnds, Idle
  <2> QED
      BY <2>1, <2>2
<1>a. PICK failed : Cleaned(failed)
      BY <1>1
<1>b. /\ present' \subseteq (present \ Tracked) \cup failed /\ registered' \subseteq (registered \ Tracked) \cup failed
      /\ branch' = [t \in Tasks |-> IF t \in usable \ failed THEN "none" ELSE branch[t]]
      /\ litter' = litter \cup failed
  <2>1. PICK kept \in SUBSET failed, held \in SUBSET failed :
          /\ present' = (present \ Tracked) \cup (present \cap kept)
          /\ registered' = (registered \cap (present \ Tracked)) \cup (registered \cap held)
        BY <1>a, Zenon DEF Cleaned
  <2>2. /\ branch' = [t \in Tasks |-> IF t \in usable \ failed THEN "none" ELSE branch[t]]
        /\ litter' = litter \cup failed
        BY <1>a, Zenon DEF Cleaned
  <2> QED
      BY <2>1, <2>2
<1>2. TaskTypes'
  <2>1. branch' \in [Tasks -> {"none", "base", "work"}]
        BY <1>0, <1>b DEF TaskTypes
  <2>2. runner' \in [Tasks -> {"none", "waits", "runs", "done"}]
        BY <1>0, <1>1 DEF TaskTypes
  <2> QED
      BY <1>0, <1>1, <2>1, <2>2 DEF TaskTypes
<1>3. MergeInv'
      BY <1>1 DEF MergeInv, Idle
<1>4. ASSUME LeakInv PROVE LeakInv'
  <2>1. /\ present \subseteq Tracked \cup litter /\ registered \subseteq Tracked \cup litter
        /\ \A t \in Tasks \ (usable \cup litter) : branch[t] = "none"
        BY <1>1, <1>4 DEF LeakInv, Own, Tracked
  <2>2. present' \subseteq litter' /\ registered' \subseteq litter'
        BY <1>b, <2>1
  <2>3. \A t \in Tasks \ litter' : branch'[t] = "none"
        BY <1>b, <2>1
  <2> QED
      BY <1>1, <2>2, <2>3 DEF LeakInv, Idle
<1> QED
    BY <1>1, <1>2, <1>3, <1>4 DEF TasksInv

LEMMA CrashStep == ASSUME Bounds, TasksInv, Crash PROVE TasksInv'
<1>1. TaskTypes'
      BY DEF Crash, trees, TasksInv, TaskTypes, Outcomes
<1>2. MergeInv' /\ crashed'
      BY DEF Crash, MergeInv, Idle
<1> QED
    BY <1>1, <1>2 DEF TasksInv

LEMMA TasksStep == ASSUME Bounds, TasksInv, [ParallelNext]_parallelVars PROVE TasksInv'
<1>1. CASE UNCHANGED parallelVars
      BY <1>1 DEF parallelVars, TasksInv, TaskTypes, MergeInv, MergedBefore, Open, AppliedBefore, LeakInv, Own
<1> QED
    BY <1>1, StartStep, PrepareStep, PreparedStep, RunnerStep, IntegrateStep, MergeStep, EndStep, CrashStep
    DEF ParallelNext

LEMMA TasksInvariant == ParallelSpec => []TasksInv
<1>0. Bounds
      BY ParallelAssumption
<1>1. ParallelInit => TasksInv
      BY <1>0, TasksInit
<1>2. TasksInv /\ [ParallelNext]_parallelVars => TasksInv'
      BY <1>0, TasksStep
<1> QED
    BY <1>1, <1>2, PTL DEF ParallelSpec

\* Whichever merges conflict, and however their resolution ends, the integration branch
\* has in the end the tasks that are reported as applied, and no other, when no git merge,
\* commit or merge --abort went astray; otherwise what it has and the report does not tell
\* are tasks it went astray for (parallel_orchestrator.py:271-295).
THEOREM AppliedIsIntegratedCorrect == ParallelSpec => []AppliedIsIntegrated
<1>1. TasksInv => AppliedIsIntegrated
  <2> SUFFICES ASSUME TasksInv, pc = "merge", at > size, integration
               PROVE  /\ merged \ Applied \subseteq astray
                      /\ \A t \in Applied \ merged : \E u \in astray \cap merged : u < t
      BY DEF AppliedIsIntegrated
  <2>1. at = size + 1 /\ MergedBefore /\ size \in Nat
        BY DEF TasksInv, MergeInv, TaskTypes
  <2>2. 1..(at - 1) = Call
        BY <2>1 DEF Call
  <2>3. Applied = AppliedBefore
        BY <2>2 DEF Applied, AppliedBefore
  <2> QED
      BY <2>1, <2>3 DEF MergedBefore
<1> QED
    BY <1>1, TasksInvariant, PTL

\* A call that ends, reported or cancelled at any moment, leaves no worktree and no
\* branch of a task, as long as no process has died, but for the tasks of which a command
\* of the cleanup failed or a worktree add was cut off (parallel_orchestrator.py:117,168).
THEOREM NothingLeaksCorrect == ParallelSpec => []NothingLeaks
<1>1. TasksInv => NothingLeaks
      BY DEF TasksInv, LeakInv, NothingLeaks
<1> QED
    BY <1>1, TasksInvariant, PTL

-----------------------------------------------------------------------------
(* The types of ParallelTasks: a resolver works at a task of the call.      *)

TaskFlags == integration \in BOOLEAN /\ crashed \in BOOLEAN /\ unmerged \in BOOLEAN
TaskPlaces ==
    /\ pc \in {Idle, "prepare", "run", "merge", "resolve"}
    /\ size \in 2..N /\ at \in 1..(size + 1) /\ usable \subseteq 1..size /\ merging \in 0..N
    /\ pc = "resolve" => at <= size
TaskTrees ==
    /\ registered \subseteq 0..N /\ present \subseteq 0..N
    /\ marked \subseteq merged /\ merged \subseteq 1..N
    /\ astray \subseteq 1..N /\ litter \subseteq 0..N
TaskBounds == runs \in 0..MaxRuns /\ mishaps \in 0..MaxMishaps
ParallelTypes == TaskFlags /\ TaskPlaces /\ TaskTrees /\ TaskBounds

LEMMA ParallelTypesHold == ASSUME TasksInv, ParallelTypes PROVE ParallelTypeOK
<1>1. TaskTypes
  BY DEF TasksInv
<1>2. at \in 1..(N + 1)
  BY ParallelAssumption DEF Bounds, ParallelTypes, TaskPlaces
<1>3. usable \subseteq Call /\ registered \cup present \subseteq 0..N /\ merged \subseteq Tasks /\ astray \subseteq Tasks
  BY DEF ParallelTypes, TaskPlaces, TaskTrees, Call, Tasks
<1> QED BY <1>1, <1>2, <1>3, Zenon DEF TaskTypes, ParallelTypes, TaskFlags, TaskPlaces, TaskTrees, TaskBounds,
                                      ParallelTypeOK

LEMMA ParallelTypesStart == ASSUME ParallelInit PROVE ParallelTypes
<1>1. TaskFlags
  BY Zenon DEF ParallelInit, TaskFlags
<1>2. TaskPlaces /\ TaskTrees /\ TaskBounds
  BY ParallelAssumption DEF Bounds, ParallelInit, TaskPlaces, TaskTrees, TaskBounds, Idle
<1> QED BY <1>1, <1>2 DEF ParallelTypes

LEMMA TaskFlagsStep == ASSUME TaskFlags, [ParallelNext]_parallelVars PROVE TaskFlags'
<1>1. CASE UNCHANGED <<integration, crashed, unmerged>>
  BY <1>1, Zenon DEF TaskFlags
<1>2. ASSUME NEW n, Start(n) PROVE TaskFlags'
  BY <1>2, Zenon DEF TaskFlags, Start
<1>3. ASSUME Integrate PROVE TaskFlags'
  BY <1>3, Zenon DEF TaskFlags, Integrate
<1>4. ASSUME Crash PROVE TaskFlags'
  BY <1>4, Zenon DEF TaskFlags, Crash
<1>5. ASSUME NEW t, NEW ok, NEW changed, RunnerStarts(t) \/ RunnerRaises(t) \/ RunnerReturns(t, ok, changed)
      PROVE  UNCHANGED <<integration, crashed, unmerged>>
  BY <1>5, Zenon DEF RunnerStarts, RunnerRaises, RunnerReturns, history, merges
<1>6. ASSUME Prepare \/ Prepared \/ Skip PROVE UNCHANGED <<integration, crashed, unmerged>>
  BY <1>6, Zenon DEF Prepare, Prepared, Skip, history, merges
<1>7. ASSUME NEW clean, Merge \/ MergeFails \/ Resolved(clean) \/ Unresolved
      PROVE  UNCHANGED <<integration, crashed>> /\ unmerged' \in {unmerged, TRUE, FALSE}
  BY <1>7, Zenon DEF Merge, MergeFails, Resolved, Unresolved, history
<1>8. ASSUME Report \/ Cancelled PROVE UNCHANGED <<integration, crashed>> /\ unmerged' = FALSE
  BY <1>8, Zenon DEF Report, Cancelled, CallEnds
<1>9. CASE UNCHANGED parallelVars
  BY <1>9, Zenon DEF parallelVars, TaskFlags
<1> QED BY <1>1, <1>2, <1>3, <1>4, <1>5, <1>6, <1>7, <1>8, <1>9, Zenon DEF ParallelNext, TaskFlags

LEMMA TaskRangesStep ==
    ASSUME TaskPlaces, TaskTrees, TaskBounds, [ParallelNext]_parallelVars
    PROVE  TaskPlaces' /\ TaskTrees' /\ TaskBounds'
<1>0. Bounds
  BY ParallelAssumption
<1> USE <1>0 DEF Bounds, TaskPlaces, TaskTrees, TaskBounds, Idle
<1>1. ASSUME NEW n \in 2..N, Start(n) PROVE TaskPlaces' /\ TaskTrees' /\ TaskBounds'
  BY <1>1 DEF Start, trees
<1>2. CASE Prepare
  <2>1. /\ pc = "prepare" /\ at <= size /\ at' = at + 1
        /\ UNCHANGED <<pc, size, merging, merged, marked, astray, runs>>
    BY <1>2 DEF Prepare, merges
  <2>2. usable' \subseteq usable \cup {at}
    BY <1>2 DEF Prepare
  <2>3. /\ registered' \subseteq registered \cup {at} /\ present' \subseteq present \cup {at}
        /\ litter' \subseteq litter \cup {at}
    BY <1>2 DEF Prepare
  <2>4. mishaps' = mishaps \/ Mishap
    BY <1>2 DEF Prepare
  <2>5. TaskPlaces'
    BY <2>1, <2>2
  <2>6. TaskTrees'
    BY <2>1, <2>3
  <2>7. TaskBounds'
    BY <2>1, <2>4 DEF Mishap
  <2> QED BY <2>5, <2>6, <2>7
<1>3. CASE Prepared \/ Skip
  <2>1. /\ UNCHANGED <<size, usable, trees, merges, history>> /\ pc' \in {"run", "merge"} /\ at' \in {at, at + 1}
        /\ at' = at \/ at <= size
    BY <1>3 DEF Prepared, Skip
  <2> QED BY <2>1 DEF trees, merges, history
<1>4. ASSUME NEW t, RunnerStarts(t) \/ RunnerRaises(t) PROVE TaskPlaces' /\ TaskTrees' /\ TaskBounds'
  BY <1>4 DEF RunnerStarts, RunnerRaises, trees, merges, history
<1>5. ASSUME NEW t, NEW ok, NEW changed, RunnerReturns(t, ok, changed) PROVE TaskPlaces' /\ TaskTrees' /\ TaskBounds'
  BY <1>5 DEF RunnerReturns, Mishap, merges
<1>6. CASE Integrate
  <2>1. pc' = "merge" /\ at' = 1 /\ UNCHANGED <<size, usable, merging, astray, runs>>
    BY <1>6 DEF Integrate
  <2>2. /\ registered' \subseteq registered \cup {0} /\ present' \subseteq present \cup {0}
        /\ litter' \subseteq litter \cup {0}
    BY <1>6 DEF Integrate
  <2>3. (merged' = {} /\ marked' = {}) \/ UNCHANGED <<merged, marked>>
    BY <1>6 DEF Integrate
  <2>4. mishaps' = mishaps \/ (mishaps < MaxMishaps /\ mishaps' = mishaps + 1)
    BY <1>6 DEF Integrate, Mishap
  <2>5. TaskPlaces'
    BY <2>1
  <2>6. TaskTrees'
    <3>1. registered' \subseteq 0..N /\ present' \subseteq 0..N /\ litter' \subseteq 0..N
      BY <2>2
    <3>2. marked' \subseteq merged' /\ merged' \subseteq 1..N /\ astray' \subseteq 1..N
      BY <2>1, <2>3, Zenon
    <3> QED BY <3>1, <3>2
  <2>7. TaskBounds'
    BY <2>1, <2>4
  <2> QED BY <2>5, <2>6, <2>7
<1>7. CASE Merge \/ MergeFails
  <2>1. /\ pc = "merge" /\ at <= size /\ at \in 1..N
        /\ UNCHANGED <<size, usable, registered, present, litter, marked, runs>>
    BY <1>7 DEF Merge, MergeFails, ToMerge, history, trees
  <2>2. /\ pc' = "merge" \/ (pc' = "resolve" /\ at' = at)
        /\ at' \in {at, at + 1} /\ merging' \in {merging, at}
    BY <1>7, <2>1 DEF Merge, MergeFails
  <2>3. merged' \in {merged, merged \cup {at}} /\ astray' \in {astray, astray \cup {at}}
    BY <1>7 DEF Merge, MergeFails
  <2>4. mishaps' = mishaps \/ Mishap
    BY <1>7 DEF Merge, MergeFails, history
  <2>5. TaskPlaces'
    BY <2>1, <2>2
  <2>6. TaskTrees'
    BY <2>1, <2>3
  <2>7. TaskBounds'
    BY <2>1, <2>4 DEF Mishap
  <2> QED BY <2>5, <2>6, <2>7
<1>8. ASSUME NEW clean, Resolved(clean) \/ Unresolved PROVE TaskPlaces' /\ TaskTrees' /\ TaskBounds'
  <2>1. /\ pc = "resolve" /\ pc' = "merge" /\ at' = at + 1
        /\ UNCHANGED <<size, usable, registered, present, litter, runs>>
    BY <1>8 DEF Resolved, Unresolved, history, trees
  <2>2. /\ merging' \in {0, merging}
        /\ \/ UNCHANGED <<merged, marked>>
           \/ merging # 0 /\ merged' = merged \cup {merging} /\ marked' \in {marked, marked \cup {merging}}
        /\ astray' = astray \/ (merging # 0 /\ astray' = astray \cup {merging})
    BY <1>8 DEF Resolved, Unresolved
  <2>3. mishaps' = mishaps \/ Mishap
    BY <1>8 DEF Resolved, Unresolved, history
  <2>4. TaskPlaces'
    BY <2>1, <2>2
  <2>5. TaskTrees'
    <3>1. merging # 0 => merging \in 1..N
      OBVIOUS
    <3> QED BY <2>1, <2>2, <3>1
  <2>6. TaskBounds'
    BY <2>1, <2>3 DEF Mishap
  <2> QED BY <2>4, <2>5, <2>6
<1>9. CASE Report \/ Cancelled
  <2>0. PICK failed \in SUBSET Cleanable : Cleaned(failed)
    <3>1. {} \in SUBSET Cleanable
      OBVIOUS
    <3> QED BY <1>9, <3>1, Zenon DEF Report, Cancelled
  <2>1. pc' = Idle /\ UNCHANGED <<size, at, usable, merged, marked, astray, runs>> /\ merging' = 0
    BY <1>9 DEF Report, Cancelled, CallEnds
  <2>2. registered' \subseteq registered /\ present' \subseteq present
    BY <2>0 DEF Cleaned
  <2>3. litter' \subseteq 0..N
    <3>1. Cleanable \subseteq 0..N
      BY DEF Cleanable, Tracked
    <3>2. litter' = litter \cup failed
      BY <2>0, Zenon DEF Cleaned
    <3> QED BY <2>0, <3>1, <3>2
  <2>4. mishaps' = mishaps \/ Mishap
    BY <1>9 DEF Report, Cancelled
  <2>5. TaskPlaces'
    BY <2>1
  <2>6. TaskTrees' /\ TaskBounds'
    BY <2>1, <2>2, <2>3, <2>4 DEF Mishap
  <2> QED BY <2>5, <2>6
<1>10. CASE Crash
  BY <1>10 DEF Crash, Mishap, trees
<1>11. CASE UNCHANGED parallelVars
  BY <1>11 DEF parallelVars
<1> QED BY <1>1, <1>2, <1>3, <1>4, <1>5, <1>6, <1>7, <1>8, <1>9, <1>10, <1>11 DEF ParallelNext

LEMMA ParallelTypesStep == ASSUME ParallelTypes, [ParallelNext]_parallelVars PROVE ParallelTypes'
BY TaskFlagsStep, TaskRangesStep, Zenon DEF ParallelTypes
=============================================================================
