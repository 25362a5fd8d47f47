---------------------------- MODULE Checkpoints ----------------------------
(***************************************************************************)
(* The checkpoints that /rewind goes back to (workspace/checkpoint_store.py *)
(* with its callers in runtime.py, tools/executor.py and the slash         *)
(* commands): one numbered group of copies per turn, made file by file     *)
(* before write_file, patch_file and delete_path, and a restore that       *)
(* consumes the newest group.                                              *)
(*                                                                         *)
(* File operations are steps of their own where a crash between two of     *)
(* them, or the failure of one, leaves something behind.                   *)
(***************************************************************************)
EXTENDS Integers, FiniteSets, FiniteSetsExt

CONSTANTS
    Files,      \* the files of the workspace
    Contents,   \* what a file may hold
    Absent,     \* what a missing file holds
    NoFile,     \* no tool call is under way
    Unknown,    \* history: what a file held is anybody's guess
    Keep,       \* _prune(keep=20)
    Textual,    \* the Textual interface, which takes /rewind during a turn
    MaxTurns,   \* bound: turns
    MaxFaults   \* bound: crashes, file operations that fail, edits by others

ASSUME ConstantsAssumption ==
    /\ Absent \notin Contents /\ Unknown \notin Contents \cup {Absent}
    /\ NoFile \notin Files /\ Keep \in Nat \ {0} /\ Textual \in BOOLEAN /\ MaxTurns \in Nat /\ MaxFaults \in Nat

NoGroup == 0
State == Contents \cup {Absent}

VARIABLES
    disk,       \* the files
    groups,     \* .allCode/checkpoints: cp_<number> with its meta.json and copies
    current,    \* CheckpointStore._current
    recorded,   \* CheckpointStore._recorded
    pc,         \* where the process is
    target,     \* the file of the tool call
    todo,       \* entries that the restore has not come to
    back,       \* where the restore returns to
    \* history
    turn,       \* number of the turn
    faults,     \* what has gone wrong so far
    began,      \* the files when the turn began
    strayed,    \* files that others than the checkpointed tools changed in the turn
    disturbed,  \* a step of the snapshots failed, or the turn was rewound under way
    past        \* of each group: its turn, its files before the turn, failed copies

turnHistory == <<turn, began, strayed, disturbed>>
vars == <<disk, groups, current, recorded, pc, target, todo, back, turnHistory, past, faults>>

Group == [meta : {"none", "ok", "torn"}, entries : UNION {[S -> BOOLEAN] : S \in SUBSET Files},
          blobs : UNION {[S -> Contents] : S \in SUBSET Files}]

Put(f, x, v) == [y \in DOMAIN f \cup {x} |-> IF y = x THEN v ELSE f[y]]
Without(f, S) == [y \in DOMAIN f \ S |-> f[y]]

-----------------------------------------------------------------------------
\* _latest_with_meta
WithMeta == {s \in DOMAIN groups : groups[s].meta # "none"}
\* Mutant: the first of the sorted groups.
Oldest == IF WithMeta = {} THEN NoGroup ELSE Min(WithMeta)
Latest == IF WithMeta = {} THEN NoGroup ELSE Max(WithMeta)

\* _ensure_current: one more than the highest number there is.
NextNumber(gs) == 1 + Max(DOMAIN gs \cup {0})

\* The groups that _prune removes; the new one counts.
Stale(gs) == {s \in DOMAIN gs : Cardinality({t \in DOMAIN gs : t > s}) >= Keep}

Fault == faults < MaxFaults /\ faults' = faults + 1

\* rmtree(ignore_errors=True), whole or cut short: the copies are gone and
\* meta.json is not, or the other way round.
Remains(g) == {[g EXCEPT !.blobs = <<>>], [g EXCEPT !.meta = "none", !.entries = <<>>]}
RemoveGroups(gs, S) ==
    \/ groups' = Without(gs, S) /\ UNCHANGED faults
    \/ /\ Fault
       /\ \E s \in S : \E g \in Remains(gs[s]) : groups' = Put(Without(gs, S), s, g)

NewGroup == [meta |-> "none", entries |-> <<>>, blobs |-> <<>>]
NoTurn == [f \in Files |-> Unknown]

Init ==
    /\ disk \in [Files -> State]
    /\ groups = <<>> /\ current = NoGroup /\ recorded = {}
    /\ pc = "idle" /\ target = NoFile /\ todo = {} /\ back = "idle"
    /\ turn = 0 /\ began = NoTurn /\ strayed = {} /\ disturbed = FALSE /\ past = <<>>
    /\ faults = 0

\* Mutant: the store of the last turn is used again.
BeginTurnKeeps ==
    /\ pc = "idle" /\ turn < MaxTurns
    /\ pc' = "turn"
    /\ turn' = turn + 1 /\ began' = disk
    /\ UNCHANGED <<disk, groups, current, recorded, target, todo, back, strayed, disturbed, past, faults>>

\* runtime.py makes a store for the turn.
BeginTurn ==
    /\ pc = "idle" /\ turn < MaxTurns
    /\ pc' = "turn"
    /\ current' = NoGroup /\ recorded' = {}
    /\ turn' = turn + 1 /\ began' = disk
    /\ UNCHANGED <<disk, groups, target, todo, back, strayed, disturbed, past, faults>>

Stop ==
    /\ pc' = "idle" /\ todo' = {} /\ back' = "idle"
    /\ began' = NoTurn /\ strayed' = {} /\ disturbed' = FALSE
    /\ target' = NoFile
    /\ UNCHANGED <<current, recorded, turn>>

EndTurn ==
    /\ pc = "turn"
    /\ Stop
    /\ UNCHANGED <<disk, groups, past, faults>>

\* Mutant: every call makes its copy.
CallCopies(f) ==
    /\ pc = "turn"
    /\ target' = f
    /\ recorded' = recorded \cup {f}
    /\ pc' = "open"
    /\ UNCHANGED <<disk, groups, current, todo, back, turnHistory, past, faults>>

\* write_file, patch_file or delete_path reaches the executor.
Call(f) ==
    /\ pc = "turn"
    /\ target' = f
    /\ recorded' = recorded \cup {f}
    /\ pc' = IF f \in recorded THEN "edit" ELSE "open"
    /\ UNCHANGED <<disk, groups, current, todo, back, turnHistory, past, faults>>

\* An exception in snapshot() is swallowed by the executor.
SnapshotFails ==
    /\ pc' = "edit" /\ disturbed' = TRUE
    /\ UNCHANGED <<groups, current, past>>

\* _ensure_current
Open ==
    /\ pc = "open"
    /\ \/ /\ current # NoGroup
          /\ pc' = "copy"
          /\ UNCHANGED <<groups, current, disturbed, past, faults>>
       \/ /\ current = NoGroup
          /\ LET s == NextNumber(groups)
                 gs == Put(groups, s, NewGroup)
                 p == Put(past, s, [turn |-> turn, was |-> <<>>, lost |-> {}])
             IN /\ current' = s
                /\ RemoveGroups(gs, Stale(gs))
                /\ past' = Without(p, DOMAIN p \ DOMAIN groups')
          /\ pc' = "copy"
          /\ UNCHANGED disturbed
       \/ current = NoGroup /\ Fault /\ SnapshotFails
    /\ UNCHANGED <<disk, recorded, target, todo, back, turn, began, strayed>>

\* copy2 into the group; when it fails the file counts as absent.
Copy ==
    /\ pc = "copy"
    /\ pc' = "meta"
    /\ \/ /\ disk[target] = Absent
          /\ UNCHANGED <<groups, disturbed, past, faults>>
       \/ /\ disk[target] # Absent /\ current \in DOMAIN groups
          /\ groups' = [groups EXCEPT ![current].blobs = Put(@, target, disk[target])]
          /\ UNCHANGED <<disturbed, past, faults>>
       \/ /\ disk[target] # Absent /\ current \in DOMAIN groups
          /\ Fault
          /\ past' = [past EXCEPT ![current].lost = @ \cup {target}]
          /\ disturbed' = TRUE
          /\ UNCHANGED groups
       \/ /\ disk[target] # Absent /\ current \notin DOMAIN groups   \* removed by a rewind
          /\ UNCHANGED <<groups, disturbed, past, faults>>
    /\ UNCHANGED <<disk, current, recorded, target, todo, back, turn, began, strayed>>

\* meta.json is read and written anew; one that cannot be parsed counts as empty.
WriteMeta ==
    /\ pc = "meta"
    /\ pc' = "edit"
    /\ \/ /\ current \in DOMAIN groups
          /\ groups' = [groups EXCEPT ![current].meta = "ok",
                            ![current].entries = Put(@, target, target \in DOMAIN groups[current].blobs)]
          /\ past' = [past EXCEPT ![current].was =
                            Put(@, target, IF target \in strayed THEN Unknown ELSE began[target])]
          /\ UNCHANGED <<current, disturbed, faults>>
       \/ /\ current \in DOMAIN groups               \* cut short
          /\ Fault
          /\ groups' = [groups EXCEPT ![current].meta = "torn", ![current].entries = <<>>]
          /\ disturbed' = TRUE
          /\ UNCHANGED <<current, past>>
       \/ current \in DOMAIN groups /\ Fault /\ SnapshotFails
       \/ current \notin DOMAIN groups /\ SnapshotFails /\ UNCHANGED faults
    /\ UNCHANGED <<disk, recorded, target, todo, back, turn, began, strayed>>

\* The tool runs: the file is written, patched or deleted, or the tool fails.
Edit(c) ==
    /\ pc = "edit"
    /\ disk' = [disk EXCEPT ![target] = c]
    /\ pc' = "turn" /\ target' = NoFile
    /\ UNCHANGED <<groups, current, recorded, todo, back, turnHistory, past, faults>>

\* replace_symbol, apply_edits, run_command, the sub-agents, the files of a deleted
\* directory, and the user: nothing of theirs is copied.
OthersEdit(f, c) ==
    /\ pc \in {"idle", "turn"}
    /\ Fault
    /\ disk[f] # c /\ disk' = [disk EXCEPT ![f] = c]
    /\ strayed' = IF pc = "turn" THEN strayed \cup {f} ELSE strayed
    /\ UNCHANGED <<groups, current, recorded, pc, target, todo, back, turn, began, disturbed, past>>

-----------------------------------------------------------------------------
\* restore_latest; without a readable checkpoint it says so and does nothing.
Rewind ==
    /\ pc = "idle" \/ (Textual /\ pc \in {"turn", "edit"})
    /\ Latest # NoGroup
    /\ groups[Latest].meta = "ok"
    /\ pc' = "restore" /\ back' = pc
    /\ todo' = DOMAIN groups[Latest].entries
    /\ disturbed' = (pc # "idle")
    /\ UNCHANGED <<disk, groups, current, recorded, target, turn, began, strayed, past, faults>>

Restored(f) ==
    LET g == groups[Latest]
    IN IF ~g.entries[f] THEN Absent
       ELSE IF f \in DOMAIN g.blobs THEN g.blobs[f] ELSE disk[f]

RestoreEntry(f) ==
    /\ pc = "restore" /\ f \in todo
    /\ disk' = [disk EXCEPT ![f] = Restored(f)]
    /\ todo' = todo \ {f}
    /\ strayed' = IF back = "idle" THEN strayed ELSE strayed \cup {f}
    /\ UNCHANGED <<groups, current, recorded, pc, target, back, turn, began, disturbed, past, faults>>

RestoreEnds ==
    /\ pc = "restore" /\ todo = {}
    /\ RemoveGroups(groups, {Latest})
    /\ past' = Without(past, DOMAIN past \ DOMAIN groups')
    /\ pc' = back /\ back' = "idle"
    /\ UNCHANGED <<disk, current, recorded, target, todo, turnHistory>>

\* The process dies, or an exception of the restore ends the session; a copy that
\* is under way leaves anything in its file.
Crash ==
    /\ pc # "idle"
    /\ Stop
    /\ \/ UNCHANGED disk
       \/ /\ pc = "restore"
          /\ \E f \in todo, c \in Contents : /\ Restored(f) \in Contents
                                             /\ disk' = [disk EXCEPT ![f] = c]
    /\ Fault
    /\ UNCHANGED <<groups, past>>

Done == pc = "idle" /\ turn = MaxTurns /\ UNCHANGED vars

Next ==
    \/ BeginTurn \/ EndTurn \/ Open \/ Copy \/ WriteMeta \/ Rewind \/ RestoreEnds \/ Crash \/ Done
    \/ \E f \in Files : Call(f) \/ RestoreEntry(f) \/ \E c \in State : OthersEdit(f, c)
    \/ \E c \in State : Edit(c)

Spec == Init /\ [][Next]_vars

-----------------------------------------------------------------------------
TypeOK ==
    /\ disk \in [Files -> State]
    /\ DOMAIN groups \subseteq Nat \ {NoGroup}
    /\ \A s \in DOMAIN groups : groups[s] \in Group
    /\ current \in Nat /\ recorded \subseteq Files
    /\ pc \in {"idle", "turn", "open", "copy", "meta", "edit", "restore"}
    /\ pc \in {"copy", "meta"} => current # NoGroup
    /\ target \in IF pc \in {"open", "copy", "meta", "edit"} THEN Files ELSE Files \cup {NoFile}
    /\ todo \subseteq Files /\ back \in {"idle", "turn", "edit"}
    /\ turn \in 0..MaxTurns /\ began \in [Files -> State \cup {Unknown}]
    /\ strayed \subseteq Files /\ disturbed \in BOOLEAN /\ faults \in 0..MaxFaults
    /\ DOMAIN past = DOMAIN groups
    /\ \A s \in DOMAIN past : /\ past[s].turn \in 1..turn /\ past[s].lost \subseteq Files
                              /\ \A f \in DOMAIN past[s].was : past[s].was[f] \in State \cup {Unknown}

\* What the checkpointed tools have changed in the running turn can be taken back:
\* the turn's group is there and names the file with what it held, however many
\* groups there were, unless a step of a snapshot failed or the turn was rewound
\* while it ran.
Undoable ==
    pc = "turn" /\ ~disturbed =>
        \A f \in Files \ strayed : disk[f] # began[f] =>
            /\ current \in WithMeta /\ current = Latest
            /\ groups[current].meta = "ok" /\ f \in DOMAIN groups[current].entries
            /\ groups[current].entries[f] = (began[f] # Absent)
            /\ began[f] # Absent => groups[current].blobs[f] = began[f]

\* Repeated rewinds step further back: what a rewind leaves is older than what it
\* took, although rewinds free the highest numbers and pruning the lowest.
RewindStepsBack ==
    [][pc = "restore" /\ Latest \notin DOMAIN groups' =>
         \A s \in WithMeta' : past[s].turn < past[Latest].turn]_vars

\* A rewind that comes to its end has put every file of the checkpoint back to what
\* it was before the turn, after any number of crashed attempts; not the files whose
\* copy had failed, or whose copy an earlier removal of the group took away.
RewindRestores ==
    [][pc = "restore" /\ todo = {} =>
         LET g == groups[Latest]
         IN \A f \in DOMAIN g.entries :
              \/ past[Latest].was[f] \in {Unknown, disk'[f]}
              \/ f \in past[Latest].lost
              \/ g.entries[f] /\ f \notin DOMAIN g.blobs]_vars

\* checkpoint_store.py:3 snapshots the "content (or absence)" of a file: a rewind
\* removes only what was not there before the turn.
RewindKeepsFiles ==
    [][\A f \in Files :
         pc = "restore" /\ disk[f] # Absent /\ disk'[f] = Absent
            => past[Latest].was[f] \in {Unknown, Absent}]_vars
=============================================================================
