----------------------------- MODULE ToolGuards -----------------------------
(***************************************************************************)
(* What ToolCallProcessor.execute (agent/tool_call_processor.py) does with *)
(* the calls of one reply: the prefetch of a read-only batch, then for each *)
(* call in order the denials, the observation cache, the patch strategy,   *)
(* the budget and the loop guard (agent/tool_orchestrator.py,              *)
(* agent/recovery.py), the run of the tool, and what its result resets.    *)
(*                                                                         *)
(* The content of a file is the number of the edit that wrote it.          *)
(***************************************************************************)
EXTENDS Integers, Sequences, SequencesExt, FiniteSets

CONSTANTS
    Files,
    NoFile,
    Texts,       \* search blocks of a patch
    BatchLimit,  \* bound: calls of a reply
    MaxCalls,    \* bound: calls of the session
    MaxEdits     \* bound: changes of files

ASSUME GuardAssumption ==
    NoFile \notin Files /\ BatchLimit \in Nat /\ MaxCalls \in Nat /\ MaxEdits \in Nat

VARIABLES
    disk,        \* file -> number of its last edit, 0 when it is missing
    cache,       \* ObservationCache._entries: key -> what the files held when it was made
    budget,      \* ToolBudgetTracker._counts
    window,      \* ToolLoopGuard._window, the recent span of it
    seen,        \* ToolLoopGuard._observation_window, the recent span of it
    failures,    \* PatchFailureTracker._failures: the calls that failed
    ambiguous,   \* PatchFailureTracker._ambiguous_files
    batch,       \* calls of the reply that are left
    prefetched,  \* what has been run ahead, in the order of the calls
    \* history
    last,        \* the last answer: its call, how it came about
    calls,       \* number of calls so far
    edits,       \* number of edits so far
    blind,       \* files changed since their last invalidation without one
    due          \* calls that an edit which resets the guards has made worth repeating

guardVars == <<disk, cache, budget, window, seen, failures, ambiguous, batch, prefetched,
          last, calls, edits, blind, due>>

NoText == 0
Call(t, f, x) == [tool |-> t, file |-> f, text |-> x]
Read(f) == Call("read_file", f, NoText)
Search == Call("search_files", NoFile, NoText)
Tests == Call("run_tests", NoFile, NoText)
Calls == {Read(f) : f \in Files} \cup {Search, Tests}
         \cup {Call(t, f, NoText) : t \in {"write_file", "delete_path", "apply_edits"}, f \in Files}
         \cup {Call("patch_file", f, x) : f \in Files, x \in Texts}

ObservationTools == {"read_file", "search_files"}    \* list_directory is like a search
MutationTools == {"write_file", "patch_file", "delete_path"}
ReadOnlyTools == ObservationTools \cup {"run_tests"}

\* ToolLoopGuard.record and record_observation
Span == 6
RepeatLimit(tool) == IF tool = "read_file" THEN 2 ELSE 3
ObservationLimit(c, ok) == IF c.tool = "run_tests" \/ ok THEN 3 ELSE 2
BudgetLimit == 3

\* Neither the content of write_file nor the blocks of patch_file are part of the signature.
Signature(c) == <<c.tool, c.file>>
Windowed(w, x) == LET v == Append(w, x) IN SubSeq(v, IF Len(v) > Span THEN Len(v) - Span + 1 ELSE 1, Len(v))
Occurrences(w, x) == Cardinality({i \in DOMAIN w : w[i] = x})

-----------------------------------------------------------------------------
\* A result, with the files it was made from and those it leaves.
Result(ok, why, touched, after) == [ok |-> ok, why |-> why, touched |-> touched, shows |-> disk, after |-> after]
Looked == Result(TRUE, "", {}, disk)
Failed(why) == Result(FALSE, why, {}, disk)
Edited(f, v) == Result(TRUE, "", {f}, [disk EXCEPT ![f] = v])

\* What the tools may do: the schema, the executor and the tool itself can all refuse.
Outcomes(c) ==
    CASE c.tool = "read_file" -> {IF disk[c.file] = 0 THEN Failed("not_found") ELSE Looked}
      [] c.tool = "search_files" -> {Looked}
      [] c.tool = "run_tests" -> {Looked, Failed("CommandFailed")}
      [] c.tool \in {"write_file", "apply_edits"} -> {Failed("refused"), Edited(c.file, edits + 1)}
      [] c.tool = "patch_file" -> {Failed(w) : w \in {"refused", "patch_not_found", "patch_ambiguous"}}
                                  \cup {Edited(f, edits + 1) : f \in {c.file} \ {g \in Files : disk[g] = 0}}
      [] c.tool = "delete_path" -> {Failed("refused"),
             IF disk[c.file] = 0 THEN Result(TRUE, "safe_noop", {}, disk) ELSE Edited(c.file, 0)}

-----------------------------------------------------------------------------
\* _prefetch_read_only: a mixed batch is left to the loop.
Prefetchable(cs) == Len(cs) >= 2 /\ \A i \in DOMAIN cs : cs[i].tool \in ReadOnlyTools

Nothing == [call |-> Search, how |-> "none"]

GuardInit ==
    /\ disk = [f \in Files |-> 0] /\ edits = 0
    /\ cache = <<>> /\ budget = <<>> /\ window = <<>> /\ seen = <<>>
    /\ failures = {} /\ ambiguous = {}
    /\ batch = <<>> /\ prefetched = <<>>
    /\ last = Nothing /\ calls = 0 /\ blind = {} /\ due = {}

\* A reply arrives.
Reply(cs) ==
    /\ batch = <<>> /\ calls + Len(cs) <= MaxCalls
    /\ batch' = cs
    /\ IF Prefetchable(cs)
       THEN \E rs \in [DOMAIN cs -> UNION {Outcomes(c) : c \in Range(cs)}] :
              /\ \A i \in DOMAIN cs : rs[i] \in Outcomes(cs[i])
              /\ prefetched' = rs
       ELSE prefetched' = <<>>
    /\ calls' = calls + Len(cs) /\ last' = Nothing
    /\ UNCHANGED <<disk, cache, budget, window, seen, failures, ambiguous, edits, blind, due>>

head == Head(batch)

\* Mutant: the results that were fetched stay.
AnswerCallKeeps(how) == batch' = Tail(batch) /\ prefetched' = prefetched /\ last' = [call |-> head, how |-> how]
AnswerCall(how) ==
    /\ batch' = Tail(batch) /\ prefetched' = IF prefetched = <<>> THEN <<>> ELSE Tail(prefetched)
    /\ last' = [call |-> head, how |-> how]

Untouched == UNCHANGED <<disk, cache, failures, ambiguous, calls, edits, blind>>

\* Read-only denial, schema, phase target, arguments and policy: what the guards
\* know of them is that the call goes no further.
Deny ==
    /\ batch # <<>>
    /\ AnswerCall("denied")
    /\ Untouched /\ UNCHANGED <<budget, window, seen, due>>

Reuse ==
    /\ batch # <<>> /\ head \in DOMAIN cache
    /\ AnswerCall("reused")
    /\ Untouched /\ UNCHANGED <<budget, window, seen, due>>

\* PatchFailureTracker.repeated_failure
NeedsStrategy(c) == c.tool = "patch_file" /\ (c.file \in ambiguous \/ c \in failures)

AskStrategy ==
    /\ batch # <<>> /\ NeedsStrategy(head)
    /\ AnswerCall("strategy")
    /\ Untouched /\ UNCHANGED <<budget, window, seen, due>>

Count(c) == IF c \in DOMAIN budget THEN budget[c] + 1 ELSE 1
Put(f, x, v) == [y \in DOMAIN f \cup {x} |-> IF y = x THEN v ELSE f[y]]
Counted(c) == IF c.tool \in ObservationTools THEN Put(budget, c, Count(c)) ELSE budget

Passed == batch # <<>> /\ head \notin DOMAIN cache /\ ~NeedsStrategy(head)
OverBudget == head.tool \in ObservationTools /\ Count(head) > BudgetLimit
Looped == Occurrences(Windowed(window, Signature(head)), Signature(head)) >= RepeatLimit(head.tool)

SuppressOverBudget ==
    /\ Passed /\ OverBudget
    /\ budget' = Counted(head)
    /\ AnswerCall("budget")
    /\ Untouched /\ UNCHANGED <<window, seen, due>>

SuppressLoop ==
    /\ Passed /\ ~OverBudget /\ Looped
    /\ budget' = Counted(head)
    /\ window' = Windowed(window, Signature(head))
    /\ AnswerCall("loop")
    /\ Untouched /\ UNCHANGED <<seen, due>>

-----------------------------------------------------------------------------
Without(f, S) == [y \in DOMAIN f \ S |-> f[y]]
\* Mutant: results that name no file are kept.
InvalidatedByName(c, r) ==
    IF c.tool \notin MutationTools \/ ~r.ok THEN cache
    ELSE IF r.touched = {} THEN <<>>
    ELSE Without(cache, {k \in DOMAIN cache : k.file \in r.touched})
\* ObservationCache.invalidate_from_result: a search names no file, and the empty
\* path is part of every path.
Invalidated(c, r) ==
    IF c.tool \notin MutationTools \/ ~r.ok THEN cache
    ELSE IF r.touched = {} THEN <<>>
    ELSE Without(cache, {k \in DOMAIN cache : k.file \in r.touched \cup {NoFile}})

Stored(es, c, r) == IF c.tool \in ObservationTools /\ r.ok THEN Put(es, c, r.shows) ELSE es

\* PatchFailureTracker.record_result
PatchesRecorded(c, r) ==
    IF c.tool \in {"write_file", "patch_file"} /\ r.ok
    THEN /\ ambiguous' = ambiguous \ {c.file}
         /\ failures' = {x \in failures : x.file # c.file}
    ELSE /\ ambiguous' = IF r.why = "patch_ambiguous" THEN ambiguous \cup {c.file} ELSE ambiguous
         /\ failures' = IF r.why \in {"patch_ambiguous", "patch_not_found"} THEN failures \cup {c} ELSE failures

\* Mutant: the signatures of before the edit stay.
GuardKeeps(c, r) ==
    /\ window' = Windowed(window, Signature(c))
    /\ seen' = Windowed(seen, <<Signature(c), r.ok, r.why>>)
\* ToolLoopGuard.reset_after_mutation, then record_observation.
GuardRecords(c, r) ==
    LET edited == c.tool \in MutationTools /\ r.ok
    IN /\ window' = IF edited THEN <<>> ELSE Windowed(window, Signature(c))
       /\ seen' = Windowed(IF edited THEN <<>> ELSE seen, <<Signature(c), r.ok, r.why>>)

\* The same action had the same outcome too often: the result has a second one after it,
\* with the error no_progress_detected.
Repeats(c, r) ==
    Occurrences(seen', <<Signature(c), r.ok, r.why>>) >= ObservationLimit(c, r.ok)

\* History: what is worth doing after the edit, the patches of a file that is there too.
Reopened(c) ==
    {Read(c.file), Search, Tests}
    \cup IF c.tool = "delete_path" THEN {} ELSE {Call("patch_file", c.file, x) : x \in Texts}

\* The call is run, or the result that was fetched for it is taken.
Execute ==
    /\ Passed /\ ~OverBudget /\ ~Looped
    /\ \E r \in IF prefetched # <<>> THEN {Head(prefetched)} ELSE Outcomes(head) :
         /\ disk' = r.after
         /\ edits' = IF \E f \in Files : r.after[f] > edits THEN edits + 1 ELSE edits
         /\ edits' <= MaxEdits
         /\ PatchesRecorded(head, r)
         /\ cache' = Stored(Invalidated(head, r), head, r)
         /\ budget' = IF head.tool \in MutationTools THEN <<>> ELSE Counted(head)
         /\ GuardRecords(head, r)
         /\ AnswerCall(IF Repeats(head, r) THEN "ran in vain" ELSE "ran")
         /\ LET edited == head.tool \in MutationTools /\ r.ok
            IN /\ due' = {c \in due : Signature(c) # Signature(head)}
                         \cup IF edited /\ r.touched # {} THEN Reopened(head) ELSE {}
               /\ blind' = IF edited THEN blind \ r.touched
                           ELSE IF head.tool = "apply_edits" THEN blind \cup r.touched ELSE blind
    /\ UNCHANGED calls

-----------------------------------------------------------------------------
\* The next turn has a loop guard, a patch tracker and a budget of its own; the cache
\* is the session's.
NextTurn ==
    /\ batch = <<>> /\ window \o seen # <<>>
    /\ window' = <<>> /\ seen' = <<>> /\ budget' = <<>> /\ failures' = {} /\ ambiguous' = {}
    /\ last' = Nothing
    /\ UNCHANGED <<disk, cache, batch, prefetched, calls, edits, blind, due>>

\* run_command, a sub-agent or the user.
OthersEdit(f) ==
    /\ batch = <<>> /\ edits < MaxEdits
    /\ disk' = [disk EXCEPT ![f] = edits + 1] /\ edits' = edits + 1
    /\ blind' = blind \cup {f} /\ last' = Nothing
    /\ UNCHANGED <<cache, budget, window, seen, failures, ambiguous, batch, prefetched, calls, due>>

GuardNext ==
    \/ \E n \in 1..BatchLimit : \E cs \in [1..n -> Calls] : Reply(cs)
    \/ Deny \/ Reuse \/ AskStrategy \/ SuppressOverBudget \/ SuppressLoop \/ Execute
    \/ NextTurn \/ \E f \in Files : OthersEdit(f)

GuardSpec == GuardInit /\ [][GuardNext]_guardVars

-----------------------------------------------------------------------------
GuardTypeOK ==
    /\ disk \in [Files -> 0..MaxEdits] /\ edits \in 0..MaxEdits
    /\ DOMAIN cache \subseteq {c \in Calls : c.tool \in ObservationTools}
    /\ \A k \in DOMAIN cache : cache[k] \in [Files -> 0..MaxEdits]
    /\ DOMAIN budget \subseteq Calls /\ \A k \in DOMAIN budget : budget[k] \in 1..MaxCalls
    /\ Len(window) <= Span /\ Len(seen) <= Span
    /\ failures \subseteq Calls /\ ambiguous \subseteq Files
    /\ batch \in Seq(Calls) /\ Len(batch) <= BatchLimit
    /\ Len(prefetched) \in {0, Len(batch)}
    /\ calls \in 0..MaxCalls /\ blind \subseteq Files /\ due \subseteq Calls

\* An observation that is given again in place of a run shows every file as it is now,
\* in whatever turn it was made and by whatever edits it was outlived, save files that
\* something else than write_file, patch_file and delete_path has changed since.
CacheIsCurrent ==
    \A k \in DOMAIN cache : \A f \in Files :
        k.file \in {f, NoFile} => f \in blind \/ cache[k][f] = disk[f]

\* After an edit of a file by write_file, patch_file or delete_path the model can read it,
\* search, run the tests and patch the file again: none of the four guards answers such a
\* call from before the edit or holds it back for having been made too often.  The docstring
\* of reset_after_mutation (recovery.py:50) promises it of every mutation; apply_edits
\* resets no guard and empties no cache, and what it has edited is in no "due".
ReopensCalls == batch' # batch /\ last'.call \in due => last'.how \in {"none", "denied", "ran"}
EditsReopenCalls == [][ReopensCalls]_guardVars
=============================================================================
