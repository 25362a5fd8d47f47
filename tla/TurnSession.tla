---------------------------- MODULE TurnSession ----------------------------
(***************************************************************************)
(* run_agent_turn (runtime.py) and the events of AgentLoop.run_turn         *)
(* (agent/loop.py), turn after turn of one session: what a turn finds of    *)
(* the last one's failed validation (agent/session_state.py,                *)
(* memory/session_state_store.py), and what a resumed session finds of the  *)
(* conversation (memory/conversation_store.py), when turns are blocked,     *)
(* fail, are cancelled or interrupted, when writes fail and the process     *)
(* dies.                                                                   *)
(*                                                                         *)
(* Of a failed validation the session keeps the symbols it names.  The      *)
(* files it names and its excerpt are in the evidence of the rounds, but    *)
(* build_completion_evidence (agent/completion_gate.py) does not copy them  *)
(* into the evidence that remember_turn_outcome is given, so that the       *)
(* filter of stale targets in load_snapshot has nothing to do.              *)
(***************************************************************************)
EXTENDS Naturals, Sequences, SequencesExt, FiniteSets

CONSTANTS
    Symbols,      \* what the output of a failed validation names
    MaxTurns,     \* bound: turns
    MaxMishaps    \* bound: crashes, writes that fail, interruptions

ASSUME TurnAssumption == MaxTurns \in Nat /\ MaxMishaps \in Nat

VARIABLES
    up,           \* the process runs
    pc,           \* where run_agent_turn is
    repair,       \* the symbols of session_state.latest_repair_context
    snapshot,     \* the file of SessionStateStore
    said,         \* the file of ConversationStore
    result,       \* the status of the TurnResult
    events,       \* the events that end the turn, as they were published
    \* history
    turn, mishaps,
    owed,         \* the repair context that the last turn to end undisturbed has left
    cut,          \* a later turn was interrupted
    kept,         \* exchanges whose append has succeeded
    spoiled       \* something was written that ConversationStore.load cannot take

turnVars == <<up, pc, repair, snapshot, said, result, events, turn, mishaps, owed, cut, kept, spoiled>>

NoRepair == {}

Snapshot(kind, r) == [kind |-> kind, repair |-> r]
NoSnapshot == Snapshot("none", NoRepair)
Torn == Snapshot("torn", NoRepair)       \* opened for writing and cut short: no JSON

Statuses == {"success", "partial", "failed"}

TurnInit ==
    /\ up = TRUE /\ pc = "idle"
    /\ repair = NoRepair /\ snapshot = NoSnapshot /\ said = <<>>
    /\ result = "none" /\ events = <<>>
    /\ turn = 0 /\ mishaps = 0 /\ owed = NoRepair /\ cut = FALSE /\ kept = {} /\ spoiled = FALSE

Mishap == mishaps < MaxMishaps /\ mishaps' = mishaps + 1
Stores == <<snapshot, said>>
History == <<turn, mishaps, owed, cut, kept, spoiled>>

-----------------------------------------------------------------------------
\* AgentSessionState.load_snapshot: the snapshot overrides what the session remembers;
\* one that cannot be read is none.
Loaded == IF snapshot.kind = "saved" THEN snapshot.repair ELSE repair

\* _load_persisted_session_state, before the hooks.
BeginTurn ==
    /\ up /\ pc = "idle" /\ turn < MaxTurns
    /\ turn' = turn + 1 /\ pc' = "hooks" /\ repair' = Loaded
    /\ result' = "none" /\ events' = <<>>
    /\ UNCHANGED <<up, Stores, mishaps, owed, cut, kept, spoiled>>

\* The session_start and user_prompt_submit hooks let the turn go on.
HooksPass ==
    /\ pc = "hooks" /\ pc' = "rounds"
    /\ UNCHANGED <<up, repair, Stores, result, events, History>>

\* A blocked turn tells its handler and returns: nothing of it is kept.
HookBlocks ==
    /\ pc = "hooks" /\ pc' = "idle"
    /\ result' = "cancelled" /\ events' = <<"TurnFinalized">>
    /\ UNCHANGED <<up, repair, Stores, History>>

-----------------------------------------------------------------------------
\* AgentSessionState.remember_turn_outcome
Remembered(status, passed, failure) ==
    IF passed \/ (status = "success" /\ failure = NoRepair) THEN NoRepair
    ELSE IF status \in {"partial", "failed"} /\ failure # NoRepair THEN failure
    ELSE repair

\* The rounds have ended; symbols is what the output of a failed validation names.
\* FinalAnswerReady is published when the turn is a success with
\* an answer; TurnResult may then refuse the result.
Rounds ==
    /\ pc = "rounds"
    /\ \E status \in Statuses, ready, passed \in BOOLEAN, symbols \in SUBSET Symbols :
         /\ ready => status = "success"
         /\ ~(passed /\ symbols # NoRepair)
         /\ events' = IF ready THEN <<"FinalAnswerReady">> ELSE <<>>
         /\ \/ /\ pc' = "remembered" /\ result' = status
               /\ repair' = Remembered(status, passed, symbols)
            \/ pc' = "failing" /\ result' = "failed" /\ UNCHANGED repair
    /\ UNCHANGED <<up, Stores, turn, mishaps, owed, cut, kept, spoiled>>

\* TurnFinalized when no FinalAnswerReady was published, then TurnResultReady.
Announces ==
    /\ pc = "remembered" /\ pc' = "stop"
    /\ events' = (IF events = <<>> THEN <<"TurnFinalized">> ELSE events) \o <<"TurnResultReady">>
    /\ UNCHANGED <<up, repair, Stores, result, History>>

\* The task is cancelled where it waits: in the rounds, or where an event waits for
\* room in the queue of the bus, before it is put there.
Cancelled ==
    /\ pc \in {"rounds", "remembered"} /\ Mishap
    /\ pc' = "failing" /\ result' = "cancelled"
    /\ events' \in IF pc = "rounds" \/ events # <<>> THEN {events} ELSE {<<>>, <<"TurnFinalized">>}
    /\ UNCHANGED <<up, repair, Stores, turn, owed, cut, kept, spoiled>>

\* An exception, or the cancellation, inside of the try statement.
Raises ==
    /\ pc = "rounds"
    /\ pc' = "failing" /\ result' = "failed"
    /\ UNCHANGED <<up, repair, Stores, events, History>>

\* Mutant: a turn that failed does not announce its result.
FailsSilently ==
    /\ pc = "failing" /\ pc' = "stop"
    /\ events' = Append(events, "TurnFailed")
    /\ UNCHANGED <<up, repair, Stores, result, History>>
\* The two except clauses: TurnFailed, then TurnResultReady.
Fails ==
    /\ pc = "failing" /\ pc' = "stop"
    /\ events' = events \o <<"TurnFailed", "TurnResultReady">>
    /\ UNCHANGED <<up, repair, Stores, result, History>>

-----------------------------------------------------------------------------
StopHooks ==
    /\ pc = "stop" /\ pc' = "save"
    /\ UNCHANGED <<up, repair, Stores, result, events, History>>

\* Mutant: only what has succeeded is worth keeping.
SavesSuccess ==
    /\ pc = "save" /\ pc' = "append"
    /\ snapshot' = IF result = "success" THEN Snapshot("saved", repair) ELSE snapshot
    /\ UNCHANGED <<up, repair, said, result, events, History>>
\* _save_persisted_session_state
Saves ==
    /\ pc = "save" /\ pc' = "append"
    /\ snapshot' = Snapshot("saved", repair)
    /\ UNCHANGED <<up, repair, said, result, events, History>>

\* Nothing catches an OSError of the save: the turn ends in the finally clause.
SaveFails ==
    /\ pc = "save" /\ Mishap
    /\ pc' = "idle" /\ cut' = TRUE
    /\ snapshot' \in {snapshot, Torn}
    /\ UNCHANGED <<up, repair, said, result, events, turn, owed, kept, spoiled>>

-----------------------------------------------------------------------------
\* A text may hold a separator (U+2028, U+2029, U+0085) that json.dumps leaves as it is
\* and splitlines() takes for the end of a line: load skips the parts as no JSON
\* ("split"), unless one is a JSON value, which has no get: load raises ("value").
Forms == {"plain", "split", "value"}
Entry(n, role, form) == [turn |-> n, role |-> role, form |-> form]

\* A line cut short, "open" without its end: what follows is part of it.  load skips
\* it, or raises over it ("bad"), when a character is cut or a part of it is a value.
Scrap(role, form) == Entry(0, role, form)
Unreadable(e) == e.role = "bad" \/ e.form = "value"
Merged(e, f) == Scrap(IF Unreadable(e) \/ Unreadable(f) THEN "bad" ELSE "scrap",
                      IF f.form = "open" THEN "open" ELSE "ended")

\* json.dumps of the prompt and of an answer that is not blank; a cancelled or a failed
\* turn may have none.
Lines == {<<Entry(turn, "user", f)>> : f \in Forms}
         \cup {<<Entry(turn, "user", f), Entry(turn, "assistant", g)>> : f, g \in Forms}
\* What a write of ls that is cut short leaves.
Pieces(ls) == {SubSeq(ls, 1, n) : n \in 0..Len(ls)}
              \cup {SubSeq(ls, 1, n) \o <<Scrap(role, "open")>> : n \in 0..(Len(ls) - 1), role \in {"scrap", "bad"}}

\* Mutant: the file is written anew.
AppendedAnew(ls) == ls
Appended(ls) ==
    IF ls # <<>> /\ said # <<>> /\ Last(said).form = "open"
    THEN Front(said) \o <<Merged(Last(said), Head(ls))>> \o Tail(ls)
    ELSE said \o ls

Written(ls) ==
    /\ said' = Appended(ls)
    /\ spoiled' = (spoiled \/ \E e \in Range(ls) : Unreadable(e))

Appends(ls) ==
    /\ pc = "append" /\ pc' = "idle"
    /\ result \in {"failed", "cancelled"} \/ Len(ls) = 2
    /\ Written(ls)
    /\ owed' = repair /\ cut' = FALSE /\ kept' = kept \cup Range(ls)
    /\ UNCHANGED <<up, repair, snapshot, result, events, turn, mishaps>>

\* append_exchange fails: the OSError is ignored.
AppendFails(ls) ==
    /\ pc = "append" /\ Mishap
    /\ pc' = "idle"
    /\ \E piece \in Pieces(ls) : Written(piece)
    /\ owed' = repair /\ cut' = FALSE
    /\ UNCHANGED <<up, repair, snapshot, result, events, turn, kept>>

\* The task is cancelled at an await of run_agent_turn itself, an exception leaves
\* run_turn before its try statement, or the summary of the notes cannot be written:
\* only the bus is closed.
Interrupted ==
    /\ pc \in {"hooks", "rounds", "failing", "stop", "append"} /\ Mishap
    /\ pc' = "idle" /\ cut' = TRUE /\ result' = "raised"
    /\ UNCHANGED <<up, repair, Stores, events, turn, owed, kept, spoiled>>

-----------------------------------------------------------------------------
\* The process dies; a write that is under way is cut short.
Crash ==
    /\ up /\ Mishap
    /\ up' = FALSE /\ pc' = "idle" /\ repair' = NoRepair
    /\ cut' = (cut \/ pc # "idle")
    /\ snapshot' \in IF pc = "save" THEN {snapshot, Torn} ELSE {snapshot}
    /\ \E ls \in Lines : \E piece \in IF pc = "append" THEN Pieces(ls) ELSE {<<>>} : Written(piece)
    /\ result' = "none" /\ events' = <<>>
    /\ UNCHANGED <<turn, owed, kept>>

\* What load gives to a session that is resumed; it raises over a line it cannot take.
Loadable == \A e \in Range(said) : ~Unreadable(e)
Replayed == IF Loadable THEN {e \in Range(said) : e.form = "plain"} ELSE {}

\* allCode resume: the conversation is replayed, the snapshot waits for the first turn.
Resume ==
    /\ ~up /\ Loadable /\ up' = TRUE
    /\ UNCHANGED <<pc, repair, Stores, result, events, History>>

TurnNext ==
    \/ BeginTurn \/ HooksPass \/ HookBlocks
    \/ Rounds \/ Announces \/ Cancelled \/ Raises \/ Fails
    \/ StopHooks
    \/ Saves \/ SaveFails
    \/ \E ls \in Lines : Appends(ls) \/ AppendFails(ls)
    \/ Interrupted \/ Crash \/ Resume

TurnSpec == TurnInit /\ [][TurnNext]_turnVars

-----------------------------------------------------------------------------
TurnTypeOK ==
    /\ spoiled \in BOOLEAN
    /\ up \in BOOLEAN /\ pc \in {"idle", "hooks", "rounds", "remembered", "failing", "stop", "save", "append"}
    /\ repair \subseteq Symbols /\ snapshot.kind \in {"none", "torn", "saved"}
    /\ snapshot.repair \subseteq Symbols
    /\ result \in Statuses \cup {"none", "cancelled", "raised"}
    /\ turn \in 0..MaxTurns /\ mishaps \in 0..MaxMishaps

\* After blocked turns, a restart and writes that fail, a turn is told of the symbols of
\* the validation that failed last, and of no validation that has passed meanwhile.
RepairIsKnown ==
    pc = "hooks" /\ ~cut => repair = owed

Announced == /\ events # <<>> /\ Last(events) = "TurnResultReady"
             /\ \A i \in 1..(Len(events) - 1) : events[i] # "TurnResultReady"

\* A turn that returns has announced its result once, as the last event, be it cancelled
\* or failed after its final answer, and so has one whose end raises; but a turn that a hook
\* blocks returns its result with TurnFinalized alone (runtime.py:181-193).
ResultAnnounced ==
    /\ pc \in {"save", "append"} => Announced
    /\ pc = "idle" /\ result \in Statuses => Announced
    /\ pc = "idle" /\ result = "cancelled" => Announced \/ events = <<"TurnFinalized">>

\* An answer once written stays in the file, and a session that is resumed is given it,
\* whatever is cut short later: unless its own text was split, or something written made
\* load raise, which loses the whole conversation (conversation_store.py:68).  Of the
\* exchange that follows a torn line the prompt is lost.
ConversationKept ==
    \A e \in kept : e.role = "assistant" =>
        /\ e \in Range(said)
        /\ e.form = "plain" /\ ~spoiled => e \in Replayed
=============================================================================
