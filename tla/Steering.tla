------------------------------ MODULE Steering ------------------------------
(***************************************************************************)
(* Who gets a line that the user types.  During a turn the thread of        *)
(* _SteeringCapture (tui/terminal.py) reads lines and pushes them on the    *)
(* SteeringQueue (agent/steering.py), which the turn empties when it starts *)
(* (runtime.py) and at each round (round_runner.py); the question of an     *)
(* approval reads its answer from the same stream; between turns the        *)
(* composer reads the terminal itself (tui/terminal_input.py).              *)
(*                                                                         *)
(* A thread that nothing blocks is taken to end within the 0.3 s that       *)
(* stop() waits for it: it polls every 0.15 s. One that a turn has left     *)
(* behind pushes the line it has read before the user has entered the next  *)
(* prompt; the steps of the turn may come in between.                       *)
(***************************************************************************)
EXTENDS Naturals, Sequences, SequencesExt

CONSTANTS
    MaxLines,     \* bound: lines typed
    MaxSteered    \* bound: turns

ASSUME SteeringAssumption == MaxLines \in Nat /\ MaxSteered \in Nat

VARIABLES
    main,         \* what the main thread does
    thread,       \* what the thread of the running turn does
    left,         \* a thread of an earlier turn is blocked in readline()
    reader,       \* who holds the lock of the buffered stream
    paused, stop, \* the two events of the capture
    tty,          \* lines that nobody has read
    inHand,       \* the line that the thread of the turn has read and not pushed
    lateHand,     \* and the one of the thread that was left
    queue,        \* SteeringQueue._messages
    \* history
    typed, steerTurn,
    fed,          \* messages the model was given, with the turn that was under way
    answers       \* lines taken for the answer to an approval

steerVars == <<main, thread, left, reader, paused, stop, tty, inHand, lateHand, queue, typed, steerTurn, fed, answers>>

NoOne == "none"
\* late: the line was read by a thread that an earlier turn left behind.
NoLine == [n |-> 0, for |-> "none", turn |-> 0, late |-> FALSE]

SteerInit ==
    /\ main = "composer" /\ thread = "none" /\ left = FALSE /\ reader = NoOne
    /\ paused = FALSE /\ stop = FALSE
    /\ tty = <<>> /\ inHand = NoLine /\ lateHand = NoLine /\ queue = <<>>
    /\ typed = 0 /\ steerTurn = 0 /\ fed = <<>> /\ answers = <<>>

\* The user types a line at what is on the screen.
Type ==
    /\ typed < MaxLines /\ typed' = typed + 1
    /\ LET for == CASE main = "composer" -> "prompt" [] main = "answering" -> "answer" [] OTHER -> "steering"
       IN tty' = Append(tty, [n |-> typed + 1, for |-> for, turn |-> steerTurn, late |-> FALSE])
    /\ UNCHANGED <<main, thread, left, reader, paused, stop, inHand, lateHand, queue, steerTurn, fed, answers>>

-----------------------------------------------------------------------------
\* The composer has its line: the capture starts.
StartTurn ==
    /\ main = "composer" /\ tty # <<>> /\ lateHand = NoLine /\ steerTurn < MaxSteered
    /\ main' = "starting" /\ steerTurn' = steerTurn + 1 /\ tty' = Tail(tty)
    /\ thread' = "poll" /\ paused' = FALSE /\ stop' = FALSE
    /\ UNCHANGED <<left, reader, inHand, lateHand, queue, typed, fed, answers>>

\* Mutant: what is left over is kept.
KeepStale == /\ main = "starting" /\ main' = "turn"
             /\ UNCHANGED <<thread, left, reader, paused, stop, tty, inHand, lateHand, queue, typed, steerTurn, fed, answers>>
\* make_tui_turn_runner: drop any stale steering.
DrainStale == /\ main = "starting" /\ main' = "turn" /\ queue' = <<>>
              /\ UNCHANGED <<thread, left, reader, paused, stop, tty, inHand, lateHand, typed, steerTurn, fed, answers>>

\* Mutant: the newest message first.
RoundNewestFirst ==
    /\ main = "turn" /\ queue # <<>>
    /\ fed' = fed \o [i \in DOMAIN queue |-> [line |-> Reverse(queue)[i], turn |-> steerTurn]]
    /\ queue' = <<>>
    /\ UNCHANGED <<main, thread, left, reader, paused, stop, tty, inHand, lateHand, typed, steerTurn, answers>>
\* _apply_steering at a round boundary.
Round ==
    /\ main = "turn" /\ queue # <<>>
    /\ fed' = fed \o [i \in DOMAIN queue |-> [line |-> queue[i], turn |-> steerTurn]]
    /\ queue' = <<>>
    /\ UNCHANGED <<main, thread, left, reader, paused, stop, tty, inHand, lateHand, typed, steerTurn, answers>>

\* handle_approval_request
Ask ==
    /\ main = "turn" /\ main' = "asking" /\ paused' = TRUE
    /\ UNCHANGED <<thread, left, reader, stop, tty, inHand, lateHand, queue, typed, steerTurn, fed, answers>>

\* The question is printed, and readline() waits for the stream.
Question ==
    /\ main = "asking" /\ main' = "answering"
    /\ UNCHANGED <<thread, left, reader, paused, stop, tty, inHand, lateHand, queue, typed, steerTurn, fed, answers>>

ReadAnswer ==
    /\ main = "answering" /\ reader = NoOne
    /\ reader' = "main"
    /\ UNCHANGED <<main, thread, left, paused, stop, tty, inHand, lateHand, queue, typed, steerTurn, fed, answers>>

Answered ==
    /\ main = "answering" /\ reader = "main" /\ tty # <<>>
    /\ answers' = Append(answers, Head(tty)) /\ tty' = Tail(tty)
    /\ main' = "turn" /\ reader' = NoOne /\ paused' = FALSE
    /\ UNCHANGED <<thread, left, stop, inHand, lateHand, queue, typed, steerTurn, fed>>

\* stop()
EndTurn ==
    /\ main = "turn" /\ main' = "stopping" /\ stop' = TRUE
    /\ UNCHANGED <<thread, left, reader, paused, tty, inHand, lateHand, queue, typed, steerTurn, fed, answers>>

\* The join returns, in vain when the thread is blocked.  The composer's raw mode
\* discards what was typed and not read.
Joined ==
    /\ main = "stopping" /\ (thread = "none" \/ (thread = "reading" /\ tty = <<>> /\ lateHand = NoLine))
    /\ left' = (left \/ thread = "reading") /\ thread' = "none"
    /\ main' = "composer" /\ tty' = <<>>
    /\ UNCHANGED <<reader, paused, stop, inHand, lateHand, queue, typed, steerTurn, fed, answers>>

-----------------------------------------------------------------------------
\* _SteeringCapture._loop
Unchanged == UNCHANGED <<main, left, lateHand, paused, stop, typed, steerTurn, fed, answers>>

Polls ==
    /\ thread = "poll"
    /\ thread' = IF stop THEN "none" ELSE IF ~paused /\ tty # <<>> THEN "ready" ELSE "poll"
    /\ Unchanged /\ UNCHANGED <<reader, tty, inHand, queue>>

\* The flags are looked at again after the select.
Checks ==
    /\ thread = "ready"
    /\ thread' = IF paused \/ stop THEN "poll" ELSE "checked"
    /\ Unchanged /\ UNCHANGED <<reader, tty, inHand, queue>>

Reads ==
    /\ thread = "checked" /\ reader = NoOne
    /\ thread' = "reading" /\ reader' = "thread"
    /\ Unchanged /\ UNCHANGED <<tty, inHand, queue>>

Gets ==
    /\ thread = "reading" /\ tty # <<>>
    /\ thread' = "got" /\ reader' = NoOne
    /\ inHand' = Head(tty) /\ tty' = Tail(tty)
    /\ Unchanged /\ UNCHANGED queue

Pushes ==
    /\ thread = "got"
    /\ thread' = "poll" /\ queue' = Append(queue, inHand) /\ inHand' = NoLine
    /\ Unchanged /\ UNCHANGED <<reader, tty>>

\* A thread that was left blocked gets its line at last,
LeftGets ==
    /\ left /\ tty # <<>> /\ reader = "thread"
    /\ left' = FALSE /\ reader' = NoOne
    /\ lateHand' = [Head(tty) EXCEPT !.late = TRUE] /\ tty' = Tail(tty)
    /\ UNCHANGED <<main, thread, paused, stop, inHand, queue, typed, steerTurn, fed, answers>>

\* pushes it, perhaps after the thread of the turn has pushed a newer one, and ends.
LeftPushes ==
    /\ lateHand # NoLine
    /\ queue' = Append(queue, lateHand) /\ lateHand' = NoLine
    /\ UNCHANGED <<main, thread, left, reader, paused, stop, tty, inHand, typed, steerTurn, fed, answers>>

SteerNext ==
    \/ Type
    \/ StartTurn \/ DrainStale \/ Round \/ Ask \/ Question \/ ReadAnswer \/ Answered \/ EndTurn \/ Joined
    \/ Polls \/ Checks \/ Reads \/ Gets \/ Pushes \/ LeftGets \/ LeftPushes

SteerSpec == SteerInit /\ [][SteerNext]_steerVars

-----------------------------------------------------------------------------
SteerTypeOK ==
    /\ main \in {"composer", "starting", "turn", "asking", "answering", "stopping"}
    /\ thread \in {"none", "poll", "ready", "checked", "reading", "got"}
    /\ left \in BOOLEAN /\ reader \in {NoOne, "main", "thread"}
    /\ paused \in BOOLEAN /\ stop \in BOOLEAN
    /\ typed \in 0..MaxLines /\ steerTurn \in 0..MaxSteered

\* The model is given no message twice, and the messages in the order they were typed in,
\* whichever threads have read and pushed them: only a line that the thread of an earlier
\* turn had in hand (terminal.py:104) may come after newer ones, which the thread of the
\* turn has pushed in the meantime (:109).
Before(a, b) == a.n # b.n /\ (a.n < b.n \/ b.late)
FedInOrder == \A i, j \in DOMAIN fed : i < j => Before(fed[i].line, fed[j].line)

\* A message steers the turn it was typed into and no later one.
SteersItsTurn == \A i \in DOMAIN fed : fed[i].line.for = "steering" => fed[i].line.turn = fed[i].turn
=============================================================================
