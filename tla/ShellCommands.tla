---------------------------- MODULE ShellCommands ----------------------------
(***************************************************************************)
(* A command that the model runs (tools/builtin/shell.py,                  *)
(* background_jobs.py): in the background, where a thread reads what the   *)
(* process writes and the model polls, or in the foreground, where the     *)
(* call waits for it.  The process may leave a child that holds its pipe.  *)
(* The lines a process writes are numbered.                                *)
(*                                                                         *)
(* Assumption: within the two seconds of a join the thread reads a pipe    *)
(* that nobody holds to its end.                                           *)
(***************************************************************************)
EXTENDS Naturals, Sequences

CONSTANTS
    Shown,      \* the lines that a result shows at most
    MaxWritten, \* a bound on the lines that a process writes
    MaxPolls    \* a bound on the polls of the model

Sizes == Shown \in Nat /\ MaxWritten \in Nat /\ MaxPolls \in Nat
ASSUME ShellAssumption == Sizes

VARIABLES form, proc, child, written, pumped, reader, cursor,
          poll, sawExit, gaveUp, polls, known, cut, status

shellVars == <<form, proc, child, written, pumped, reader, cursor,
               poll, sawExit, gaveUp, polls, known, cut, status>>

-----------------------------------------------------------------------------
ShellInit ==
    /\ form = "none"        \* "background", "command" or "validation" once started
    /\ proc = "none"
    /\ child = FALSE        \* a child of the process holds the pipe
    /\ written = 0
    /\ pumped = 0           \* the lines that the thread has read
    /\ reader = "none"
    /\ cursor = 0           \* the lines that the polls have taken
    /\ poll = "idle"
    /\ sawExit = FALSE      \* this poll has found the process ended when it began
    /\ gaveUp = FALSE       \* and a join that the thread has not ended
    /\ polls = 0
    /\ known = 0            \* the lines that the model has been shown
    /\ cut = 0              \* and those that the polls have cut off
    /\ status = "none"

checks == <<sawExit, gaveUp>>
Job == <<proc, child, written, pumped, reader>>
View == <<cursor, poll, checks, polls, known, cut, status>>

Launch(m) ==
    /\ proc = "none"
    /\ form' = m
    /\ proc' = "running"
    /\ reader' = "reading"
    /\ poll' = IF m = "background" THEN "idle" ELSE "waiting"
    /\ UNCHANGED <<child, written, pumped, cursor, checks, polls, known, cut, status>>

-----------------------------------------------------------------------------
\* The process, and the child that outlives it.
Writes ==
    /\ proc = "running" \/ child
    /\ written < MaxWritten
    /\ written' = written + 1
    /\ UNCHANGED <<form, proc, child, pumped, reader>> /\ UNCHANGED View

Forks ==
    /\ proc = "running"
    /\ ~child
    /\ child' = TRUE
    /\ UNCHANGED <<form, proc, written, pumped, reader>> /\ UNCHANGED View

Exits(code) ==
    /\ proc = "running"
    /\ proc' = code
    /\ UNCHANGED <<form, child, written, pumped, reader>> /\ UNCHANGED View

ChildExits ==
    /\ child
    /\ child' = FALSE
    /\ UNCHANGED <<form, proc, written, pumped, reader>> /\ UNCHANGED View

\* The thread that reads: a line at a time, until nobody holds the pipe.
Pump ==
    /\ reader = "reading"
    /\ IF pumped < written
       THEN pumped' = pumped + 1 /\ UNCHANGED reader
       ELSE proc # "running" /\ ~child /\ reader' = "ended" /\ UNCHANGED pumped
    /\ UNCHANGED <<form, proc, child, written>> /\ UNCHANGED View

\* What it reads cannot be decoded, or the pipe breaks: the thread ends, and what is there
\* is never read.  Only the output of a job in the background is decoded strictly.
PumpFails ==
    /\ form = "background" /\ reader = "reading" /\ pumped < written
    /\ reader' = "failed"
    /\ UNCHANGED <<form, proc, child, written, pumped>> /\ UNCHANGED View

-----------------------------------------------------------------------------
\* get_command_output: it joins the thread if the process has exited, takes the
\* lines, and then asks whether the process runs.
Poll ==
    /\ form = "background" /\ poll = "idle"
    /\ polls < MaxPolls
    /\ polls' = polls + 1
    /\ sawExit' = (proc # "running")
    /\ poll' = IF sawExit' THEN "joins" ELSE "reads"
    /\ gaveUp' = FALSE
    /\ UNCHANGED <<form, cursor, known, cut, status>> /\ UNCHANGED Job

\* Mutant: the process has exited, so everything is there.
JoinsNothing ==
    /\ poll = "joins"
    /\ poll' = "reads"
    /\ gaveUp' = (child /\ reader = "reading")
    /\ UNCHANGED <<form, cursor, sawExit, polls, known, cut, status>> /\ UNCHANGED Job

\* A join that a child keeps from ending is given up.
Joins ==
    /\ poll = "joins"
    /\ reader # "reading" \/ child
    /\ poll' = "reads"
    /\ gaveUp' = (reader = "reading")
    /\ UNCHANGED <<form, cursor, sawExit, polls, known, cut, status>> /\ UNCHANGED Job

\* The lines after the first Shown ones are cut off, but the cursor passes them.
ReadsNew ==
    /\ poll = "reads"
    /\ LET new == pumped - cursor
           shown == IF new > Shown THEN Shown ELSE new
       IN  known' = known + shown /\ cut' = cut + (new - shown)
    /\ cursor' = pumped
    /\ poll' = "asks"
    /\ UNCHANGED <<form, checks, polls, status>> /\ UNCHANGED Job

Asks ==
    /\ poll = "asks"
    /\ status' = IF proc = "running" THEN "running" ELSE "exited"
    /\ poll' = "idle"
    /\ UNCHANGED <<form, cursor, checks, polls, known, cut>> /\ UNCHANGED Job

\* kill_command: terminate, and kill what has not ended after five seconds.
Kill ==
    /\ form = "background" /\ poll = "idle"
    /\ proc # "none"
    /\ polls < MaxPolls
    /\ polls' = polls + 1
    /\ proc' = IF proc = "running" THEN "killed" ELSE proc
    /\ status' = "terminated"
    /\ UNCHANGED <<form, child, written, pumped, reader, cursor, poll, checks, known, cut>>

-----------------------------------------------------------------------------
\* The foreground: the call returns when nobody holds the pipe any more.
Collected == reader = "ended" /\ poll \in {"waiting", "killing"}
\* The result of a call that has run out of time has nothing of the output.
Shows ==
    /\ known' = IF poll = "killing" THEN 0 ELSE IF written > Shown THEN Shown ELSE written
    /\ cut' = written - known'
    /\ cursor' = written

\* A validation that collects no tests counts as one that passes.
Passes(code) == code = "exit_0" \/ (form = "validation" /\ code = "no_tests")

Returns ==
    /\ Collected
    /\ Shows
    /\ status' = IF poll = "killing" THEN "timed_out"
                 ELSE IF Passes(proc) THEN "ok" ELSE "failed"
    /\ poll' = "returned"
    /\ UNCHANGED <<form, checks, polls>> /\ UNCHANGED Job

\* The timeout kills the shell only, and then waits for the pipe.
TimesOut ==
    /\ poll = "waiting"
    /\ ~Collected
    /\ proc' = IF proc = "running" THEN "killed" ELSE proc
    /\ poll' = "killing"
    /\ UNCHANGED <<form, child, written, pumped, reader, cursor, checks, polls, known, cut, status>>

\* The turn is cancelled: nobody waits any more, and the command goes on.
TurnCancelled ==
    /\ poll \in {"waiting", "killing"}
    /\ poll' = "returned"
    /\ status' = "cancelled"
    /\ UNCHANGED <<form, cursor, checks, polls, known, cut>> /\ UNCHANGED Job

-----------------------------------------------------------------------------
Forms == {"background", "command", "validation"}
Codes == {"exit_0", "exit_1", "no_tests"}

ShellNext ==
    \/ \E m \in Forms : Launch(m)
    \/ Writes \/ Forks \/ ChildExits \/ Pump \/ PumpFails
    \/ \E code \in Codes : Exits(code)
    \/ Poll \/ Joins \/ ReadsNew \/ Asks \/ Kill
    \/ Returns \/ TimesOut \/ TurnCancelled

ShellSpec == ShellInit /\ [][ShellNext]_shellVars

-----------------------------------------------------------------------------
ShellTypeOK ==
    /\ form \in Forms \cup {"none"}
    /\ proc \in Codes \cup {"none", "running", "killed"}
    /\ child \in BOOLEAN /\ sawExit \in BOOLEAN /\ gaveUp \in BOOLEAN
    /\ written \in 0..MaxWritten /\ pumped \in 0..written /\ cursor \in 0..written
    /\ reader \in {"none", "reading", "ended", "failed"}
    /\ poll \in {"idle", "joins", "reads", "asks", "waiting", "killing", "returned"}
    /\ polls \in 0..MaxPolls
    /\ known + cut <= written
    /\ status \in {"none", "running", "exited", "terminated", "ok", "failed", "timed_out", "cancelled"}

\* The lines the model has been shown, and those cut off, are the ones taken, each once;
\* and a poll leaves lines of the process behind only if the process ended after the poll
\* had looked whether it runs, if a child of it held the pipe while the poll waited, or if
\* the thread failed.  background_jobs.py:45-48 and shell.py:108 promise the tail to the
\* poll that reports the exit, without these: in the first case it reports "exited" all the
\* same and the tail is for the next poll; what a thread that failed left is never read.
TailIsReported ==
    /\ known + cut = cursor
    /\ poll \in {"asks", "idle"} /\ sawExit /\ ~gaveUp /\ reader # "failed" => cursor = written
=============================================================================
