--------------------------- MODULE ToolCallProofs ---------------------------
(***************************************************************************)
(* Proofs about a call of a tool: ToolApproval, for every set of targets,  *)
(* commands and rules, any number of turns and of calls under way;         *)
(* ShellCommands, for every size of a result and every amount of output;   *)
(* FileTools, for any files and contents and every list of edits;          *)
(* WebSearch, for any set of URLs and any number of pages and attempts;    *)
(* and the types of all of them, MCP servers and parallel tasks included.  *)
(***************************************************************************)
EXTENDS MCTools, McpServersProofs, ParallelTasksProofs, WellFoundedInduction

-----------------------------------------------------------------------------
SlotSet == [pc : {"idle", "approval", "asking", "hooks", "run"},
            call : Calls \cup {NoCall}, yes : BOOLEAN]

\* What the user or a rule has to have said of a destructive command.
Consented(s) ==
    \/ s.yes
    \/ s.call.target \notin deny
       /\ (s.call.target \in allow \/ Covered(configured \cup promised, s.call))
Sensitive(s) == s.call.tool \in ShellTools /\ s.call.target \in Destructive

\* A call under way, and one that the policy and the approval have let through.
SlotOK(s) ==
    /\ s.pc # "idle" => s.call \in Calls /\ (s.call.target \in DOMAIN Printed => Prefetched(s.call))
    /\ s.pc \in {"asking", "hooks", "run"} => PolicyAllows(s.call)
    /\ s.pc \in {"hooks", "run"} /\ Sensitive(s) => Consented(s)

\* What the manager of the turn allows, the configuration or the user has allowed.
ListsOK == aliased \/ own \subseteq promised
\* Before the session starts no call is under way.
StartOK == /\ mode = Unset => turns = 0
           /\ turns = 0 => \A i \in Slots : slot[i].pc = "idle"

ApprovalInv ==
    /\ turns \in Nat /\ ListsOK /\ StartOK
    /\ slot \in [Slots -> SlotSet]
    /\ \A i \in Slots : SlotOK(slot[i])

-----------------------------------------------------------------------------
LEMMA IdleInSet == FreeSlot \in SlotSet /\ FreeSlot.pc = "idle"
BY Zenon DEF FreeSlot, SlotSet

LEMMA NewPc ==
    ASSUME NEW s \in SlotSet, NEW to \in {"idle", "approval", "asking", "hooks", "run"}
    PROVE  /\ [s EXCEPT !.pc = to] \in SlotSet
           /\ [s EXCEPT !.pc = to].pc = to
           /\ [s EXCEPT !.pc = to].call = s.call
           /\ [s EXCEPT !.pc = to].yes = s.yes
BY DEF SlotSet

LEMMA NewYes ==
    ASSUME NEW s \in SlotSet
    PROVE  /\ [s EXCEPT !.pc = "hooks", !.yes = TRUE] \in SlotSet
           /\ [s EXCEPT !.pc = "hooks", !.yes = TRUE].yes
           /\ [s EXCEPT !.pc = "hooks", !.yes = TRUE].pc = "hooks"
           /\ [s EXCEPT !.pc = "hooks", !.yes = TRUE].call = s.call
BY DEF SlotSet

\* The approval lets a destructive command through only when the lists cover it.
LEMMA AllowedIsCovered ==
    ASSUME NEW c \in Calls, c.tool \in ShellTools, c.target \in Destructive,
           Decision(c) = "allowed", ListsOK
    PROVE  /\ c.target \notin deny
           /\ c.target \in allow \/ Covered(configured \cup promised, c)
<1>1. c.tool \notin FileTools
      BY DEF ShellTools, FileTools
<1>2. CASE c.target \in deny
      BY <1>1, <1>2 DEF Decision
<1>3. CASE c.target \in allow \ deny
      BY <1>3
<1>4. CASE c.target \notin allow \cup deny
  <2>1. ShellAllowed(c)
        BY <1>1, <1>4 DEF Decision
  <2>2. Covered(sessionAllow, c)
        BY <2>1 DEF ShellAllowed
  <2> QED
      BY <1>4, <2>2 DEF Covered, sessionAllow, ListsOK
<1> QED
    BY <1>2, <1>3, <1>4

\* In a read-only turn the policy lets through what reads.
LEMMA PolicyReads ==
    ASSUME NEW c \in Calls, readOnly, PolicyAllows(c)
    PROVE  c.tool = "read_file"
<1>1. c.tool \in {"write_file", "apply_edits", "read_file", "run_command", "run_tests"}
      BY DEF Calls, ToolCall, ShellTools
<1>2. Category(c.tool) \notin {"mutation", "shell", "validation"}
      BY DEF PolicyAllows
<1>3. ASSUME c.tool = "write_file" PROVE FALSE
      BY <1>2, <1>3 DEF Category, Known, FileTools
<1>4. ASSUME c.tool = "apply_edits" PROVE FALSE
  <2>1. Known(c.tool) = "unknown"
        BY <1>4 DEF Known, FileTools
  <2> QED
      BY <1>2, <1>4, <2>1 DEF Category, DefinedReadOnly
<1>5. ASSUME c.tool = "run_command" PROVE FALSE
      BY <1>2, <1>5 DEF Category, Known, FileTools
<1>6. ASSUME c.tool = "run_tests" PROVE FALSE
      BY <1>2, <1>6 DEF Category, Known, FileTools
<1> QED
    BY <1>1, <1>3, <1>4, <1>5, <1>6

\* A step of one call leaves the others as they are.
LEMMA OneSlot ==
    ASSUME NEW i \in Slots, NEW new \in SlotSet, slot \in [Slots -> SlotSet],
           slot' = [slot EXCEPT ![i] = new]
    PROVE  /\ slot' \in [Slots -> SlotSet]
           /\ \A j \in Slots : slot'[j] = IF j = i THEN new ELSE slot[j]
OBVIOUS

LEMMA ApprovalInvInit == ApprovalInit => ApprovalInv
<1> SUFFICES ASSUME ApprovalInit PROVE ApprovalInv
    OBVIOUS
<1>1. slot \in [Slots -> SlotSet] /\ \A i \in Slots : slot[i].pc = "idle"
      BY IdleInSet DEF ApprovalInit
<1>2. \A i \in Slots : SlotOK(slot[i])
      BY <1>1 DEF SlotOK
<1> QED
    BY <1>1, <1>2 DEF ApprovalInit, ApprovalInv, ListsOK, StartOK

\* A step that changes one call, and neither rules nor lists, keeps the invariant when
\* it leaves that call in order.
LEMMA RestStep ==
    ASSUME ApprovalInv, Rest, turns > 0, NEW i \in Slots, NEW new \in SlotSet,
           slot' = [slot EXCEPT ![i] = new], SlotOK(new)
    PROVE  ApprovalInv'
<1>1. /\ slot' \in [Slots -> SlotSet]
      /\ \A j \in Slots : slot'[j] = IF j = i THEN new ELSE slot[j]
      BY OneSlot DEF ApprovalInv
<1>2. ASSUME NEW j \in Slots PROVE SlotOK(slot'[j])
      BY <1>1, <1>2 DEF ApprovalInv
<1>3. \A s : SlotOK(s) <=> SlotOK(s)'
      BY DEF Rest, config, SlotOK, Sensitive, Consented, PolicyAllows, Covered
<1> QED
    BY <1>1, <1>2, <1>3 DEF ApprovalInv, Rest, config, ListsOK, StartOK

\* A call that is under way belongs to a turn.
LEMMA BusyTurn ==
    ASSUME ApprovalInv, NEW i \in Slots, slot[i].pc # "idle"
    PROVE  turns > 0
BY DEF ApprovalInv, StartOK

-----------------------------------------------------------------------------
LEMMA FreeStep ==
    ASSUME ApprovalInv, NEW i \in Slots, slot[i].pc # "idle", Free(i), Rest
    PROVE  ApprovalInv'
<1>1. SlotOK(FreeSlot)
      BY IdleInSet DEF SlotOK
<1> QED
    BY <1>1, BusyTurn, IdleInSet, RestStep DEF Free

LEMMA BecomeStep ==
    ASSUME ApprovalInv, NEW i \in Slots, slot[i].pc # "idle",
           NEW to \in {"asking", "hooks", "run"}, Become(i, to), Rest,
           PolicyAllows(slot[i].call),
           to # "asking" /\ Sensitive(slot[i]) => Consented(slot[i])
    PROVE  ApprovalInv'
<1> DEFINE s == slot[i]
           new == [s EXCEPT !.pc = to]
<1>1. s \in SlotSet /\ s.call \in Calls /\ (s.call.target \in DOMAIN Printed => Prefetched(s.call))
      BY DEF ApprovalInv, SlotOK
<1>2. new \in SlotSet /\ new.pc = to /\ new.call = s.call /\ new.yes = s.yes
  <2>1. to \in {"idle", "approval", "asking", "hooks", "run"}
        OBVIOUS
  <2> QED
      BY <1>1, <2>1, NewPc, Zenon
<1>3. slot' = [slot EXCEPT ![i] = new]
      BY DEF Become
<1> HIDE DEF new
<1>4. SlotOK(new)
  <2>1. Sensitive(new) = Sensitive(s)
        BY <1>2 DEF Sensitive
  <2>2. Consented(new) <=> Consented(s)
        BY <1>2, Zenon DEF Consented
  <2> QED
      BY <1>1, <1>2, <2>1, <2>2 DEF SlotOK
<1> QED
    BY <1>2, <1>3, <1>4, BusyTurn, RestStep

LEMMA CheckStep ==
    ASSUME ApprovalInv, NEW i \in Slots, Check(i)
    PROVE  ApprovalInv'
<1>1. slot[i].pc = "approval" /\ PolicyAllows(slot[i].call) /\ Rest /\ slot[i].call \in Calls
      BY DEF Check, ApprovalInv, SlotOK
<1>2. CASE Decision(slot[i].call) = "allowed" /\ Become(i, "hooks")
  <2>1. Sensitive(slot[i]) => Consented(slot[i])
        BY <1>1, <1>2, AllowedIsCovered DEF Sensitive, Consented, ApprovalInv
  <2> QED
      BY <1>1, <1>2, <2>1, BecomeStep
<1>3. CASE Become(i, "asking")
      BY <1>1, <1>3, BecomeStep
<1>4. CASE Free(i)
      BY <1>1, <1>4, FreeStep
<1> QED
    BY <1>2, <1>3, <1>4 DEF Check

LEMMA YesIsConsent ==
    ASSUME ApprovalInv, NEW i \in Slots, slot[i].pc = "asking",
           NEW new, new = [slot[i] EXCEPT !.pc = "hooks", !.yes = TRUE]
    PROVE  new \in SlotSet /\ SlotOK(new)
<1>1. /\ slot[i] \in SlotSet /\ slot[i].call \in Calls /\ PolicyAllows(slot[i].call)
      /\ slot[i].call.target \in DOMAIN Printed => Prefetched(slot[i].call)
      BY DEF ApprovalInv, SlotOK
<1>2. new \in SlotSet /\ new.yes /\ new.pc = "hooks" /\ new.call = slot[i].call
      BY <1>1, NewYes
<1> QED
    BY <1>1, <1>2 DEF SlotOK, Consented

LEMMA ApproveStep ==
    ASSUME ApprovalInv, NEW i \in Slots, Approve(i)
    PROVE  ApprovalInv'
<1> DEFINE new == [slot[i] EXCEPT !.pc = "hooks", !.yes = TRUE]
<1>1. slot[i].pc = "asking" /\ Rest /\ slot' = [slot EXCEPT ![i] = new]
      BY DEF Approve
<1>2. new \in SlotSet /\ SlotOK(new)
      BY <1>1, YesIsConsent
<1> QED
    BY <1>1, <1>2, BusyTurn, RestStep

\* What is allowed for the session only adds to the lists.
LEMMA AllowSessionStep ==
    ASSUME ApprovalInv, NEW i \in Slots, AllowSession(i)
    PROVE  ApprovalInv'
<1> DEFINE new == [slot[i] EXCEPT !.pc = "hooks", !.yes = TRUE]
           r == {SessionRule(slot[i].call)}
<1>1. /\ slot[i].pc = "asking" /\ slot' = [slot EXCEPT ![i] = new]
      /\ promised' = promised \cup r
      /\ \/ aliased /\ configured' = configured \cup r /\ own' = own
         \/ ~aliased /\ own' = own \cup r /\ configured' = configured
      /\ UNCHANGED <<mode, deny, allow, interactive, aliased, readOnly, turns, submitted>>
      BY DEF AllowSession, config
<1>2. new \in SlotSet /\ SlotOK(new)
      BY <1>1, YesIsConsent
<1>3. /\ slot' \in [Slots -> SlotSet]
      /\ \A j \in Slots : slot'[j] = IF j = i THEN new ELSE slot[j]
      BY <1>1, <1>2, OneSlot DEF ApprovalInv
<1> HIDE DEF new, r
<1>4. \A s : SlotOK(s) => SlotOK(s)'
  <2>1. \A s : Consented(s) => Consented(s)'
        BY <1>1 DEF Consented, Covered
  <2> QED
      BY <1>1, <2>1 DEF SlotOK, Sensitive, PolicyAllows
<1>5. ASSUME NEW j \in Slots PROVE SlotOK(slot'[j])
      BY <1>2, <1>3, <1>5 DEF ApprovalInv
<1>6. ListsOK'
      BY <1>1 DEF ApprovalInv, ListsOK
<1>7. turns' \in Nat /\ StartOK'
      BY <1>1, BusyTurn DEF ApprovalInv, StartOK
<1> QED
    BY <1>3, <1>4, <1>5, <1>6, <1>7 DEF ApprovalInv

LEMMA SubmitStep ==
    ASSUME ApprovalInv, NEW i \in Slots, NEW c \in Calls, Submit(i, c)
    PROVE  ApprovalInv'
<1> DEFINE new == [pc |-> "approval", call |-> c, yes |-> FALSE]
<1>1. new \in SlotSet
      BY Zenon DEF SlotSet
<1>2. SlotOK(new)
      BY DEF SlotOK, Submit
<1>3. turns > 0 /\ slot' = [slot EXCEPT ![i] = new]
      BY DEF Submit
<1>4. /\ slot' \in [Slots -> SlotSet]
      /\ \A j \in Slots : slot'[j] = IF j = i THEN new ELSE slot[j]
      BY <1>1, <1>3, OneSlot DEF ApprovalInv
<1>5. ASSUME NEW j \in Slots PROVE SlotOK(slot'[j])
      BY <1>2, <1>4, <1>5 DEF ApprovalInv
<1>6. \A s : SlotOK(s) <=> SlotOK(s)'
      BY DEF Submit, config, SlotOK, Sensitive, Consented, PolicyAllows, Covered
<1>7. turns' \in Nat /\ ListsOK' /\ StartOK'
  <2>1. UNCHANGED <<mode, aliased, own, promised, turns>>
        BY DEF Submit, config
  <2> QED
      BY <1>3, <2>1 DEF ApprovalInv, ListsOK, StartOK
<1>8. \A j \in Slots : SlotOK(slot[j])'
      BY <1>5, <1>6
<1> QED
    BY <1>4, <1>7, <1>8 DEF ApprovalInv

\* The session and its turns start when no call is under way.
LEMMA ConfigureStep ==
    ASSUME ApprovalInv, NEW m \in Modes, NEW tty, NEW d, NEW a, NEW s, Configure(m, tty, d, a, s)
    PROVE  ApprovalInv'
<1>1. turns = 0 /\ \A i \in Slots : slot[i].pc = "idle"
      BY DEF ApprovalInv, StartOK, Configure
<1>2. \A i \in Slots : SlotOK(slot[i])'
      BY <1>1 DEF Configure, SlotOK
<1> QED
    BY <1>1, <1>2 DEF ApprovalInv, Configure, ListsOK, StartOK

LEMMA NextTurnStep ==
    ASSUME ApprovalInv, NEW ro, NextTurn(ro), MaxTurns \in Nat
    PROVE  ApprovalInv'
<1>1. \A i \in Slots : slot[i].pc = "idle"
      BY IdleInSet DEF NextTurn
<1>2. \A i \in Slots : SlotOK(slot[i])'
      BY <1>1 DEF NextTurn, SlotOK
<1> QED
    BY <1>1, <1>2 DEF ApprovalInv, NextTurn, config, ListsOK, StartOK

\* The steps of one call.
LEMMA SlotStep ==
    ASSUME ApprovalInv, NEW i \in Slots,
           \/ PolicyDenies(i) \/ Check(i) \/ Approve(i) \/ AllowSession(i)
           \/ Refuse(i) \/ Hooks(i) \/ Run(i)
    PROVE  ApprovalInv'
<1>1. CASE PolicyDenies(i) \/ Refuse(i) \/ Run(i)
      BY <1>1, FreeStep DEF PolicyDenies, Refuse, Run
<1>2. CASE Hooks(i)
  <2>1. slot[i].pc = "hooks" /\ Rest /\ SlotOK(slot[i])
        BY <1>2 DEF Hooks, ApprovalInv
  <2>2. PolicyAllows(slot[i].call) /\ (Sensitive(slot[i]) => Consented(slot[i]))
        BY <2>1 DEF SlotOK
  <2>3. CASE Become(i, "run")
        BY <2>1, <2>2, <2>3, BecomeStep
  <2>4. CASE Free(i)
        BY <2>1, <2>4, FreeStep
  <2> QED
      BY <1>2, <2>3, <2>4 DEF Hooks
<1> QED
    BY <1>1, <1>2, CheckStep, ApproveStep, AllowSessionStep

LEMMA ApprovalStep ==
    ASSUME ApprovalInv, [ApprovalNext]_approvalVars, MaxTurns \in Nat
    PROVE  ApprovalInv'
<1>1. CASE UNCHANGED approvalVars
  <2>1. \A s : SlotOK(s) <=> SlotOK(s)'
        BY <1>1 DEF approvalVars, config, SlotOK, Sensitive, Consented, PolicyAllows, Covered
  <2> QED
      BY <1>1, <2>1 DEF approvalVars, config, ApprovalInv, ListsOK, StartOK
<1>2. ASSUME NEW m \in Modes, NEW tty \in BOOLEAN, NEW d \in AtMostOne(Paths \cup Commands),
             NEW a \in AtMostOne(Paths \cup Commands), NEW s \in AtMostOne(Commands),
             Configure(m, tty, d, a, s)
      PROVE  ApprovalInv'
      BY <1>2, ConfigureStep
<1>3. ASSUME NEW ro \in BOOLEAN, NextTurn(ro) PROVE ApprovalInv'
      BY <1>3, NextTurnStep
<1>4. ASSUME NEW i \in Slots, NEW c \in Calls, Submit(i, c) PROVE ApprovalInv'
      BY <1>4, SubmitStep
<1> QED
    BY <1>1, <1>2, <1>3, <1>4, SlotStep DEF ApprovalNext

LEMMA ApprovalInvariant == ApprovalSpec => []ApprovalInv
<1>0. MaxTurns \in Nat
      BY ApprovalAssumption
<1>1. ApprovalInit => ApprovalInv
      BY <1>0, ApprovalInvInit
<1>2. ApprovalInv /\ [ApprovalNext]_approvalVars => ApprovalInv'
      BY <1>0, ApprovalStep
<1> QED
    BY <1>1, <1>2, PTL DEF ApprovalSpec

\* In every mode, with every rule and however the calls of several turns interleave, a
\* destructive command runs only when the user or a rule has let it, unless it is a list
\* given to run_tests whose printed form is not destructive (DestructiveNeedsConsent).
THEOREM DestructiveNeedsConsentCorrect == ApprovalSpec => []DestructiveNeedsConsent
<1>1. ApprovalInv => DestructiveNeedsConsent
  <2> SUFFICES ASSUME ApprovalInv, NEW i \in Slots, slot[i].pc = "run", slot[i].call.tool \in ShellTools,
                      Executed(slot[i].call) \in Destructive
               PROVE  \/ Consented(slot[i])
                      \/ /\ slot[i].call.tool = "run_tests"
                         /\ slot[i].call.target \in DOMAIN Printed \ Destructive
      BY DEF DestructiveNeedsConsent, Consented
  <2>1. SlotOK(slot[i])
        BY DEF ApprovalInv
  <2>2. CASE slot[i].call.target \in Destructive
        BY <2>1, <2>2 DEF SlotOK, Sensitive
  <2>3. CASE slot[i].call.target \notin Destructive
    <3>1. slot[i].call.target \in DOMAIN Printed
          BY <2>3 DEF Executed
    <3>2. Prefetched(slot[i].call)
          BY <2>1, <3>1 DEF SlotOK
    <3> QED
        BY <2>3, <3>1, <3>2 DEF Prefetched, ShellTools
  <2> QED
      BY <2>2, <2>3
<1> QED
    BY <1>1, ApprovalInvariant, PTL

\* Nothing but a reading tool runs in a turn that asked for no changes: neither a rule,
\* nor what the user allows for the session, nor a tool unknown to the policy gets past it.
THEOREM ReadOnlyTurnsCorrect == ApprovalSpec => []ReadOnlyTurns
<1>1. ApprovalInv => ReadOnlyTurns
      BY PolicyReads DEF ApprovalInv, SlotOK, ReadOnlyTurns
<1> QED
    BY <1>1, ApprovalInvariant, PTL


-----------------------------------------------------------------------------
\* The types of the flags, and of everything else.
Flags == child \in BOOLEAN /\ sawExit \in BOOLEAN /\ gaveUp \in BOOLEAN
Ranges ==
    /\ form \in Forms \cup {"none"}
    /\ proc \in Codes \cup {"none", "running", "killed"}
    /\ written \in 0..MaxWritten /\ pumped \in 0..written /\ cursor \in 0..written
    /\ reader \in {"none", "reading", "ended", "failed"}
    /\ poll \in {"idle", "joins", "reads", "asks", "waiting", "killing", "returned"}
    /\ polls \in 0..MaxPolls
    /\ known + cut <= written
    /\ status \in {"none", "running", "exited", "terminated", "ok", "failed", "timed_out", "cancelled"}

\* Once the thread that reads has ended by itself, nothing can write any more.
ReaderEnded ==
    /\ proc = "none" => reader = "none"
    /\ form # "none" => proc # "none" /\ reader # "none"
    /\ poll # "idle" => form # "none"
    /\ reader = "ended" =>
           proc \notin {"none", "running"} /\ ~child /\ pumped = written

\* A poll that has found the process ended, and has not given up, has waited for the thread.
ExitIsWaitedFor ==
    /\ sawExit => proc \notin {"none", "running"}
    /\ sawExit /\ ~gaveUp /\ poll \in {"reads", "asks", "idle"} => reader \in {"ended", "failed"}

Measured == known \in Nat /\ cut \in Nat /\ cursor <= pumped

Reading == Ranges /\ Measured /\ ReaderEnded /\ ExitIsWaitedFor /\ TailIsReported
ShellInv == Flags /\ Reading

-----------------------------------------------------------------------------
\* The initial states satisfy the invariant.
LEMMA ShellInvInit == ASSUME Sizes, ShellInit PROVE ShellInv
<1>1. Flags
      BY Zenon DEF ShellInit, Flags
<1>2. Reading
      BY DEF Sizes, ShellInit, Reading, Ranges, Measured, ReaderEnded, ExitIsWaitedFor,
             TailIsReported, Forms, Codes
<1> QED
    BY <1>1, <1>2 DEF ShellInv

\* Every step keeps the flags flags.
LEMMA StepFlags == ASSUME Flags, ShellNext PROVE Flags'
<1>1. CASE \/ \E m \in Forms : Launch(m)
           \/ Writes \/ Pump \/ PumpFails \/ Kill \/ Returns \/ TimesOut \/ TurnCancelled
           \/ ReadsNew \/ Asks \/ \E code \in Codes : Exits(code)
      BY <1>1, Zenon DEF Flags, Launch, Writes, Pump, PumpFails, Kill, Returns, TimesOut,
             TurnCancelled, ReadsNew, Asks, Exits, Job, View, checks
<1>2. CASE Forks \/ ChildExits
      BY <1>2, Zenon DEF Flags, Forks, ChildExits, Job, View, checks
<1>3. CASE Poll \/ Joins
  <2>1. /\ child' = child /\ (sawExit' = sawExit \/ sawExit' = (proc # "running"))
        /\ gaveUp' = FALSE \/ gaveUp' = (reader = "reading")
        BY <1>3, Zenon DEF Poll, Joins, Job
  <2> QED
      BY <2>1, Zenon DEF Flags
<1> QED
    BY <1>1, <1>2, <1>3, Zenon DEF ShellNext

\* What the process, its child and the thread do preserves the rest.
LEMMA JobSteps ==
    ASSUME Sizes, ShellInv,
           Writes \/ Forks \/ ChildExits \/ Pump \/ PumpFails \/ (\E code \in Codes : Exits(code))
    PROVE  Reading'
<1> USE DEF Sizes, ShellInv, Flags, Reading, Ranges, Measured, ReaderEnded,
            ExitIsWaitedFor, TailIsReported, View, checks, Forms, Codes
<1>1. CASE Writes
      BY <1>1 DEF Writes
<1>2. CASE Forks
      BY <1>2 DEF Forks
<1>3. CASE ChildExits
      BY <1>3 DEF ChildExits
<1>4. CASE Pump
  <2>1. /\ reader = "reading"
        /\ \/ pumped < written /\ pumped' = pumped + 1 /\ reader' = reader
           \/ proc # "running" /\ ~child /\ reader' = "ended" /\ pumped' = pumped /\ ~(pumped < written)
        /\ UNCHANGED <<form, proc, child, written>> /\ UNCHANGED View
        BY <1>4 DEF Pump
  <2>2. CASE pumped < written /\ pumped' = pumped + 1 /\ reader' = reader
        BY <2>1, <2>2
  <2>3. CASE proc # "running" /\ ~child /\ reader' = "ended" /\ pumped' = pumped /\ ~(pumped < written)
        BY <2>1, <2>3
  <2> QED
      BY <2>1, <2>2, <2>3
<1>5. CASE \E code \in Codes : Exits(code)
      BY <1>5 DEF Exits
<1>6. CASE PumpFails
      BY <1>6 DEF PumpFails
<1> QED
    BY <1>1, <1>2, <1>3, <1>4, <1>5, <1>6

\* So does what the model asks of a background command.
LEMMA PollSteps ==
    ASSUME Sizes, ShellInv, Poll \/ Joins \/ ReadsNew \/ Asks \/ Kill
    PROVE  Reading'
<1> USE DEF Sizes, ShellInv, Flags, Reading, Ranges, Measured, ReaderEnded,
            ExitIsWaitedFor, TailIsReported, Job, checks, Forms, Codes
<1>1. CASE Poll
  <2>1. /\ poll = "idle" /\ polls < MaxPolls /\ polls' = polls + 1
        /\ UNCHANGED <<form, proc, child, written, pumped, reader, cursor, known, cut, status>>
        /\ form = "background"
        BY <1>1 DEF Poll
  <2>2. \/ sawExit' = FALSE /\ poll' = "reads"
        \/ sawExit' = TRUE /\ poll' = "joins" /\ proc # "running"
    <3> HIDE DEF ShellInv, Flags
    <3>1. sawExit' = (proc # "running") /\ poll' = IF sawExit' THEN "joins" ELSE "reads"
          BY <1>1, Zenon DEF Poll
    <3> QED
        BY <3>1, Zenon
  <2> QED
      BY <2>1, <2>2
<1>2. CASE Joins
  <2>1. /\ poll = "joins" /\ poll' = "reads" /\ sawExit' = sawExit
        /\ UNCHANGED <<form, polls, proc, child, written, pumped, reader, cursor, known, cut, status>>
        BY <1>2 DEF Joins
  <2>2. gaveUp' = TRUE \/ (gaveUp' = FALSE /\ reader # "reading")
    <3>1. gaveUp' = (reader = "reading")
          BY <1>2, Zenon DEF Joins
    <3> QED
        BY <3>1, Zenon
  <2> QED
      BY <2>1, <2>2
<1>3. CASE ReadsNew
  <2>1. /\ known' + cut' = cursor'
        /\ known' \in Nat /\ cut' \in Nat /\ cursor' = pumped
        BY <1>3 DEF ReadsNew
  <2> QED
      BY <1>3, <2>1 DEF ReadsNew
<1>4. CASE Asks
      BY <1>4 DEF Asks
<1>5. CASE Kill
      BY <1>5 DEF Kill
<1> QED
    BY <1>1, <1>2, <1>3, <1>4, <1>5

\* And so do the start of a command and a call that waits for it.
LEMMA CallSteps ==
    ASSUME Sizes, ShellInv,
           (\E m \in Forms : Launch(m)) \/ Returns \/ TimesOut \/ TurnCancelled
    PROVE  Reading'
<1> USE DEF Sizes, ShellInv, Flags, Reading, Ranges, Measured, ReaderEnded,
            ExitIsWaitedFor, TailIsReported, Job, checks, Forms, Codes
<1>1. CASE \E m \in Forms : Launch(m)
      BY <1>1 DEF Launch
<1>2. CASE Returns
  <2>1. /\ known' + cut' = cursor'
        /\ known' \in Nat /\ cut' \in Nat /\ cursor' = written
        BY <1>2 DEF Returns, Shows
  <2>2. status' \in {"ok", "failed", "timed_out"}
        BY <1>2 DEF Returns
  <2>3. /\ pumped = written /\ poll' = "returned" /\ poll # "idle"
        /\ UNCHANGED <<form, sawExit, gaveUp, polls, proc, child, written, pumped, reader>>
        BY <1>2 DEF Returns, Collected, checks
  <2>4. Ranges'
    <3>1. /\ written' \in 0..MaxWritten /\ pumped' \in 0..written' /\ cursor' \in 0..written'
          /\ known' + cut' <= written'
      <4>1. written \in 0..MaxWritten /\ MaxWritten \in Nat
            BY DEF Sizes
      <4>2. written' = written /\ pumped' = written /\ cursor' = written
            BY <2>1, <2>3
      <4>3. known' + cut' = written
            BY <2>1
      <4> HIDE DEF Sizes, ShellInv, Ranges
      <4> QED
          BY <4>1, <4>2, <4>3
    <3>2. form' \in Forms \cup {"none"} /\ proc' \in Codes \cup {"none", "running", "killed"}
          BY <2>3
    <3> QED
        BY <2>2, <2>3, <3>1, <3>2
  <2>5. Measured'
        BY <2>1, <2>2, <2>3
  <2>6. ReaderEnded' /\ ExitIsWaitedFor' /\ TailIsReported'
        BY <2>1, <2>2, <2>3
  <2> QED
      BY <2>4, <2>5, <2>6
<1>3. CASE TimesOut
      BY <1>3 DEF TimesOut
<1>4. CASE TurnCancelled
      BY <1>4 DEF TurnCancelled
<1> QED
    BY <1>1, <1>2, <1>3, <1>4

LEMMA ShellStep == ASSUME ShellInv, [ShellNext]_shellVars PROVE ShellInv'
<1>0. Sizes
      BY ShellAssumption
<1>1. ASSUME ShellNext PROVE ShellInv'
  <2>1. Reading'
        BY <1>0, <1>1, JobSteps, PollSteps, CallSteps DEF ShellNext
  <2> QED
      BY <1>1, <2>1, StepFlags DEF ShellInv
<1>2. ASSUME UNCHANGED shellVars PROVE ShellInv'
      BY <1>2 DEF shellVars, ShellInv, Flags, Reading, Ranges, Measured, ReaderEnded,
                  ExitIsWaitedFor, TailIsReported, checks
<1> QED
    BY <1>1, <1>2

\* Every state of a command satisfies the invariant.
LEMMA ShellInvariant == ShellSpec => []ShellInv
<1>1. ShellInit => ShellInv
      BY ShellAssumption, ShellInvInit
<1>2. ShellInv /\ [ShellNext]_shellVars => ShellInv'
      BY ShellStep
<1> QED
    BY <1>1, <1>2, PTL DEF ShellSpec

\* A poll that finds a command ended when it begins, whose pipe no child holds and whose
\* output can be decoded, has counted every line of it, however long the output and however
\* little a result shows (background_jobs.py:44-69, shell.py:110-113).
THEOREM TailIsReportedCorrect == ShellSpec => []TailIsReported
<1>1. ShellInv => TailIsReported
      BY DEF ShellInv, Reading
<1> QED
    BY <1>1, ShellInvariant, PTL

-----------------------------------------------------------------------------
(* The files a list of edits leaves.                                       *)

\* Every file has a content, and had one when the call began.
EveryFile(f) == f = [p \in EditPaths |-> f[p]]

\* A list of edits is under way, or the last call has failed: then what is not as it
\* was when the call began is a file that has been written, or that others changed.
Unsettled == edits # <<>> \/ ~result.ok
Excused(p) == disk[p] # before[p] => p \in torn \cup others

FilesInv ==
    /\ EveryFile(disk) /\ EveryFile(before)
    /\ Unsettled => \A p \in EditPaths : Excused(p)

LEMMA Verdicts == Ok.ok = TRUE /\ \A e : Error(e).ok = FALSE
BY DEF Ok, Error

LEMMA FilesStart == FilesInit => FilesInv
<1> SUFFICES ASSUME FilesInit PROVE FilesInv
  OBVIOUS
<1>1. disk = [p \in EditPaths |-> Absent] /\ before = disk /\ edits = <<>> /\ result.ok = TRUE
  BY Verdicts DEF FilesInit
<1> QED BY <1>1, Zenon DEF FilesInv, Unsettled, Excused, EveryFile

\* One file gets another content.
LEMMA Changes ==
    ASSUME FilesInv, NEW p, NEW v, disk' = [disk EXCEPT ![p] = v]
    PROVE  EveryFile(disk') /\ \A q \in EditPaths : q # p => disk'[q] = disk[q]
<1>1. EveryFile(disk)
  BY DEF FilesInv
<1>2. disk' = [q \in EditPaths |-> IF q = p THEN v ELSE disk[q]]
  BY <1>1, Zenon DEF EveryFile
<1> QED BY <1>2, Zenon DEF EveryFile

\* A call that is over with its first step: it succeeds, leaves the files alone, or
\* fails in the file it has written.
LEMMA CallIsExcused ==
    ASSUME FilesInv, Begins, EveryFile(disk'),
           \/ result'.ok /\ edits' = <<>>
           \/ disk' = disk
           \/ \E p : p \in torn' /\ \A q \in EditPaths : q # p => disk'[q] = disk[q]
    PROVE  FilesInv'
<1>1. before' = disk
  BY DEF Begins
<1>2. Unsettled' => \A p \in EditPaths : Excused(p)'
  BY <1>1, Zenon DEF Unsettled, Excused
<1> QED BY <1>1, <1>2, Zenon DEF FilesInv

LEMMA RefusedIsExcused == ASSUME FilesInv, Begins, NEW e, Refused(e) PROVE FilesInv'
<1>1. disk' = disk /\ EveryFile(disk')
  BY Zenon DEF Refused, FilesInv, EveryFile
<1> QED BY <1>1, CallIsExcused, Zenon

LEMMA WrittenIsExcused == ASSUME FilesInv, Begins, NEW p, NEW text, Written(p, text) PROVE FilesInv'
<1>1. edits' = <<>>
  BY Zenon DEF Begins, Between, Written
<1>2. CASE disk' = [disk EXCEPT ![p] = text] /\ result' = Ok
  <2>1. EveryFile(disk')
    BY <1>2, Changes, Zenon
  <2> QED BY <1>1, <1>2, <2>1, Verdicts, CallIsExcused, Zenon
<1>3. CASE disk' \in {disk, [disk EXCEPT ![p] = <<>>]} /\ torn' = {p}
  <2>1. EveryFile(disk') /\ \A q \in EditPaths : q # p => disk'[q] = disk[q]
    BY <1>3, Changes, Zenon DEF FilesInv
  <2>2. p \in torn'
    BY <1>3
  <2> QED BY <2>1, <2>2, CallIsExcused, Zenon
<1> QED BY <1>2, <1>3, Zenon DEF Written

LEMMA OkIsExcused == ASSUME FilesInv, Begins, result' = Ok, UNCHANGED edits, EveryFile(disk') PROVE FilesInv'
<1>1. edits' = <<>>
  BY DEF Begins, Between
<1> QED BY <1>1, Verdicts, CallIsExcused, Zenon

LEMMA ReadExcused == ASSUME FilesInv, NEW p, NEW start, NEW end, Read(p, start, end) PROVE FilesInv'
<1>1. CASE \E e : Refused(e)
  BY <1>1, RefusedIsExcused, Zenon DEF Read
<1>2. CASE result' = Ok /\ UNCHANGED <<disk, edits>>
  <2>1. EveryFile(disk')
    BY <1>2, Zenon DEF FilesInv, EveryFile
  <2> QED BY <1>2, <2>1, OkIsExcused, Zenon DEF Read
<1> QED BY <1>1, <1>2, Zenon DEF Read

LEMMA WriteExcused ==
    ASSUME FilesInv, NEW p, NEW text, NEW fresh, NEW named, Write(p, text, fresh, named)
    PROVE  FilesInv'
BY RefusedIsExcused, WrittenIsExcused, Zenon DEF Write

LEMMA PatchExcused ==
    ASSUME FilesInv, NEW p, NEW patches, NEW named, Patch(p, patches, named) PROVE FilesInv'
BY RefusedIsExcused, WrittenIsExcused, Zenon DEF Patch

LEMMA ReplaceExcused ==
    ASSUME FilesInv, NEW p, NEW word, NEW indent, NEW lines, Replace(p, word, indent, lines)
    PROVE  FilesInv'
BY RefusedIsExcused, WrittenIsExcused, Zenon DEF Replace

LEMMA DeleteExcused ==
    ASSUME FilesInv, NEW p, NEW missingOk, NEW named, NEW keeps, Delete(p, missingOk, named, keeps)
    PROVE  FilesInv'
<1>1. CASE \E e : Refused(e)
  BY <1>1, RefusedIsExcused, Zenon DEF Delete
<1>2. CASE result' = Ok /\ UNCHANGED edits /\ (disk' = disk \/ disk' = [disk EXCEPT ![p] = Absent])
  <2>1. EveryFile(disk')
    BY <1>2, Changes, Zenon DEF FilesInv, EveryFile
  <2> QED BY <1>2, <2>1, OkIsExcused, Zenon DEF Delete
<1> QED BY <1>1, <1>2, Zenon DEF Delete

LEMMA EditsExcused == ASSUME FilesInv, NEW list, Edits(list) PROVE FilesInv'
<1>1. disk' = disk /\ EveryFile(disk')
  BY Zenon DEF Edits, FilesInv, EveryFile
<1> QED BY <1>1, CallIsExcused, Zenon DEF Edits

\* The next file of the list is written.
LEMMA EditNextExcused == ASSUME FilesInv, EditNext PROVE FilesInv'
<1> DEFINE p == Head(edits).path
           text == Head(edits).text
<1>1. disk' = [disk EXCEPT ![p] = text]
  BY DEF EditNext
<1> HIDE DEF p, text
<1>2. EveryFile(disk') /\ \A q \in EditPaths : q # p => disk'[q] = disk[q]
  BY <1>1, Changes, Zenon
<1>3. torn' = torn \cup {p} /\ others' = others /\ before' = before
  BY DEF EditNext, p
<1>4. \A q \in EditPaths : Excused(q)
  BY Zenon DEF FilesInv, Unsettled, EditNext
<1>5. \A q \in EditPaths : Excused(q)'
  BY <1>2, <1>3, <1>4, SMT DEF Excused
<1>6. EveryFile(before')
  BY <1>3, Zenon DEF FilesInv
<1> QED BY <1>2, <1>5, <1>6, Zenon DEF FilesInv

\* What the rollback leaves: every file that was written holds what it held when the call
\* began, but for those whose own write or whose rollback failed.
LEMMA RejectedExcused ==
    ASSUME FilesInv, edits # <<>>, NEW e, NEW mine, NEW failed, NEW count, Rejected(e, mine, failed, count)
    PROVE  FilesInv'
<1>1. PICK emptied \in SUBSET (mine \cup failed) : disk' = RolledBack(torn, failed, emptied)
  BY Zenon DEF Rejected
<1>2. torn' = failed \cup mine /\ others' = others /\ before' = before
  BY Zenon DEF Rejected
<1>3. \A q \in EditPaths : Excused(q)
  BY Zenon DEF FilesInv, Unsettled
<1>4. EveryFile(disk') /\ EveryFile(before')
  BY <1>1, <1>2, Zenon DEF FilesInv, RolledBack, EveryFile
<1>5. \A q \in EditPaths : q \notin torn' => disk'[q] = IF q \in torn THEN before[q] ELSE disk[q]
  BY <1>1, <1>2, Zenon DEF RolledBack
<1>6. \A q \in EditPaths : Excused(q)'
  BY <1>2, <1>3, <1>5, SMT DEF Excused
<1> QED BY <1>4, <1>6, Zenon DEF FilesInv

LEMMA EditRejectedExcused == ASSUME FilesInv, EditRejected PROVE FilesInv'
BY RejectedExcused, Zenon DEF EditRejected

LEMMA EditFailsExcused == ASSUME FilesInv, EditFails PROVE FilesInv'
BY RejectedExcused, Zenon DEF EditFails

LEMMA OtherEditsExcused == ASSUME FilesInv, NEW p, NEW text, OtherEdits(p, text) PROVE FilesInv'
<1>1. EveryFile(disk') /\ \A q \in EditPaths : q # p => disk'[q] = disk[q]
  <2>1. disk' = [disk EXCEPT ![p] = text]
    BY DEF OtherEdits
  <2> QED BY <2>1, Changes, Zenon
<1>2. /\ others' = others \cup {p} /\ UNCHANGED <<edits, before, torn, result>>
      /\ EveryFile(before')
  BY Zenon DEF OtherEdits, FilesInv
<1>3. Unsettled' => \A q \in EditPaths : Excused(q)
  BY <1>2, Zenon DEF FilesInv, Unsettled
<1>4. ASSUME Unsettled', NEW q \in EditPaths PROVE Excused(q)'
  BY <1>1, <1>2, <1>3, <1>4, SMT DEF Excused
<1> QED BY <1>1, <1>2, <1>4, Zenon DEF FilesInv

LEMMA FilesStep == FilesInv /\ [FilesNext]_filesVars => FilesInv'
<1> SUFFICES ASSUME FilesInv, [FilesNext]_filesVars PROVE FilesInv'
  OBVIOUS
<1>1. ASSUME NEW p, NEW start, NEW end, Read(p, start, end) PROVE FilesInv'
  BY <1>1, ReadExcused
<1>2. ASSUME NEW p, NEW text, NEW fresh, NEW named, Write(p, text, fresh, named) PROVE FilesInv'
  BY <1>2, WriteExcused
<1>3. ASSUME NEW p, NEW patches, NEW named, Patch(p, patches, named) PROVE FilesInv'
  BY <1>3, PatchExcused
<1>4. ASSUME NEW p, NEW word, NEW indent, NEW lines, Replace(p, word, indent, lines) PROVE FilesInv'
  BY <1>4, ReplaceExcused
<1>5. ASSUME NEW p, NEW missingOk, NEW named, NEW keeps, Delete(p, missingOk, named, keeps) PROVE FilesInv'
  BY <1>5, DeleteExcused
<1>6. ASSUME NEW list, Edits(list) PROVE FilesInv'
  BY <1>6, EditsExcused
<1>7. CASE EditNext \/ EditRejected \/ EditFails
  BY <1>7, EditNextExcused, EditRejectedExcused, EditFailsExcused, Zenon
<1>8. ASSUME NEW p, NEW text, OtherEdits(p, text) PROVE FilesInv'
  BY <1>8, OtherEditsExcused
<1>9. CASE UNCHANGED filesVars
  BY <1>9, Zenon DEF filesVars, FilesInv, Unsettled, Excused, EveryFile
<1> QED BY <1>1, <1>2, <1>3, <1>4, <1>5, <1>6, <1>7, <1>8, <1>9, Zenon DEF FilesNext

\* A failed call leaves every file as it was when the call began, but for one whose own
\* write or whose rollback failed and for what others changed meanwhile: for any set of
\* files, any texts, any list of edits and any number of faults (ast_edit.py, where the
\* rollback passes over an OSError, :213, and the description promises ALL files, :125).
THEOREM FailedEditsUndoneCorrect == FilesSpec => []FailedEditsUndone
<1>1. FilesInit => FilesInv
  BY FilesStart
<1>2. FilesInv /\ [FilesNext]_filesVars => FilesInv'
  BY FilesStep
<1>3. FilesInv => FailedEditsUndone
  BY Zenon DEF FilesInv, FailedEditsUndone, Unsettled, Excused
<1> QED BY <1>1, <1>2, <1>3, PTL DEF FilesSpec

-----------------------------------------------------------------------------
\* Induction, said of a set of numbers: it has them all.
LEMMA AllNumbers ==
    ASSUME NEW K, 0 \in K, \A n \in Nat : n \in K => n + 1 \in K
    PROVE  Nat \subseteq K
<1> DEFINE S == Nat \ K
<1> SUFFICES ASSUME S # {} PROVE FALSE
  OBVIOUS
<1>1. IsWellFoundedOn(OpToRel(<, Nat), Nat)
  BY NatLessThanWellFounded
<1>2. PICK x \in S : \A y \in S : ~(<<y, x>> \in OpToRel(<, Nat))
  BY <1>1, WFMin
<1>3. \A y \in S : ~(y < x)
  BY <1>2, Zenon DEF OpToRel
<1>4. x # 0 /\ x - 1 \in Nat /\ x - 1 < x
  BY SMT
<1>5. x - 1 \in K
  BY <1>3, <1>4
<1>6. x \in K
  BY <1>4, <1>5, SMT
<1> QED BY <1>6

-----------------------------------------------------------------------------
(* The rows that have a URL.                                               *)

LinksUpTo(rows, g, n) ==
    g = [m \in 0..n |-> IF m = 0 THEN <<>>
                        ELSE IF rows[m] = NoUrl THEN g[m - 1] ELSE Append(g[m - 1], rows[m])]

LEMMA LinksExist == ASSUME NEW rows, NEW n \in Nat PROVE \E g : LinksUpTo(rows, g, n)
<1> DEFINE K == {k \in Nat : \E g : LinksUpTo(rows, g, k)}
<1>1. 0 \in K
  <2> DEFINE g == [m \in 0..0 |-> <<>>]
  <2>1. \A m \in 0..0 : m = 0
    BY SMT
  <2>2. LinksUpTo(rows, g, 0)
    BY <2>1, Zenon DEF LinksUpTo
  <2> QED BY <2>2
<1>2. ASSUME NEW k \in Nat, k \in K PROVE k + 1 \in K
  <2>1. PICK g : LinksUpTo(rows, g, k)
    BY <1>2
  <2> DEFINE Then(q) == IF rows[k + 1] = NoUrl THEN q ELSE Append(q, rows[k + 1])
             h == [m \in 0..(k + 1) |-> IF m = k + 1 THEN Then(g[k]) ELSE g[m]]
  <2>2. /\ \A m \in 0..(k + 1) : m = k + 1 \/ m \in 0..k
        /\ \A m \in 0..k : m # k + 1 /\ m \in 0..(k + 1)
        /\ \A m \in 0..(k + 1) : m # 0 => m - 1 \in 0..k
        /\ (k + 1) - 1 = k /\ k + 1 # 0 /\ k + 1 \in Nat
    BY SMT
  <2>3. \A m \in 0..k : g[m] = IF m = 0 THEN <<>> 
                               ELSE IF rows[m] = NoUrl THEN g[m - 1] ELSE Append(g[m - 1], rows[m])
    BY <2>1, Zenon DEF LinksUpTo
  <2>4. \A m \in 0..k : h[m] = g[m]
    BY <2>2, Zenon
  <2>5. \A m \in 0..(k + 1) :
          h[m] = IF m = 0 THEN <<>>
                 ELSE IF rows[m] = NoUrl THEN h[m - 1] ELSE Append(h[m - 1], rows[m])
    <3> TAKE m \in 0..(k + 1)
    <3>1. CASE m = k + 1
      BY <3>1, <2>2, <2>4, Zenon
    <3>2. CASE m \in 0..k
      BY <3>2, <2>2, <2>3, <2>4, Zenon
    <3> QED BY <3>1, <3>2, <2>2
  <2>6. LinksUpTo(rows, h, k + 1)
    BY <2>5, Zenon DEF LinksUpTo
  <2> QED BY <2>2, <2>6, Zenon
<1> HIDE DEF K
<1>3. Nat \subseteq K
  BY <1>1, <1>2, AllNumbers
<1> QED BY <1>3 DEF K

LEMMA LinksAreUrls == ASSUME NEW rows \in Seq(Urls \cup {NoUrl}) PROVE Links(rows) \in Seq(Urls)
<1> DEFINE n == Len(rows)
           upTo == CHOOSE g : LinksUpTo(rows, g, n)
           K == {k \in Nat : k <= n => upTo[k] \in Seq(Urls)}
<1>1. n \in Nat /\ \A m \in 1..n : rows[m] \in Urls \cup {NoUrl}
  OBVIOUS
<1>2. LinksUpTo(rows, upTo, n)
  BY <1>1, LinksExist, Zenon
<1>3. Links(rows) = upTo[n]
  BY Zenon DEF Links, LinksUpTo
<1> HIDE DEF n, upTo
<1>4. \A m \in 0..n : upTo[m] = IF m = 0 THEN <<>>
                                ELSE IF rows[m] = NoUrl THEN upTo[m - 1] ELSE Append(upTo[m - 1], rows[m])
  BY <1>2, Zenon DEF LinksUpTo
<1>5. 0 \in K
  <2>1. 0 \in 0..n
    BY <1>1, SMT
  <2>2. upTo[0] = <<>>
    BY <1>4, <2>1, Zenon
  <2>3. upTo[0] \in Seq(Urls)
    BY <2>2
  <2> QED BY <2>3, Zenon
<1>6. ASSUME NEW k \in Nat, k \in K PROVE k + 1 \in K
  <2> SUFFICES ASSUME k + 1 <= n PROVE upTo[k + 1] \in Seq(Urls)
    OBVIOUS
  <2>1. k <= n /\ k + 1 \in 1..n /\ k + 1 \in 0..n /\ k + 1 # 0 /\ (k + 1) - 1 = k
    BY <1>1, SMT
  <2>2. upTo[k] \in Seq(Urls)
    BY <2>1, <1>6
  <2>3. rows[k + 1] # NoUrl => rows[k + 1] \in Urls
    BY <1>1, <2>1, Zenon
  <2>4. upTo[k + 1] = IF rows[k + 1] = NoUrl THEN upTo[k] ELSE Append(upTo[k], rows[k + 1])
    BY <1>4, <2>1, Zenon
  <2> QED BY <2>2, <2>3, <2>4
<1> HIDE DEF K
<1>7. Nat \subseteq K
  BY <1>5, <1>6, AllNumbers
<1> QED BY <1>1, <1>3, <1>7 DEF K

-----------------------------------------------------------------------------
(* Each value once.                                                        *)

DistinctUpTo(s, g, n) ==
    g = [m \in 0..n |-> IF m = 0 THEN <<>>
                        ELSE IF s[m] \in Range(g[m - 1]) THEN g[m - 1] ELSE Append(g[m - 1], s[m])]

LEMMA DistinctExists == ASSUME NEW s, NEW n \in Nat PROVE \E g : DistinctUpTo(s, g, n)
<1> DEFINE K == {k \in Nat : \E g : DistinctUpTo(s, g, k)}
<1>1. 0 \in K
  <2> DEFINE g == [m \in 0..0 |-> <<>>]
  <2>1. \A m \in 0..0 : m = 0
    BY SMT
  <2>2. DistinctUpTo(s, g, 0)
    BY <2>1, Zenon DEF DistinctUpTo
  <2> QED BY <2>2
<1>2. ASSUME NEW k \in Nat, k \in K PROVE k + 1 \in K
  <2>1. PICK g : DistinctUpTo(s, g, k)
    BY <1>2
  <2> DEFINE Then(q) == IF s[k + 1] \in Range(q) THEN q ELSE Append(q, s[k + 1])
             h == [m \in 0..(k + 1) |-> IF m = k + 1 THEN Then(g[k]) ELSE g[m]]
  <2>2. /\ \A m \in 0..(k + 1) : m = k + 1 \/ m \in 0..k
        /\ \A m \in 0..k : m # k + 1 /\ m \in 0..(k + 1)
        /\ \A m \in 0..(k + 1) : m # 0 => m - 1 \in 0..k
        /\ (k + 1) - 1 = k /\ k + 1 # 0 /\ k + 1 \in Nat
    BY SMT
  <2>3. \A m \in 0..k : g[m] = IF m = 0 THEN <<>>
                               ELSE IF s[m] \in Range(g[m - 1]) THEN g[m - 1] ELSE Append(g[m - 1], s[m])
    BY <2>1, Zenon DEF DistinctUpTo
  <2>4. \A m \in 0..k : h[m] = g[m]
    BY <2>2, Zenon
  <2>5. \A m \in 0..(k + 1) :
          h[m] = IF m = 0 THEN <<>>
                 ELSE IF s[m] \in Range(h[m - 1]) THEN h[m - 1] ELSE Append(h[m - 1], s[m])
    <3> TAKE m \in 0..(k + 1)
    <3>1. CASE m = k + 1
      BY <3>1, <2>2, <2>4, Zenon
    <3>2. CASE m \in 0..k
      BY <3>2, <2>2, <2>3, <2>4, Zenon
    <3> QED BY <3>1, <3>2, <2>2
  <2>6. DistinctUpTo(s, h, k + 1)
    BY <2>5, Zenon DEF DistinctUpTo
  <2> QED BY <2>2, <2>6, Zenon
<1> HIDE DEF K
<1>3. Nat \subseteq K
  BY <1>1, <1>2, AllNumbers
<1> QED BY <1>3 DEF K

\* A value that is not there yet, at the end.
LEMMA OneMore ==
    ASSUME NEW S, NEW q \in Seq(S), IsInjective(q), NEW v \in S
    PROVE  /\ Append(q, v) \in Seq(S) /\ Range(Append(q, v)) = Range(q) \cup {v}
           /\ v \notin Range(q) => IsInjective(Append(q, v))
<1>1. /\ Append(q, v) \in Seq(S) /\ Len(Append(q, v)) = Len(q) + 1 /\ Append(q, v)[Len(q) + 1] = v
      /\ \A i \in 1..Len(q) : Append(q, v)[i] = q[i]
  OBVIOUS
<1>2. DOMAIN q = 1..Len(q) /\ DOMAIN Append(q, v) = 1..(Len(q) + 1) /\ Len(q) \in Nat
  BY <1>1
<1>3. \A i \in 1..(Len(q) + 1) : i \in 1..Len(q) \/ i = Len(q) + 1
  BY <1>2, SMT
<1>4. 1..Len(q) \subseteq 1..(Len(q) + 1) /\ Len(q) + 1 \in 1..(Len(q) + 1)
  BY <1>2, SMT
<1> HIDE DEF Append
<1>5. Range(Append(q, v)) = Range(q) \cup {v}
  BY <1>1, <1>2, <1>3, <1>4 DEF Range
<1>6. ASSUME v \notin Range(q) PROVE IsInjective(Append(q, v))
  <2>1. \A i \in 1..Len(q) : q[i] # v
    BY <1>2, <1>6, Zenon DEF Range
  <2> QED BY <1>1, <1>2, <1>3, <2>1 DEF IsInjective
<1> QED BY <1>1, <1>5, <1>6

LEMMA DistinctOfAll ==
    ASSUME NEW S, NEW s \in Seq(S)
    PROVE  Distinct(s) \in Seq(S) /\ IsInjective(Distinct(s)) /\ Range(Distinct(s)) = Range(s)
<1> DEFINE n == Len(s)
           upTo == CHOOSE g : DistinctUpTo(s, g, n)
           Good(k) == /\ upTo[k] \in Seq(S) /\ IsInjective(upTo[k])
                      /\ Range(upTo[k]) = {s[i] : i \in 1..k}
           K == {k \in Nat : k <= n => Good(k)}
<1>1. n \in Nat /\ \A m \in 1..n : s[m] \in S
  OBVIOUS
<1>2. DistinctUpTo(s, upTo, n)
  BY <1>1, DistinctExists, Zenon
<1>3. Distinct(s) = upTo[n]
  BY Zenon DEF Distinct, DistinctUpTo
<1>4. Range(s) = {s[i] : i \in 1..n}
  BY DEF Range
<1> HIDE DEF n, upTo
<1>5. \A m \in 0..n : upTo[m] = IF m = 0 THEN <<>>
                                ELSE IF s[m] \in Range(upTo[m - 1]) THEN upTo[m - 1] ELSE Append(upTo[m - 1], s[m])
  BY <1>2, Zenon DEF DistinctUpTo
<1>6. 0 \in K
  <2>1. 0 \in 0..n
    BY <1>1, SMT
  <2>2. upTo[0] = <<>>
    BY <1>5, <2>1, Zenon
  <2>3. Good(0)
    BY <2>2 DEF Range, IsInjective
  <2> QED BY <2>3
<1>7. ASSUME NEW k \in Nat, k \in K PROVE k + 1 \in K
  <2> SUFFICES ASSUME k + 1 <= n PROVE Good(k + 1)
    OBVIOUS
  <2>1. k <= n /\ k + 1 \in 1..n /\ k + 1 \in 0..n /\ k + 1 # 0 /\ (k + 1) - 1 = k
    BY <1>1, SMT
  <2>2. Good(k)
    BY <2>1, <1>7
  <2>3. s[k + 1] \in S
    BY <1>1, <2>1, Zenon
  <2>4. upTo[k + 1] = IF s[k + 1] \in Range(upTo[k]) THEN upTo[k] ELSE Append(upTo[k], s[k + 1])
    BY <1>5, <2>1, Zenon
  <2>5. {s[i] : i \in 1..(k + 1)} = {s[i] : i \in 1..k} \cup {s[k + 1]}
    <3>1. \A i \in 1..(k + 1) : i \in 1..k \/ i = k + 1
      BY SMT
    <3>2. 1..k \subseteq 1..(k + 1) /\ k + 1 \in 1..(k + 1)
      BY SMT
    <3> QED BY <3>1, <3>2, Zenon
  <2>6. CASE s[k + 1] \in Range(upTo[k])
    BY <2>2, <2>4, <2>5, <2>6
  <2>7. CASE s[k + 1] \notin Range(upTo[k])
    <3>1. upTo[k + 1] = Append(upTo[k], s[k + 1])
      BY <2>4, <2>7
    <3>2. /\ Append(upTo[k], s[k + 1]) \in Seq(S) /\ IsInjective(Append(upTo[k], s[k + 1]))
          /\ Range(Append(upTo[k], s[k + 1])) = Range(upTo[k]) \cup {s[k + 1]}
      BY <2>2, <2>3, <2>7, OneMore
    <3> QED BY <2>2, <2>5, <3>1, <3>2, Zenon
  <2> QED BY <2>6, <2>7
<1> HIDE DEF K
<1>8. Nat \subseteq K
  BY <1>6, <1>7, AllNumbers
<1>9. Good(n)
  <2>1. n \in K /\ n <= n
    BY <1>1, <1>8, SMT
  <2> QED BY <2>1, Zenon DEF K
<1> QED BY <1>3, <1>4, <1>9

\* The first n of them.
LEMMA FirstOf ==
    ASSUME NEW S, NEW s \in Seq(S), NEW n \in Nat
    PROVE  /\ First(s, n) \in Seq(S) /\ Len(First(s, n)) <= n /\ Range(First(s, n)) \subseteq Range(s)
           /\ Len(First(s, n)) < n => First(s, n) = s
           /\ IsInjective(s) => IsInjective(First(s, n))
<1> DEFINE m == Least(n, Len(s))
<1>1. m \in Nat /\ m <= n /\ m <= Len(s) /\ Len(s) \in Nat /\ (m < n => m = Len(s))
  BY DEF Least
<1>2. First(s, n) = SubSeq(s, 1, m)
  BY DEF First
<1> HIDE DEF m
<1> DEFINE f == SubSeq(s, 1, m)
<1>3. f \in Seq(S) /\ Len(f) = m /\ \A i \in 1..m : f[i] = s[i]
  BY <1>1
<1>4. DOMAIN f = 1..m /\ DOMAIN s = 1..Len(s) /\ 1..m \subseteq 1..Len(s)
  BY <1>1, <1>3
<1>5. m = Len(s) => f = s
  BY <1>3
<1> HIDE DEF f
<1>6. Range(f) \subseteq Range(s) /\ (IsInjective(s) => IsInjective(f))
  BY <1>3, <1>4 DEF Range, IsInjective
<1> QED BY <1>1, <1>2, <1>3, <1>5, <1>6 DEF f

LEMMA Joined ==
    ASSUME NEW S, NEW s \in Seq(S), NEW t \in Seq(S)
    PROVE  s \o t \in Seq(S) /\ Range(s \o t) = Range(s) \cup Range(t)
<1> DEFINE j == s \o t
<1>1. /\ j \in Seq(S) /\ Len(j) = Len(s) + Len(t) /\ Len(s) \in Nat /\ Len(t) \in Nat
      /\ \A i \in 1..Len(s) : j[i] = s[i]
      /\ \A i \in 1..Len(t) : j[Len(s) + i] = t[i]
  OBVIOUS
<1>2. /\ \A i \in 1..Len(j) : i \in 1..Len(s) \/ (i - Len(s) \in 1..Len(t) /\ i = Len(s) + (i - Len(s)))
      /\ 1..Len(s) \subseteq 1..Len(j) /\ \A i \in 1..Len(t) : Len(s) + i \in 1..Len(j)
  BY <1>1, SMT
<1>3. DOMAIN j = 1..Len(j) /\ DOMAIN s = 1..Len(s) /\ DOMAIN t = 1..Len(t)
  BY <1>1
<1> HIDE DEF j
<1>4. Range(j) \subseteq Range(s) \cup Range(t)
  <2>1. \A i \in 1..Len(j) : j[i] \in Range(s) \/ j[i] \in Range(t)
    <3> TAKE i \in 1..Len(j)
    <3>1. CASE i \in 1..Len(s)
      BY <1>1, <1>3, <3>1, Zenon DEF Range
    <3>2. CASE i - Len(s) \in 1..Len(t) /\ i = Len(s) + (i - Len(s))
      <4>1. j[i] = t[i - Len(s)]
        BY <1>1, <3>2, Zenon
      <4> QED BY <1>3, <3>2, <4>1, Zenon DEF Range
    <3> QED BY <1>2, <3>1, <3>2
  <2> QED BY <1>3, <2>1, Zenon DEF Range
<1>5. Range(s) \subseteq Range(j) /\ Range(t) \subseteq Range(j)
  <2>1. ASSUME NEW i \in 1..Len(s) PROVE s[i] \in Range(j)
    <3>1. i \in DOMAIN j /\ j[i] = s[i]
      BY <1>1, <1>2, <1>3, <2>1, Zenon
    <3> QED BY <3>1, Zenon DEF Range
  <2>2. ASSUME NEW i \in 1..Len(t) PROVE t[i] \in Range(j)
    <3>1. Len(s) + i \in DOMAIN j /\ j[Len(s) + i] = t[i]
      BY <1>1, <1>2, <1>3, <2>2, Zenon
    <3> QED BY <3>1, Zenon DEF Range
  <2> QED BY <1>3, <2>1, <2>2, Zenon DEF Range
<1> QED BY <1>1, <1>4, <1>5 DEF j

LEMMA NoneAtAll == <<>> \in Seq(Urls) /\ Range(<<>>) = {} /\ IsInjective(<<>>) /\ Len(<<>>) = 0
BY DEF Range, IsInjective

-----------------------------------------------------------------------------
(* The calls.                                                              *)

References == Seq(Urls \cup {NoUrl})
Kinds == {"web_evidence", "web_unavailable", "web_no_results", "web_error", "plain"}
Observation == [kind : Kinds, refs : References]
Limit == MaxPages * MaxAttempts

\* What a call that was asked for n links may report, of pages that offered these.
Reports(o, off, n) ==
    /\ o.kind \in {"web_unavailable", "web_no_results"} => off = {}
    /\ o.kind = "web_evidence" =>
         /\ IsInjective(o.refs) /\ Range(o.refs) \subseteq off /\ Len(o.refs) <= n
         /\ Len(o.refs) < n => Range(o.refs) = off

\* While a search goes from page to page it holds exactly what they offered, and has
\* room for more.
Holding ==
    /\ backend = "duckduckgo"
    /\ evidence \in Seq(Urls) /\ IsInjective(evidence)
    /\ Range(evidence) = offered /\ Len(evidence) < topN
Counting ==
    /\ page \in Nat /\ page < MaxPages /\ attempt \in Nat /\ attempt < MaxAttempts
    /\ requests <= page * MaxAttempts + attempt

WebInv ==
    /\ webStage \in {"idle", "page", "instant", "asked", "fetch"}
    /\ topN \in Nat \ {0} /\ observed \in Seq(Observation) /\ requests \in Nat
    /\ webStage = "asked" => backend # "duckduckgo"
    /\ webStage \in {"asked", "fetch"} => requests = 0
    /\ webStage = "page" => Holding /\ Counting
    /\ webStage = "instant" => offered = {} /\ requests <= Limit
    /\ requests <= Limit + 1
    /\ webStage = "idle" /\ backend = "duckduckgo" /\ requests > 0 => Reports(observed[Len(observed)], offered, topN)

\* A page more is within the limit.
LEMMA Limits ==
    /\ Limit \in Nat
    /\ requests \in Nat /\ Counting =>
                   /\ requests + 1 <= (page + 1) * MaxAttempts + 0
                   /\ requests + 1 <= Limit
                   /\ requests + 1 <= page * MaxAttempts + (attempt + 1)
<1> USE WebAssumption
<1>1. Limit \in Nat
  BY SMT DEF Limit
<1>2. ASSUME requests \in Nat, Counting
      PROVE  /\ requests + 1 <= (page + 1) * MaxAttempts + 0
             /\ requests + 1 <= Limit
             /\ requests + 1 <= page * MaxAttempts + (attempt + 1)
  <2>1. (page + 1) * MaxAttempts = page * MaxAttempts + MaxAttempts
    BY <1>2, SMT DEF Counting
  <2>2. (page + 1) * MaxAttempts <= Limit
    <3>1. PICK d \in Nat : MaxPages = (page + 1) + d
      <4>1. MaxPages - (page + 1) \in Nat /\ MaxPages = (page + 1) + (MaxPages - (page + 1))
        BY <1>2, SMT DEF Counting
      <4> QED BY <4>1
    <3>2. Limit = (page + 1) * MaxAttempts + d * MaxAttempts /\ d * MaxAttempts \in Nat
      BY <1>2, <3>1, SMT DEF Counting, Limit
    <3> QED BY <1>2, <3>2, SMT DEF Counting
  <2> DEFINE a == page * MaxAttempts
             b == (page + 1) * MaxAttempts
  <2>3. a \in Nat /\ b \in Nat
    BY <1>2, SMT DEF Counting
  <2>4. b = a + MaxAttempts /\ b <= Limit /\ requests <= a + attempt
    BY <1>2, <2>1, <2>2 DEF Counting
  <2>5. attempt \in Nat /\ attempt < MaxAttempts
    BY <1>2 DEF Counting
  <2> HIDE DEF a, b
  <2>6. requests + 1 <= b + 0 /\ requests + 1 <= Limit /\ requests + 1 <= a + (attempt + 1)
    BY <1>1, <1>2, <2>3, <2>4, <2>5, SMT
  <2> QED BY <2>6 DEF a, b
<1> QED BY <1>1, <1>2

\* The end of a call.
LEMMA Reported ==
    ASSUME WebInv, NEW kind \in Kinds, NEW refs \in References, Result(kind, refs),
           topN' \in Nat \ {0}, requests' \in Nat, requests' <= Limit + 1,
           backend = "duckduckgo" /\ requests' > 0 =>
             Reports([kind |-> kind, refs |-> refs], offered', topN')
    PROVE  WebInv'
<1> DEFINE o == [kind |-> kind, refs |-> refs]
<1>1. o \in Observation
  BY DEF Observation
<1>2. observed \in Seq(Observation) /\ observed' = Append(observed, o) /\ webStage' = "idle" /\ backend' = backend
  BY DEF WebInv, Result
<1> HIDE DEF o
<1>3. observed' \in Seq(Observation) /\ observed'[Len(observed')] = o
  BY <1>1, <1>2
<1>4. backend' = "duckduckgo" /\ requests' > 0 => Reports(observed'[Len(observed')], offered', topN')
  BY <1>2, <1>3 DEF o
<1> QED BY <1>2, <1>3, <1>4, Limits DEF WebInv

LEMMA PrefixIsReferences ==
    ASSUME NEW s \in Seq(Urls \cup {NoUrl}), NEW n \in Nat
    PROVE  First(s, n) \in References
BY FirstOf DEF References

LEMMA UrlsAreReferences == ASSUME NEW s \in Seq(Urls) PROVE s \in References
BY DEF References

LEMMA RowsAreSequences == ASSUME NEW rows \in Rows PROVE rows \in Seq(Urls \cup {NoUrl})
BY WebAssumption DEF Rows

LEMMA WebStart == WebInit => WebInv
<1> SUFFICES ASSUME WebInit PROVE WebInv
  OBVIOUS
<1>1. webStage = "idle" /\ topN = 1 /\ observed = <<>> /\ requests = 0
  BY DEF WebInit
<1>2. observed \in Seq(Observation)
  BY <1>1
<1> QED BY <1>1, <1>2, Limits DEF WebInv

LEMMA SearchTold ==
    ASSUME WebInv, NEW n \in 1..MaxTop, NEW s \in Rows, NEW b, Search(n, s, b)
    PROVE  WebInv'
<1>1. n \in Nat \ {0} /\ Limit \in Nat /\ topN' = n /\ requests' = 0 /\ offered' = {} /\ page' = 0 /\ attempt' = 0
  BY WebAssumption, Limits DEF Search
<1>2. s \in Seq(Urls \cup {NoUrl}) /\ Links(s) \in Seq(Urls) /\ Links(s) \in References
  BY RowsAreSequences, LinksAreUrls, UrlsAreReferences
<1>3. First(Links(s), n) \in References /\ <<>> \in References
  BY <1>1, <1>2, FirstOf, UrlsAreReferences, NoneAtAll
<1>4. CASE Result("web_evidence", First(Links(s), n)) \/ Result("web_unavailable", <<>>)
  BY <1>1, <1>3, <1>4, Reported DEF Kinds
<1>5. CASE /\ webStage' = IF backend = "duckduckgo" THEN "page" ELSE "asked"
           /\ evidence' = <<>> /\ UNCHANGED <<backend, observed, final, cited>>
  <2>1. (Holding' /\ Counting') \/ backend' # "duckduckgo"
    BY <1>1, <1>5, NoneAtAll, WebAssumption DEF Holding, Counting
  <2> QED BY <1>1, <1>5, <2>1 DEF WebInv
<1>6. \/ Result("web_evidence", First(Links(s), n)) \/ Result("web_unavailable", <<>>)
      \/ /\ webStage' = IF backend = "duckduckgo" THEN "page" ELSE "asked"
         /\ evidence' = <<>> /\ UNCHANGED <<backend, observed, final, cited>>
  BY Zenon DEF Search
<1> QED BY <1>4, <1>5, <1>6

LEMMA FetchTold == ASSUME WebInv, NEW b, Fetch(b) PROVE WebInv'
<1>1. Limit \in Nat /\ topN' = 1 /\ requests' = 0 /\ offered' = {} /\ <<>> \in References
  BY Limits, NoneAtAll, UrlsAreReferences DEF Fetch
<1>2. CASE Result("web_unavailable", <<>>)
  BY <1>1, <1>2, Reported DEF Kinds
<1>3. CASE webStage' = "fetch" /\ UNCHANGED <<backend, observed>>
  BY <1>1, <1>3 DEF WebInv
<1> QED BY <1>2, <1>3 DEF Fetch

LEMMA FetchSuppliedTold == ASSUME WebInv, NEW url \in Urls, FetchSupplied(url) PROVE WebInv'
<1>1. Limit \in Nat /\ topN' = 1 /\ requests' = 0 /\ <<url>> \in References
  BY Limits DEF FetchSupplied, References
<1> QED BY <1>1, Reported DEF FetchSupplied, Kinds

LEMMA OneUrl ==
    ASSUME NEW url \in Urls
    PROVE  /\ <<url>> \in References /\ IsInjective(<<url>>) /\ Range(<<url>>) = {url} /\ Len(<<url>>) = 1
BY DEF References, IsInjective, Range

LEMMA OneRequest ==
    ASSUME WebInv, webStage \in {"asked", "fetch"}, requests' = requests + 1, Counted
    PROVE  /\ topN' = topN /\ topN' \in Nat \ {0} /\ requests' \in Nat /\ requests' <= Limit + 1
           /\ webStage = "asked" => backend # "duckduckgo"
           /\ <<>> \in References
<1>1. requests = 0 /\ topN \in Nat \ {0} /\ (webStage = "asked" => backend # "duckduckgo")
  BY Zenon DEF WebInv
<1>2. topN' = topN
  BY DEF Counted
<1>3. Limit \in Nat /\ <<>> \in References
  BY Limits, NoneAtAll, UrlsAreReferences
<1> QED BY <1>1, <1>2, <1>3

LEMMA FetchedTold == ASSUME WebInv, NEW url \in Urls, Fetched(url) PROVE WebInv'
<1>1. /\ topN' = topN /\ topN' \in Nat \ {0} /\ requests' \in Nat /\ requests' <= Limit + 1
      /\ <<>> \in References
  BY OneRequest DEF Fetched
<1>2. CASE Result("web_evidence", <<url>>) /\ offered' = {url}
  <2>1. Reports([kind |-> "web_evidence", refs |-> <<url>>], offered', topN')
    BY <1>1, <1>2, OneUrl DEF Reports
  <2>2. <<url>> \in References
    BY OneUrl
  <2> HIDE DEF Reports
  <2> QED BY <1>1, <1>2, <2>1, <2>2, Reported DEF Kinds
<1>3. CASE Result("web_error", <<>>)
  BY <1>1, <1>3, Reported DEF Kinds, Reports
<1> QED BY <1>2, <1>3 DEF Fetched

LEMMA AnsweredTold == ASSUME WebInv, NEW rows \in Rows, Answered(rows) PROVE WebInv'
<1>1. /\ topN' = topN /\ topN' \in Nat \ {0} /\ requests' \in Nat /\ requests' <= Limit + 1
      /\ backend # "duckduckgo"
  BY OneRequest DEF Answered
<1>2. First(rows, topN) \in References
  BY <1>1, RowsAreSequences, PrefixIsReferences
<1>3. PICK kind \in Kinds : Result(kind, First(rows, topN))
  BY Zenon DEF Answered, Kinds
<1> QED BY <1>1, <1>2, <1>3, Reported

LEMMA NotAnsweredTold == ASSUME WebInv, NotAnswered PROVE WebInv'
<1>1. /\ topN' = topN /\ topN' \in Nat \ {0} /\ requests' \in Nat /\ requests' <= Limit + 1
      /\ backend # "duckduckgo" /\ <<>> \in References
  BY OneRequest DEF NotAnswered
<1>2. PICK kind \in Kinds : Result(kind, <<>>)
  BY DEF NotAnswered, Kinds
<1> QED BY <1>1, <1>2, Reported

\* What a search has found when its pages are over.
LEMMA PagedTold ==
    ASSUME WebInv, NEW found \in Seq(Urls), Paged(found), topN' = topN,
           IsInjective(found), Range(found) \subseteq offered', Len(found) <= topN,
           Len(found) < topN => Range(found) = offered',
           requests' \in Nat, requests' <= Limit
    PROVE  WebInv'
<1>1. topN \in Nat \ {0} /\ Limit \in Nat /\ found \in References
  BY Limits, UrlsAreReferences DEF WebInv
<1>2. CASE found # <<>>
  <2>1. Reports([kind |-> "web_evidence", refs |-> found], offered', topN')
    BY DEF Reports
  <2>2. Result("web_evidence", found)
    BY <1>2 DEF Paged
  <2> QED BY <1>1, <2>1, <2>2, Reported DEF Kinds
<1>3. CASE found = <<>>
  <2>1. webStage' = "instant" /\ UNCHANGED <<backend, observed>>
    BY <1>3 DEF Paged
  <2>2. offered' = {}
    BY <1>1, <1>3, NoneAtAll
  <2> QED BY <1>1, <2>1, <2>2 DEF WebInv
<1> QED BY <1>2, <1>3

LEMMA PageTold == ASSUME WebInv, NEW rows \in Rows, Page(rows) PROVE WebInv'
<1> DEFINE results == Parsed(rows)
           found == First(Distinct(evidence \o results), topN)
           last == Len(found) = topN \/ Len(results) < topN \/ page + 1 = MaxPages
<1>1. Holding /\ Counting /\ topN \in Nat \ {0} /\ requests \in Nat
  BY DEF WebInv, Page
<1>2. results \in Seq(Urls)
  BY <1>1, RowsAreSequences, LinksAreUrls, FirstOf DEF Parsed
<1>3. /\ requests' = requests + 1 /\ offered' = offered \cup Range(results) /\ topN' = topN
      /\ last => Paged(found)
      /\ ~last => /\ evidence' = found /\ page' = page + 1 /\ attempt' = 0
                  /\ UNCHANGED <<backend, webStage, observed>>
      /\ webStage = "page"
  BY DEF Page
<1> HIDE DEF results
<1> DEFINE all == evidence \o results
<1>4. all \in Seq(Urls) /\ Range(all) = Range(evidence) \cup Range(results)
  BY <1>1, <1>2, Joined DEF Holding
<1> HIDE DEF all
<1>5. /\ Distinct(all) \in Seq(Urls) /\ IsInjective(Distinct(all))
      /\ Range(Distinct(all)) = offered'
  BY <1>1, <1>3, <1>4, DistinctOfAll DEF Holding
<1>6. found = First(Distinct(all), topN)
  BY DEF all
<1>7. /\ found \in Seq(Urls) /\ IsInjective(found) /\ Range(found) \subseteq offered' /\ Len(found) <= topN
      /\ Len(found) < topN => Range(found) = offered'
  BY <1>1, <1>5, <1>6, FirstOf
<1> HIDE DEF found
<1>8. CASE last
  <2>1. requests' \in Nat /\ requests' <= Limit
    BY <1>1, <1>3, Limits
  <2> QED BY <1>3, <1>7, <1>8, <2>1, PagedTold
<1>9. CASE ~last
  <2>1. Len(found) < topN
    BY <1>1, <1>7, <1>9
  <2>2. Holding'
    BY <1>1, <1>3, <1>7, <1>9, <2>1 DEF Holding
  <2>3. page' = page + 1 /\ page' \in Nat /\ page' < MaxPages /\ attempt' = 0
    BY <1>1, <1>3, <1>9, WebAssumption DEF Counting
  <2>4. requests' <= page' * MaxAttempts + attempt' /\ requests' <= Limit /\ requests' \in Nat
    BY <1>1, <1>3, <2>3, Limits
  <2>5. Counting'
    BY <2>3, <2>4, WebAssumption DEF Counting
  <2>6. Limit \in Nat /\ requests' <= Limit + 1
    BY <2>4, Limits
  <2> QED BY <1>1, <1>3, <1>9, <2>2, <2>5, <2>4, <2>6 DEF WebInv
<1> QED BY <1>8, <1>9

LEMMA PageFailsTold == ASSUME WebInv, PageFails PROVE WebInv'
<1>1. /\ Holding /\ Counting /\ topN \in Nat \ {0} /\ requests \in Nat /\ webStage = "page"
      /\ requests' = requests + 1 /\ UNCHANGED <<topN, page, offered>>
  BY DEF WebInv, PageFails
<1>2. requests' \in Nat /\ requests' <= Limit /\ Limit \in Nat
  BY <1>1, Limits
<1>3. CASE /\ attempt + 1 < MaxAttempts /\ attempt' = attempt + 1
           /\ UNCHANGED <<backend, webStage, evidence, observed>>
  <2>1. Holding'
    BY <1>1, <1>3 DEF Holding
  <2>2. requests' <= page' * MaxAttempts + attempt'
    BY <1>1, <1>3, Limits
  <2>3. Counting'
    BY <1>1, <1>3, <2>2 DEF Counting
  <2> QED BY <1>1, <1>2, <1>3, <2>1, <2>3 DEF WebInv
<1>4. CASE Paged(evidence)
  BY <1>1, <1>2, <1>4, PagedTold DEF Holding
<1> QED BY <1>3, <1>4 DEF PageFails

LEMMA AtMostLimit ==
    webStage \in {"page", "instant"} /\ WebInv =>
      requests + 1 \in Nat /\ requests + 1 <= Limit + 1 /\ topN \in Nat \ {0}
BY Limits DEF WebInv

LEMMA BreaksTold == ASSUME WebInv, Breaks PROVE WebInv'
<1>1. <<>> \in References
  BY NoneAtAll, UrlsAreReferences
<1> QED BY <1>1, AtMostLimit, Reported DEF Breaks, Counted, Kinds, Reports

LEMMA InstantTold == ASSUME WebInv, NEW rows \in Rows, Instant(rows) PROVE WebInv'
<1> DEFINE all == Distinct(Links(rows))
           found == First(all, topN)
<1>1. /\ requests' \in Nat /\ requests' <= Limit + 1 /\ topN' = topN /\ topN \in Nat \ {0}
      /\ offered' = Range(found)
      /\ IF found # <<>> THEN Result("web_evidence", found) ELSE Result("web_unavailable", <<>>)
  BY AtMostLimit DEF Instant, Counted, WebInv
<1>2. all \in Seq(Urls) /\ IsInjective(all)
  BY RowsAreSequences, LinksAreUrls, DistinctOfAll
<1> HIDE DEF all
<1>3. found \in Seq(Urls) /\ IsInjective(found) /\ Len(found) <= topN
  BY <1>1, <1>2, FirstOf
<1> HIDE DEF found
<1>4. found \in References /\ <<>> \in References
  BY <1>3, NoneAtAll, UrlsAreReferences
<1>5. CASE found # <<>>
  <2>1. Reports([kind |-> "web_evidence", refs |-> found], offered', topN')
    BY <1>1, <1>3 DEF Reports
  <2> QED BY <1>1, <1>4, <1>5, <2>1, Reported DEF Kinds
<1>6. CASE found = <<>>
  <2>1. Reports([kind |-> "web_unavailable", refs |-> <<>>], offered', topN')
    BY <1>1, <1>6, NoneAtAll DEF Reports
  <2> QED BY <1>1, <1>4, <1>6, <2>1, Reported DEF Kinds
<1> QED BY <1>5, <1>6

LEMMA WebStep == WebInv /\ [WebNext]_webVars => WebInv'
<1> SUFFICES ASSUME WebInv, [WebNext]_webVars PROVE WebInv'
  OBVIOUS
<1>1. CASE \E n \in 1..MaxTop, s \in Rows, b \in BOOLEAN : Search(n, s, b)
  BY <1>1, SearchTold
<1>2. CASE \E b \in BOOLEAN : Fetch(b)
  BY <1>2, FetchTold
<1>3. CASE \E u \in Urls : FetchSupplied(u) \/ Fetched(u)
  BY <1>3, FetchSuppliedTold, FetchedTold
<1>4. CASE \E rows \in Rows : Answered(rows) \/ Page(rows) \/ Instant(rows)
  BY <1>4, AnsweredTold, PageTold, InstantTold
<1>5. CASE NotAnswered \/ PageFails \/ Breaks
  BY <1>5, NotAnsweredTold, PageFailsTold, BreaksTold
<1>6. CASE RequestFinal \/ Fallback \/ UNCHANGED webVars
  BY <1>6 DEF RequestFinal, Fallback, webVars, WebInv, Holding, Counting
<1> QED BY <1>1, <1>2, <1>3, <1>4, <1>5, <1>6 DEF WebNext

\* A search delivers what its pages offered, each link once and as many as were asked
\* for, and ends within its requests: for every number of pages, attempts, rows and
\* searches (DuckDuckGoHtmlSearchProvider.search).
THEOREM SearchKeepsEvidenceCorrect == WebSpec => []SearchKeepsEvidence
<1>1. WebInit => WebInv
  BY WebStart
<1>2. WebInv /\ [WebNext]_webVars => WebInv'
  BY WebStep
<1>3. WebInv => SearchKeepsEvidence
  BY DEF WebInv, SearchKeepsEvidence, Reports, Limit
<1> QED BY <1>1, <1>2, <1>3, PTL DEF WebSpec

-----------------------------------------------------------------------------
(* The types of ShellCommands and of ToolApproval.                          *)

LEMMA ShellTypesHold == ASSUME ShellInv PROVE ShellTypeOK
<1>1. Flags /\ Ranges
  BY Zenon DEF ShellInv, Reading
<1> QED BY <1>1, Zenon DEF Flags, Ranges, ShellTypeOK

\* A list names what can be called. A slot that is taken is on its way, and the user is
\* asked about tools that change something only.
ApprovalFlags == interactive \in BOOLEAN /\ readOnly \in BOOLEAN /\ aliased \in BOOLEAN
ApprovalLists ==
    /\ mode \in Modes \cup {Unset}
    /\ deny \cup allow \subseteq Paths \cup Commands
    /\ configured \cup own \cup promised \subseteq Commands \cup FileTools
ApprovalBounds == turns \in 0..MaxTurns /\ submitted \in 0..MaxSubmitted
SlotTaken(s) ==
    /\ s = FreeSlot \/ s.pc # "idle"
    /\ s.pc = "asking" => s.call.tool \in FileTools \cup ShellTools
Taken == \A i \in Slots : SlotTaken(slot[i])
ApprovalTypes == ApprovalFlags /\ ApprovalLists /\ ApprovalBounds /\ Taken

LEMMA ApprovalTypesHold == ASSUME ApprovalInv, ApprovalTypes PROVE ApprovalTypeOK
<1>1. ASSUME NEW i \in Slots, slot[i] # FreeSlot
      PROVE  /\ slot[i].pc \in {"approval", "asking", "hooks", "run"}
             /\ slot[i].call \in Calls /\ slot[i].yes \in BOOLEAN
  <2>1. slot[i] \in SlotSet /\ SlotOK(slot[i])
    BY DEF ApprovalInv
  <2>2. slot[i].pc # "idle"
    BY <1>1, Zenon DEF ApprovalTypes, Taken, SlotTaken
  <2> QED BY <2>1, <2>2 DEF SlotSet, SlotOK
<1> QED BY <1>1, Zenon DEF ApprovalTypes, ApprovalFlags, ApprovalLists, ApprovalBounds, ApprovalTypeOK

LEMMA ApprovalTypesStart == ASSUME ApprovalInit PROVE ApprovalTypes
<1>1. ApprovalFlags
  BY Zenon DEF ApprovalInit, ApprovalFlags
<1>2. ApprovalLists /\ ApprovalBounds
  BY ApprovalAssumption DEF ApprovalInit, ApprovalLists, ApprovalBounds
<1>3. Taken
  BY IdleInSet DEF ApprovalInit, Taken, SlotTaken
<1> QED BY <1>1, <1>2, <1>3 DEF ApprovalTypes

\* The steps of a call, by what they do to its slot.
LEMMA OneTaken ==
    ASSUME slot \in [Slots -> SlotSet], Taken, NEW i \in Slots, NEW new, slot' = [slot EXCEPT ![i] = new],
           SlotTaken(new)
    PROVE  Taken'
<1>1. \A j \in Slots : slot'[j] = IF j = i THEN new ELSE slot[j]
  OBVIOUS
<1>2. ASSUME NEW j \in Slots PROVE SlotTaken(slot'[j])
  BY <1>1, Zenon DEF Taken
<1> QED BY <1>2, Zenon DEF Taken, SlotTaken

LEMMA FreeTaken == ASSUME slot \in [Slots -> SlotSet], Taken, NEW i \in Slots, Free(i) PROVE Taken'
<1>1. SlotTaken(FreeSlot)
  BY IdleInSet, Zenon DEF SlotTaken
<1> QED BY <1>1, OneTaken DEF Free

LEMMA BecomeTaken ==
    ASSUME slot \in [Slots -> SlotSet], Taken, NEW i \in Slots, NEW to \in {"asking", "hooks", "run"},
           Become(i, to), to = "asking" => slot[i].call.tool \in FileTools \cup ShellTools
    PROVE  Taken'
<1> DEFINE new == [slot[i] EXCEPT !.pc = to]
<1>1. slot' = [slot EXCEPT ![i] = new]
  BY DEF Become
<1>2. new.pc = to /\ new.call = slot[i].call
  BY NewPc
<1> HIDE DEF new
<1>3. SlotTaken(new)
  BY <1>2 DEF SlotTaken
<1> QED BY <1>1, <1>3, OneTaken

LEMMA YesTaken ==
    ASSUME slot \in [Slots -> SlotSet], Taken, NEW i \in Slots,
           slot' = [slot EXCEPT ![i].pc = "hooks", ![i].yes = TRUE]
    PROVE  Taken'
<1> DEFINE new == [slot[i] EXCEPT !.pc = "hooks", !.yes = TRUE]
<1>1. slot' = [slot EXCEPT ![i] = new]
  OBVIOUS
<1>2. new.pc = "hooks"
  BY NewYes
<1> HIDE DEF new
<1>3. SlotTaken(new)
  BY <1>2 DEF SlotTaken
<1> QED BY <1>1, <1>3, OneTaken

LEMMA CallTypes ==
    ASSUME ApprovalInv, ApprovalTypes, NEW i \in Slots,
           \/ PolicyDenies(i) \/ Check(i) \/ Approve(i) \/ Refuse(i) \/ Hooks(i) \/ Run(i)
    PROVE  ApprovalTypes'
<1>1. slot \in [Slots -> SlotSet] /\ Taken
  BY DEF ApprovalInv, ApprovalTypes
<1>2. Rest
  BY DEF PolicyDenies, Check, Approve, Refuse, Hooks, Run
<1>3. ApprovalFlags'
  BY <1>2, Zenon DEF ApprovalTypes, ApprovalFlags, Rest, config
<1>4. ApprovalLists' /\ ApprovalBounds'
  BY <1>2 DEF ApprovalTypes, ApprovalLists, ApprovalBounds, Rest, config
<1>5. \/ Free(i) \/ Approve(i) \/ Become(i, "hooks") \/ Become(i, "run")
      \/ Decision(slot[i].call) # "allowed" /\ Become(i, "asking")
  BY DEF PolicyDenies, Check, Refuse, Hooks, Run
<1>6. Taken'
  <2>1. CASE Approve(i)
    BY <1>1, <2>1, YesTaken DEF Approve
  <2>2. CASE Free(i)
    BY <1>1, <2>2, FreeTaken
  <2>3. CASE Become(i, "hooks") \/ Become(i, "run")
    BY <1>1, <2>3, BecomeTaken
  <2>4. CASE Decision(slot[i].call) # "allowed" /\ Become(i, "asking")
    <3>1. slot[i].call.tool \in FileTools \cup ShellTools
      BY <2>4 DEF Decision
    <3> QED BY <1>1, <2>4, <3>1, BecomeTaken
  <2> QED BY <1>5, <2>1, <2>2, <2>3, <2>4
<1> QED BY <1>3, <1>4, <1>6 DEF ApprovalTypes

LEMMA AllowSessionTypes == ASSUME ApprovalInv, ApprovalTypes, NEW i \in Slots, AllowSession(i) PROVE ApprovalTypes'
<1> DEFINE r == {SessionRule(slot[i].call)}
<1>1. /\ slot[i].pc = "asking" /\ slot' = [slot EXCEPT ![i].pc = "hooks", ![i].yes = TRUE]
      /\ promised' = promised \cup r
      /\ \/ configured' = configured \cup r /\ own' = own
         \/ own' = own \cup r /\ configured' = configured
      /\ UNCHANGED <<mode, deny, allow, interactive, aliased, readOnly, turns, submitted>>
  BY DEF AllowSession, config
<1>2. slot \in [Slots -> SlotSet] /\ Taken
  BY DEF ApprovalInv, ApprovalTypes
<1>3. r \subseteq Commands \cup FileTools
  <2>1. slot[i].call \in Calls
    BY <1>1 DEF ApprovalInv, SlotOK
  <2>2. slot[i].call.tool \in FileTools \cup ShellTools
    BY <1>1, <1>2 DEF Taken, SlotTaken
  <2>3. ASSUME slot[i].call.tool \in ShellTools PROVE slot[i].call.target \in Commands
    BY <2>1, <2>3 DEF Calls, ToolCall, ShellTools
  <2> QED BY <2>2, <2>3 DEF SessionRule
<1> HIDE DEF r
<1>4. Taken'
  BY <1>1, <1>2, YesTaken
<1>5. ApprovalFlags'
  BY <1>1, Zenon DEF ApprovalTypes, ApprovalFlags
<1>6. ApprovalLists' /\ ApprovalBounds'
  BY <1>1, <1>3 DEF ApprovalTypes, ApprovalLists, ApprovalBounds
<1> QED BY <1>4, <1>5, <1>6 DEF ApprovalTypes

LEMMA SubmitTypes == ASSUME ApprovalInv, ApprovalTypes, NEW i \in Slots, NEW c, Submit(i, c) PROVE ApprovalTypes'
<1>1. /\ submitted < MaxSubmitted /\ submitted' = submitted + 1
      /\ slot' = [slot EXCEPT ![i] = [pc |-> "approval", call |-> c, yes |-> FALSE]]
      /\ UNCHANGED <<mode, deny, allow, interactive, configured, aliased, own, readOnly, turns, promised>>
  BY DEF Submit, config
<1>2. slot \in [Slots -> SlotSet] /\ Taken
  BY DEF ApprovalInv, ApprovalTypes
<1>3. Taken'
  <2>1. SlotTaken([pc |-> "approval", call |-> c, yes |-> FALSE])
    BY DEF SlotTaken
  <2> QED BY <1>1, <1>2, <2>1, OneTaken
<1>4. ApprovalFlags'
  BY <1>1, Zenon DEF ApprovalTypes, ApprovalFlags
<1>5. ApprovalLists'
  BY <1>1 DEF ApprovalTypes, ApprovalLists
<1>6. ApprovalBounds'
  BY <1>1, ApprovalAssumption DEF ApprovalTypes, ApprovalBounds
<1> QED BY <1>3, <1>4, <1>5, <1>6 DEF ApprovalTypes

LEMMA ConfigureTypes ==
    ASSUME ApprovalTypes, NEW m \in Modes, NEW tty \in BOOLEAN, NEW d \in AtMostOne(Paths \cup Commands),
           NEW a \in AtMostOne(Paths \cup Commands), NEW s \in AtMostOne(Commands), Configure(m, tty, d, a, s)
    PROVE  ApprovalTypes'
<1>1. ApprovalFlags'
  BY Zenon DEF ApprovalTypes, ApprovalFlags, Configure
<1>2. ApprovalLists'
  BY DEF ApprovalTypes, ApprovalLists, Configure, AtMostOne
<1>3. ApprovalBounds' /\ Taken'
  BY DEF ApprovalTypes, ApprovalBounds, Taken, SlotTaken, Configure
<1> QED BY <1>1, <1>2, <1>3 DEF ApprovalTypes

LEMMA NextTurnTypes == ASSUME ApprovalTypes, NEW ro \in BOOLEAN, NextTurn(ro) PROVE ApprovalTypes'
<1>1. ApprovalFlags'
  <2>1. aliased' = (configured # {}) /\ readOnly' = ro /\ interactive' = interactive
    BY Zenon DEF NextTurn, config
  <2> QED BY <2>1, Zenon DEF ApprovalTypes, ApprovalFlags
<1>2. ApprovalLists'
  BY DEF ApprovalTypes, ApprovalLists, NextTurn, config
<1>3. ApprovalBounds'
  BY ApprovalAssumption DEF ApprovalTypes, ApprovalBounds, NextTurn
<1>4. Taken'
  BY DEF ApprovalTypes, Taken, SlotTaken, NextTurn
<1> QED BY <1>1, <1>2, <1>3, <1>4 DEF ApprovalTypes

LEMMA ApprovalTypesStep == ASSUME ApprovalInv, ApprovalTypes, [ApprovalNext]_approvalVars PROVE ApprovalTypes'
<1>1. CASE UNCHANGED approvalVars
  <2>1. ApprovalFlags'
    BY <1>1, Zenon DEF ApprovalTypes, ApprovalFlags, approvalVars, config
  <2>2. ApprovalLists' /\ ApprovalBounds' /\ Taken'
    BY <1>1 DEF ApprovalTypes, ApprovalLists, ApprovalBounds, Taken, SlotTaken, approvalVars, config
  <2> QED BY <2>1, <2>2 DEF ApprovalTypes
<1>2. CASE ApprovalNext
  BY <1>2, ConfigureTypes, NextTurnTypes, CallTypes, AllowSessionTypes, SubmitTypes DEF ApprovalNext
<1> QED BY <1>1, <1>2

-----------------------------------------------------------------------------
(* The types of FileTools.                                                  *)

Texts == [EditPaths -> Sources \cup {Absent}]
EditSet == [path : EditPaths, text : Sources]
SeenText(s) == s = NotSeen \/ (s.path \in EditPaths /\ s.text \in Sources)
FilesTypes ==
    /\ disk \in Texts /\ before \in Texts /\ trash \subseteq Sources /\ SeenText(seen)
    /\ ops \in 0..MaxOps /\ faults \in 0..MaxFaults
    /\ edits \in Seq(EditSet) /\ others \subseteq EditPaths /\ torn \subseteq EditPaths

LEMMA FilesTypesHold == ASSUME FilesTypes PROVE FilesTypeOK
<1>1. \A p \in EditPaths : {disk[p], before[p]} \subseteq Sources \cup {Absent}
  BY DEF FilesTypes, Texts
<1>2. \A i \in DOMAIN edits : edits[i].path \in EditPaths /\ edits[i].text \in Sources
  <2>1. \A i \in DOMAIN edits : edits[i] \in EditSet
    BY DEF FilesTypes
  <2> QED BY <2>1 DEF EditSet
<1> QED BY <1>1, <1>2, Zenon DEF FilesTypes, SeenText, FilesTypeOK

LEMMA EmptyText == <<>> \in Sources
<1>1. <<>> \in [1..0 -> SourceLines] /\ 0 \in 0..TextLength
  BY FilesAssumption DEF FilesAssumption
<1> QED BY <1>1 DEF Sources

LEMMA FilesTypesStart == ASSUME FilesInit PROVE FilesTypes
<1>1. disk \in Texts /\ before \in Texts
  BY DEF FilesInit, Texts
<1>2. ops \in 0..MaxOps /\ faults \in 0..MaxFaults
  BY FilesAssumption DEF FilesInit
<1>3. edits \in Seq(EditSet)
  BY DEF FilesInit
<1> QED BY <1>1, <1>2, <1>3, Zenon DEF FilesInit, FilesTypes, SeenText

\* What a call that has begun leaves alone: its own records are of their types.
CallTyped ==
    /\ before' \in Texts /\ ops' \in 0..MaxOps /\ others' \subseteq EditPaths

LEMMA BeginsTyped == ASSUME FilesTypes, Begins PROVE CallTyped
<1>1. ops' \in 0..MaxOps
  BY FilesAssumption DEF Begins, Between, FilesTypes
<1>2. before' = disk /\ others' = {}
  BY DEF Begins
<1> QED BY <1>1, <1>2 DEF CallTyped, FilesTypes

LEMMA RefusedTyped == ASSUME FilesTypes, CallTyped, NEW e, Refused(e) PROVE FilesTypes'
<1>1. UNCHANGED <<disk, trash, seen, faults, edits>> /\ torn' = {}
  BY Zenon DEF Refused
<1>2. (edits \in Seq(EditSet))' /\ (disk \in Texts)' /\ (faults \in 0..MaxFaults)' /\ (trash \subseteq Sources)'
  BY <1>1 DEF FilesTypes
<1>3. SeenText(seen')
  BY <1>1, Zenon DEF FilesTypes
<1> QED BY <1>1, <1>2, <1>3 DEF FilesTypes, CallTyped, SeenText

LEMMA OneText ==
    ASSUME disk \in Texts, NEW p, NEW text \in Sources \cup {Absent}
    PROVE  [disk EXCEPT ![p] = text] \in Texts
BY DEF Texts

LEMMA WrittenTyped ==
    ASSUME FilesTypes, CallTyped, NEW p \in EditPaths, NEW text \in Sources, Written(p, text)
    PROVE  FilesTypes'
<1>1. UNCHANGED <<trash, seen, edits>>
  BY Zenon DEF Written
<1>2. disk' \in Texts
  <2>1. disk \in Texts
    BY DEF FilesTypes
  <2>2. [disk EXCEPT ![p] = text] \in Texts /\ [disk EXCEPT ![p] = <<>>] \in Texts
    BY <2>1, OneText, EmptyText
  <2> QED BY <2>1, <2>2, Zenon DEF Written
<1>3. torn' \subseteq EditPaths
  BY DEF Written
<1>4. faults' \in 0..MaxFaults
  BY FilesAssumption DEF Written, FilesTypes
<1> QED BY <1>1, <1>2, <1>3, <1>4, Zenon DEF FilesTypes, CallTyped, SeenText

LEMMA ReadTyped == ASSUME FilesTypes, NEW p \in EditPaths, NEW start, NEW end, Read(p, start, end) PROVE FilesTypes'
<1>1. CallTyped
  BY BeginsTyped DEF Read
<1>2. CASE \E e : Refused(e)
  BY <1>1, <1>2, RefusedTyped, Zenon
<1>3. CASE /\ There(p) /\ seen' = [path |-> p, text |-> disk[p]] /\ torn' = {}
           /\ UNCHANGED <<disk, trash, faults, edits>>
  <2>1. disk[p] \in Sources
    BY <1>3 DEF There, FilesTypes, Texts
  <2>2. SeenText(seen')
    BY <1>3, <2>1 DEF SeenText
  <2>3. (edits \in Seq(EditSet))' /\ (disk \in Texts)' /\ (faults \in 0..MaxFaults)' /\ (trash \subseteq Sources)'
    BY <1>3 DEF FilesTypes
  <2> QED BY <1>1, <1>3, <2>2, <2>3 DEF FilesTypes, CallTyped, SeenText
<1>4. There(p) \/ \E e : Refused(e)
  BY Zenon DEF Read
<1> QED BY <1>2, <1>3, <1>4, Zenon DEF Read

LEMMA WriteTyped ==
    ASSUME FilesTypes, NEW p \in EditPaths, NEW text \in Sources, NEW fresh, NEW named, Write(p, text, fresh, named)
    PROVE  FilesTypes'
<1>1. CallTyped
  BY BeginsTyped DEF Write
<1>2. (\E e : Refused(e)) \/ Written(p, text)
  BY Zenon DEF Write
<1> QED BY <1>1, <1>2, RefusedTyped, WrittenTyped

LEMMA PatchTyped ==
    ASSUME FilesTypes, NEW p \in EditPaths, NEW patches, NEW named, Patch(p, patches, named)
    PROVE  FilesTypes'
<1>1. CallTyped
  BY BeginsTyped DEF Patch
<1>2. (\E e : Refused(e)) \/ \E text \in Sources : Written(p, text)
  BY Zenon DEF Patch
<1> QED BY <1>1, <1>2, RefusedTyped, WrittenTyped

LEMMA ReplaceTyped ==
    ASSUME FilesTypes, NEW p \in EditPaths, NEW word, NEW indent, NEW lines, Replace(p, word, indent, lines)
    PROVE  FilesTypes'
<1>1. CallTyped
  BY BeginsTyped DEF Replace
<1>2. (\E e : Refused(e)) \/ \E text \in Sources : Written(p, text)
  BY Zenon DEF Replace
<1> QED BY <1>1, <1>2, RefusedTyped, WrittenTyped

LEMMA DeleteTyped ==
    ASSUME FilesTypes, NEW p \in EditPaths, NEW missingOk, NEW named, NEW keeps, Delete(p, missingOk, named, keeps)
    PROVE  FilesTypes'
<1>1. CallTyped
  BY BeginsTyped DEF Delete
<1>2. CASE \E e : Refused(e)
  BY <1>1, <1>2, RefusedTyped, Zenon
<1>3. CASE torn' = {} /\ UNCHANGED <<disk, trash, seen, faults, edits>>
  <2>1. (edits \in Seq(EditSet))' /\ (disk \in Texts)' /\ (faults \in 0..MaxFaults)' /\ (trash \subseteq Sources)'
    BY <1>3 DEF FilesTypes
  <2> QED BY <1>1, <1>3, <2>1, Zenon DEF FilesTypes, CallTyped, SeenText
<1>4. CASE /\ There(p) /\ disk' = [disk EXCEPT ![p] = Absent] /\ trash' \subseteq trash \cup {disk[p]} /\ torn' = {}
           /\ UNCHANGED <<seen, faults, edits>>
  <2>1. disk[p] \in Sources
    BY <1>4 DEF There, FilesTypes, Texts
  <2>2. disk' \in Texts
    BY <1>4, OneText DEF FilesTypes
  <2>3. trash' \subseteq Sources
    BY <1>4, <2>1 DEF FilesTypes
  <2>4. (edits \in Seq(EditSet))' /\ (faults \in 0..MaxFaults)'
    BY <1>4 DEF FilesTypes
  <2> QED BY <1>1, <1>4, <2>2, <2>3, <2>4, Zenon DEF FilesTypes, CallTyped, SeenText
<1>5. keeps \/ ~keeps
  OBVIOUS
<1>6. (IF keeps THEN trash \cup {disk[p]} ELSE trash) \subseteq trash \cup {disk[p]}
  OBVIOUS
<1> QED BY <1>2, <1>3, <1>4, <1>6, Zenon DEF Delete

LEMMA EditsTyped == ASSUME FilesTypes, NEW list \in EditLists, Edits(list) PROVE FilesTypes'
<1>1. CallTyped
  BY BeginsTyped DEF Edits
<1>2. list \in Seq(EditSet)
  <2> DEFINE S == [path : EditPaths, text : {s \in Sources : Len(s) <= BlockLength}]
  <2>1. S \subseteq EditSet
    BY DEF EditSet
  <2> HIDE DEF S
  <2>2. ASSUME NEW x \in S PROVE <<x>> \in Seq(EditSet)
    BY <2>1
  <2>3. ASSUME NEW x \in S, NEW y \in S PROVE <<x, y>> \in Seq(EditSet)
    BY <2>1
  <2>4. list \in Lists(S)
    BY DEF EditLists, S
  <2>5. CASE list \in {<<x>> : x \in S}
    BY <2>2, <2>5
  <2>6. CASE list \in S \X S
    <3>1. list = <<list[1], list[2]>> /\ list[1] \in S /\ list[2] \in S
      BY <2>6
    <3> QED BY <2>3, <3>1
  <2> QED BY <2>4, <2>5, <2>6 DEF Lists
<1>3. edits' = list /\ torn' = {} /\ UNCHANGED <<disk, trash, seen, faults>>
  BY DEF Edits
<1>4. (disk \in Texts)' /\ (faults \in 0..MaxFaults)' /\ (trash \subseteq Sources)'
  BY <1>3 DEF FilesTypes
<1> QED BY <1>1, <1>2, <1>3, <1>4, Zenon DEF FilesTypes, CallTyped, SeenText

LEMMA HeadTyped ==
    ASSUME FilesTypes, edits # <<>>
    PROVE  Head(edits).path \in EditPaths /\ Head(edits).text \in Sources /\ Tail(edits) \in Seq(EditSet)
<1>1. Head(edits) \in EditSet /\ Tail(edits) \in Seq(EditSet)
  BY DEF FilesTypes
<1> QED BY <1>1 DEF EditSet

LEMMA EditNextTyped == ASSUME FilesTypes, EditNext PROVE FilesTypes'
<1>1. /\ edits # <<>> /\ UNCHANGED <<trash, seen, ops, faults, before, others>>
      /\ disk' = [disk EXCEPT ![Head(edits).path] = Head(edits).text]
      /\ edits' = Tail(edits) /\ torn' = torn \cup {Head(edits).path}
  BY Zenon DEF EditNext
<1>2. Head(edits).path \in EditPaths /\ Head(edits).text \in Sources /\ Tail(edits) \in Seq(EditSet)
  BY <1>1, HeadTyped
<1>3. disk' \in Texts
  BY <1>1, <1>2, OneText DEF FilesTypes
<1>4. torn' \subseteq EditPaths /\ edits' \in Seq(EditSet)
  BY <1>1, <1>2 DEF FilesTypes
<1>5. faults' \in 0..MaxFaults
  BY <1>1 DEF FilesTypes
<1> QED BY <1>1, <1>3, <1>4, <1>5, Zenon DEF FilesTypes, SeenText

LEMMA RejectedTyped ==
    ASSUME FilesTypes, NEW e, NEW mine \in SUBSET EditPaths, NEW failed \in SUBSET torn, NEW count \in Nat,
           Rejected(e, mine, failed, count)
    PROVE  FilesTypes'
<1>1. /\ edits' = <<>> /\ torn' = failed \cup mine /\ faults + count <= MaxFaults /\ faults' = faults + count
      /\ UNCHANGED <<trash, seen, ops, before, others>>
  BY Zenon DEF Rejected
<1>2. PICK emptied : disk' = RolledBack(torn, failed, emptied)
  BY Zenon DEF Rejected
<1>3. disk' \in Texts
  BY <1>2, EmptyText DEF FilesTypes, Texts, RolledBack
<1>4. torn' \subseteq EditPaths /\ edits' \in Seq(EditSet)
  BY <1>1 DEF FilesTypes
<1>5. faults' \in 0..MaxFaults
  BY <1>1, FilesAssumption DEF FilesTypes
<1> QED BY <1>1, <1>3, <1>4, <1>5, Zenon DEF FilesTypes, SeenText

LEMMA ListTyped == ASSUME FilesTypes, EditNext \/ EditRejected \/ EditFails PROVE FilesTypes'
<1>1. \A failed \in SUBSET torn : Cardinality(failed) \in Nat
  <2>1. torn \subseteq EditPaths
    BY Zenon DEF FilesTypes
  <2>2. \A failed \in SUBSET torn : failed \in SUBSET EditPaths
    BY <2>1
  <2> QED BY <2>2, FilesAssumption, FS_Subset, FS_CardinalityType, Zenon
<1>2. CASE EditRejected
  BY <1>1, <1>2, RejectedTyped, Zenon DEF EditRejected
<1>3. CASE EditFails
  <2>1. PICK failed \in SUBSET torn : Rejected("OSError", {Head(edits).path} \ torn, failed, 1 + Cardinality(failed))
    BY <1>3, Zenon DEF EditFails
  <2>2. {Head(edits).path} \ torn \in SUBSET EditPaths
    BY <1>3, HeadTyped DEF EditFails
  <2>3. 1 + Cardinality(failed) \in Nat
    BY <1>1
  <2> QED BY <2>1, <2>2, <2>3, RejectedTyped, Zenon
<1> QED BY <1>2, <1>3, EditNextTyped, Zenon

LEMMA OtherEditsTyped ==
    ASSUME FilesTypes, NEW p \in EditPaths, NEW text \in Sources \cup {Absent}, OtherEdits(p, text)
    PROVE  FilesTypes'
<1>1. /\ disk' = [disk EXCEPT ![p] = text] /\ others' = others \cup {p}
      /\ UNCHANGED <<trash, seen, faults, edits, before, torn>>
  BY DEF OtherEdits
<1>2. disk' \in Texts
  BY <1>1, OneText DEF FilesTypes
<1>3. ops' \in 0..MaxOps
  BY FilesAssumption DEF OtherEdits, FilesTypes
<1>4. others' \subseteq EditPaths
  BY <1>1 DEF FilesTypes
<1> QED BY <1>1, <1>2, <1>3, <1>4, Zenon DEF FilesTypes, SeenText

LEMMA FilesTypesStep == ASSUME FilesTypes, [FilesNext]_filesVars PROVE FilesTypes'
<1>1. CASE UNCHANGED filesVars
  BY <1>1, Zenon DEF filesVars, FilesTypes, SeenText
<1>2. ASSUME NEW p \in EditPaths, NEW start \in 1..TextLength, NEW end \in 1..TextLength, Read(p, start, end)
      PROVE  FilesTypes'
  BY <1>2, ReadTyped
<1>3. ASSUME NEW p \in EditPaths, NEW text \in Sources, NEW fresh \in BOOLEAN, NEW named \in BOOLEAN,
             Write(p, text, fresh, named)
      PROVE  FilesTypes'
  BY <1>3, WriteTyped
<1>4. ASSUME NEW p \in EditPaths, NEW patches \in PatchLists, NEW named \in BOOLEAN, Patch(p, patches, named)
      PROVE  FilesTypes'
  BY <1>4, PatchTyped
<1>5. ASSUME NEW p \in EditPaths, NEW word \in WordsOf, NEW indent \in 0..Indents, NEW lines \in Sources \ {<<>>},
             Replace(p, word, indent, lines)
      PROVE  FilesTypes'
  BY <1>5, ReplaceTyped
<1>6. ASSUME NEW p \in EditPaths, NEW missingOk \in BOOLEAN, NEW named \in BOOLEAN, NEW keeps \in BOOLEAN,
             Delete(p, missingOk, named, keeps)
      PROVE  FilesTypes'
  BY <1>6, DeleteTyped
<1>7. ASSUME NEW list \in EditLists, Edits(list) PROVE FilesTypes'
  BY <1>7, EditsTyped
<1>8. ASSUME EditNext \/ EditRejected \/ EditFails PROVE FilesTypes'
  BY <1>8, ListTyped
<1>9. ASSUME NEW p \in EditPaths, NEW text \in Sources \cup {Absent}, OtherEdits(p, text) PROVE FilesTypes'
  BY <1>9, OtherEditsTyped
<1> QED BY <1>1, <1>2, <1>3, <1>4, <1>5, <1>6, <1>7, <1>8, <1>9, Zenon DEF FilesNext

-----------------------------------------------------------------------------
(* The types of WebSearch.                                                  *)

WebHeld ==
    /\ backend \in Backends /\ evidence \in References /\ final \in BOOLEAN /\ cited \in References
WebCounts ==
    /\ topN \in 1..MaxTop /\ page \in 0..(MaxPages - 1) /\ attempt \in 0..(MaxAttempts - 1)
    /\ lastError \in BOOLEAN
WebTypes == WebHeld /\ WebCounts

LEMMA WebTypesHold == ASSUME WebInv, WebTypes PROVE WebTypeOK
<1>1. requests \in 0..(MaxPages * MaxAttempts + 1)
  BY Limits, SMT DEF WebInv, Limit
<1> QED BY <1>1, Zenon DEF WebInv, WebTypes, WebHeld, WebCounts, References, WebTypeOK

LEMMA NoReferences == <<>> \in References
BY NoneAtAll, UrlsAreReferences

\* The numbers of a call that begins.
LEMMA WebZeros == 1 \in 1..MaxTop /\ 0 \in 0..(MaxPages - 1) /\ 0 \in 0..(MaxAttempts - 1)
BY WebAssumption, SMT

LEMMA WebTypesStart == ASSUME WebInit PROVE WebTypes
<1>1. backend \in Backends /\ evidence = <<>> /\ cited = <<>> /\ final = FALSE /\ lastError = FALSE
  BY DEF WebInit
<1>2. topN = 1 /\ page = 0 /\ attempt = 0
  BY DEF WebInit
<1> QED BY <1>1, <1>2, WebZeros, NoReferences, Zenon DEF WebTypes, WebHeld, WebCounts

LEMMA ResultHeld ==
    ASSUME WebHeld, NEW kind, NEW refs \in References, Result(kind, refs)
    PROVE  WebHeld'
BY Zenon DEF WebHeld, Result

LEMMA AskedHeld ==
    ASSUME WebHeld, evidence' = <<>>, UNCHANGED <<backend, final, cited>>
    PROVE  WebHeld'
BY NoReferences, Zenon DEF WebHeld

\* A call that begins sets the numbers.
LEMMA BegunCounts ==
    ASSUME NEW n \in 1..MaxTop, topN' = n, page' = 0, attempt' = 0, lastError' = FALSE
    PROVE  WebCounts'
BY WebZeros, Zenon DEF WebCounts

LEMMA SameCounts == ASSUME WebCounts, Counted PROVE WebCounts'
BY Zenon DEF WebCounts, Counted

LEMMA SearchTyped ==
    ASSUME WebHeld, NEW n \in 1..MaxTop, NEW s \in Rows, NEW b, Search(n, s, b)
    PROVE  WebTypes'
<1>1. n \in Nat
  BY WebAssumption
<1>2. First(Links(s), n) \in References
  <2>1. Links(s) \in Seq(Urls)
    BY RowsAreSequences, LinksAreUrls
  <2> QED BY <1>1, <2>1, FirstOf, UrlsAreReferences
<1>3. WebCounts'
  BY BegunCounts, Zenon DEF Search
<1>4. \/ Result("web_evidence", First(Links(s), n)) \/ Result("web_unavailable", <<>>)
      \/ evidence' = <<>> /\ UNCHANGED <<backend, final, cited>>
  BY Zenon DEF Search
<1>5. WebHeld'
  BY <1>2, <1>4, ResultHeld, AskedHeld, NoReferences
<1> QED BY <1>3, <1>5 DEF WebTypes

LEMMA FetchTyped == ASSUME WebHeld, NEW b, Fetch(b) PROVE WebTypes'
<1>1. WebCounts'
  BY WebZeros, BegunCounts, Zenon DEF Fetch
<1>2. Result("web_unavailable", <<>>) \/ (evidence' = <<>> /\ UNCHANGED <<backend, final, cited>>)
  BY Zenon DEF Fetch
<1>3. WebHeld'
  BY <1>2, ResultHeld, AskedHeld, NoReferences
<1> QED BY <1>1, <1>3 DEF WebTypes

LEMMA FetchSuppliedTyped == ASSUME WebHeld, NEW url \in Urls, FetchSupplied(url) PROVE WebTypes'
<1>1. WebCounts'
  BY WebZeros, BegunCounts, Zenon DEF FetchSupplied
<1>2. Result("plain", <<url>>)
  BY DEF FetchSupplied
<1>3. WebHeld'
  BY <1>2, ResultHeld, OneUrl
<1> QED BY <1>1, <1>3 DEF WebTypes

\* The calls of one request, and an exception.
LEMMA RequestTyped ==
    ASSUME WebTypes, NEW kind, NEW refs \in References, Result(kind, refs), Counted
    PROVE  WebTypes'
BY ResultHeld, SameCounts DEF WebTypes

LEMMA FetchedTyped == ASSUME WebTypes, NEW url \in Urls, Fetched(url) PROVE WebTypes'
<1>1. Counted /\ (Result("web_evidence", <<url>>) \/ Result("web_error", <<>>))
  BY Zenon DEF Fetched
<1> QED BY <1>1, RequestTyped, OneUrl, NoReferences

LEMMA AnsweredTyped == ASSUME WebInv, WebTypes, NEW rows \in Rows, Answered(rows) PROVE WebTypes'
<1>1. topN \in Nat
  BY DEF WebInv
<1>2. First(rows, topN) \in References
  BY <1>1, RowsAreSequences, PrefixIsReferences
<1>3. Counted /\ \E kind : Result(kind, First(rows, topN))
  BY Zenon DEF Answered
<1> QED BY <1>2, <1>3, RequestTyped

LEMMA NotAnsweredTyped == ASSUME WebTypes, NotAnswered \/ Breaks PROVE WebTypes'
<1>1. Counted /\ \E kind : Result(kind, <<>>)
  BY Zenon DEF NotAnswered, Breaks
<1> QED BY <1>1, RequestTyped, NoReferences

LEMMA InstantTyped == ASSUME WebInv, WebTypes, NEW rows \in Rows, Instant(rows) PROVE WebTypes'
<1> DEFINE found == First(Distinct(Links(rows)), topN)
<1>1. topN \in Nat
  BY DEF WebInv
<1>2. Distinct(Links(rows)) \in Seq(Urls)
  BY RowsAreSequences, LinksAreUrls, DistinctOfAll
<1>3. found \in References
  BY <1>1, <1>2, FirstOf, UrlsAreReferences
<1>4. Counted /\ (Result("web_evidence", found) \/ Result("web_unavailable", <<>>))
  BY Zenon DEF Instant
<1> HIDE DEF found
<1> QED BY <1>3, <1>4, RequestTyped, NoReferences

LEMMA PagedHeld == ASSUME WebHeld, NEW found \in References, Paged(found) PROVE WebHeld'
<1>1. Result("web_evidence", found) \/ (evidence' = <<>> /\ UNCHANGED <<backend, final, cited>>)
  BY Zenon DEF Paged
<1> QED BY <1>1, ResultHeld, AskedHeld

LEMMA PageTyped == ASSUME WebInv, WebTypes, NEW rows \in Rows, Page(rows) PROVE WebTypes'
<1> DEFINE results == Parsed(rows)
           found == First(Distinct(evidence \o results), topN)
           last == Len(found) = topN \/ Len(results) < topN \/ page + 1 = MaxPages
<1>1. Holding /\ Counting /\ topN \in Nat
  BY DEF WebInv, Page
<1>2. results \in Seq(Urls)
  BY <1>1, RowsAreSequences, LinksAreUrls, FirstOf DEF Parsed
<1>3. /\ UNCHANGED <<topN, lastError>>
      /\ last => Paged(found) /\ UNCHANGED <<page, attempt>>
      /\ ~last => /\ evidence' = found /\ page' = page + 1 /\ attempt' = 0
                  /\ UNCHANGED <<backend, final, cited>>
  BY DEF Page
<1>4. last \in BOOLEAN /\ (~last => page + 1 # MaxPages)
  OBVIOUS
<1> HIDE DEF results
<1>5. Distinct(evidence \o results) \in Seq(Urls)
  BY <1>1, <1>2, Joined, DistinctOfAll DEF Holding
<1>6. found \in References
  BY <1>1, <1>5, FirstOf, UrlsAreReferences
<1> HIDE DEF found, last
<1>7. CASE last
  <2>1. WebHeld'
    BY <1>3, <1>6, <1>7, PagedHeld DEF WebTypes
  <2>2. WebCounts'
    BY <1>3, <1>7, Zenon DEF WebTypes, WebCounts
  <2> QED BY <2>1, <2>2 DEF WebTypes
<1>8. CASE ~last
  <2>1. WebHeld'
    BY <1>3, <1>6, <1>8, Zenon DEF WebTypes, WebHeld
  <2>2. page' \in 0..(MaxPages - 1)
    BY <1>1, <1>3, <1>4, <1>8, WebAssumption, SMT DEF Counting
  <2>3. WebCounts'
    BY <1>3, <1>8, <2>2, WebZeros, Zenon DEF WebTypes, WebCounts
  <2> QED BY <2>1, <2>3 DEF WebTypes
<1> QED BY <1>4, <1>7, <1>8

LEMMA PageFailsTyped == ASSUME WebInv, WebTypes, PageFails PROVE WebTypes'
<1>1. Counting /\ evidence \in References /\ UNCHANGED <<topN, page>>
  BY DEF WebInv, PageFails, WebTypes, WebHeld
<1>2. CASE /\ attempt + 1 < MaxAttempts /\ attempt' = attempt + 1
           /\ UNCHANGED <<backend, evidence, lastError, final, cited>>
  <2>1. attempt' \in 0..(MaxAttempts - 1)
    BY <1>1, <1>2, WebAssumption, SMT DEF Counting
  <2> QED BY <1>1, <1>2, <2>1, Zenon DEF WebTypes, WebHeld, WebCounts
<1>3. CASE lastError' = TRUE /\ UNCHANGED attempt /\ Paged(evidence)
  <2>1. WebHeld'
    BY <1>1, <1>3, PagedHeld DEF WebTypes
  <2>2. WebCounts'
    BY <1>1, <1>3, Zenon DEF WebTypes, WebCounts
  <2> QED BY <2>1, <2>2 DEF WebTypes
<1> QED BY <1>2, <1>3, Zenon DEF PageFails

\* The references a fallback answer may cite, observation by observation.
ItemsUpTo(g, n) == g = [m \in 0..n |-> IF m = 0 THEN <<>> ELSE With(g[m - 1], observed[m])]

LEMMA ItemsExist == ASSUME NEW n \in Nat PROVE \E g : ItemsUpTo(g, n)
<1> DEFINE K == {k \in Nat : \E g : ItemsUpTo(g, k)}
<1>1. 0 \in K
  <2> DEFINE g == [m \in 0..0 |-> <<>>]
  <2>1. \A m \in 0..0 : m = 0
    BY SMT
  <2>2. ItemsUpTo(g, 0)
    BY <2>1, Zenon DEF ItemsUpTo
  <2> QED BY <2>2
<1>2. ASSUME NEW k \in Nat, k \in K PROVE k + 1 \in K
  <2>1. PICK g : ItemsUpTo(g, k)
    BY <1>2
  <2> DEFINE h == [m \in 0..(k + 1) |-> IF m = k + 1 THEN With(g[k], observed[k + 1]) ELSE g[m]]
  <2>2. /\ \A m \in 0..(k + 1) : m = k + 1 \/ m \in 0..k
        /\ \A m \in 0..k : m # k + 1 /\ m \in 0..(k + 1)
        /\ \A m \in 0..(k + 1) : m # 0 => m - 1 \in 0..k
        /\ (k + 1) - 1 = k /\ k + 1 # 0 /\ k + 1 \in Nat
    BY SMT
  <2>3. \A m \in 0..k : g[m] = IF m = 0 THEN <<>> ELSE With(g[m - 1], observed[m])
    BY <2>1, Zenon DEF ItemsUpTo
  <2>4. \A m \in 0..k : h[m] = g[m]
    BY <2>2, Zenon
  <2>5. \A m \in 0..(k + 1) : h[m] = IF m = 0 THEN <<>> ELSE With(h[m - 1], observed[m])
    <3> TAKE m \in 0..(k + 1)
    <3>1. CASE m = k + 1
      BY <3>1, <2>2, <2>4, Zenon
    <3>2. CASE m \in 0..k
      BY <3>2, <2>2, <2>3, <2>4, Zenon
    <3> QED BY <3>1, <3>2, <2>2
  <2>6. ItemsUpTo(h, k + 1)
    BY <2>5, Zenon DEF ItemsUpTo
  <2> QED BY <2>2, <2>6, Zenon
<1> HIDE DEF K
<1>3. Nat \subseteq K
  BY <1>1, <1>2, AllNumbers
<1> QED BY <1>3 DEF K

LEMMA WithOne ==
    ASSUME NEW acc \in References, NEW o, o.refs \in References
    PROVE  With(acc, o) \in References
<1> DEFINE n == Least(5, IF Len(acc) < 8 THEN 8 - Len(acc) ELSE 1)
           more == First(Distinct(o.refs), n)
<1>1. Len(acc) \in Nat
  BY DEF References
<1>2. n \in Nat
  BY <1>1 DEF Least
<1> HIDE DEF n
<1>3. Distinct(o.refs) \in Seq(Urls \cup {NoUrl})
  BY DistinctOfAll DEF References
<1>4. more \in Seq(Urls \cup {NoUrl})
  BY <1>2, <1>3, FirstOf
<1>5. With(acc, o) = acc \o more \/ With(acc, o) = acc
  BY Zenon DEF With, n
<1> HIDE DEF more
<1>6. acc \o more \in References
  BY <1>4, Joined DEF References
<1> QED BY <1>5, <1>6

LEMMA ItemsAreReferences == ASSUME WebInv PROVE Items \in References
<1> DEFINE n == Len(observed)
           upTo == CHOOSE g : ItemsUpTo(g, n)
           K == {k \in Nat : k <= n => upTo[k] \in References}
<1>1. n \in Nat /\ \A m \in 1..n : observed[m].refs \in References
  <2>1. observed \in Seq(Observation)
    BY DEF WebInv
  <2>2. n \in Nat /\ \A m \in 1..n : observed[m] \in Observation
    BY <2>1
  <2> QED BY <2>2 DEF Observation
<1>2. ItemsUpTo(upTo, n)
  BY <1>1, ItemsExist, Zenon
<1>3. Items = First(upTo[n], 8)
  BY Zenon DEF Items, ItemsUpTo
<1> HIDE DEF n, upTo
<1>4. \A m \in 0..n : upTo[m] = IF m = 0 THEN <<>> ELSE With(upTo[m - 1], observed[m])
  BY <1>2, Zenon DEF ItemsUpTo
<1>5. 0 \in K
  <2>1. 0 \in 0..n
    BY <1>1, SMT
  <2>2. upTo[0] = <<>>
    BY <1>4, <2>1, Zenon
  <2> QED BY <2>2, NoReferences
<1>6. ASSUME NEW k \in Nat, k \in K PROVE k + 1 \in K
  <2> SUFFICES ASSUME k + 1 <= n PROVE upTo[k + 1] \in References
    OBVIOUS
  <2>1. k <= n /\ k + 1 \in 1..n /\ k + 1 \in 0..n /\ k + 1 # 0 /\ (k + 1) - 1 = k
    BY <1>1, SMT
  <2>2. upTo[k] \in References
    BY <2>1, <1>6
  <2>3. upTo[k + 1] = With(upTo[k], observed[k + 1])
    BY <1>4, <2>1, Zenon
  <2> QED BY <1>1, <2>1, <2>2, <2>3, WithOne
<1> HIDE DEF K
<1>7. Nat \subseteq K
  BY <1>5, <1>6, AllNumbers
<1>8. upTo[n] \in Seq(Urls \cup {NoUrl})
  BY <1>1, <1>7 DEF K, References
<1> QED BY <1>3, <1>8, PrefixIsReferences

LEMMA EndTyped == ASSUME WebInv, WebTypes, RequestFinal \/ Fallback PROVE WebTypes'
<1>1. UNCHANGED <<backend, topN, page, attempt, evidence, lastError>> /\ final' = TRUE
  BY Zenon DEF RequestFinal, Fallback
<1>2. First(Items, 6) \in References
  BY ItemsAreReferences, PrefixIsReferences DEF References
<1>3. cited' = cited \/ cited' = First(Items, 6)
  BY Zenon DEF RequestFinal, Fallback
<1>4. cited' \in References
  BY <1>2, <1>3, Zenon DEF WebTypes, WebHeld
<1> QED BY <1>1, <1>4, Zenon DEF WebTypes, WebHeld, WebCounts

LEMMA WebTypesStep == ASSUME WebInv, WebTypes, [WebNext]_webVars PROVE WebTypes'
<1>1. CASE \E n \in 1..MaxTop, s \in Rows, b \in BOOLEAN : Search(n, s, b)
  BY <1>1, SearchTyped DEF WebTypes
<1>2. CASE \E b \in BOOLEAN : Fetch(b)
  BY <1>2, FetchTyped DEF WebTypes
<1>3. CASE \E u \in Urls : FetchSupplied(u) \/ Fetched(u)
  BY <1>3, FetchSuppliedTyped, FetchedTyped DEF WebTypes
<1>4. CASE \E rows \in Rows : Answered(rows) \/ Page(rows) \/ Instant(rows)
  BY <1>4, AnsweredTyped, PageTyped, InstantTyped
<1>5. CASE NotAnswered \/ PageFails \/ Breaks \/ RequestFinal \/ Fallback
  BY <1>5, NotAnsweredTyped, PageFailsTyped, EndTyped
<1>6. CASE UNCHANGED webVars
  BY <1>6, Zenon DEF webVars, WebTypes, WebHeld, WebCounts
<1> QED BY <1>1, <1>2, <1>3, <1>4, <1>5, <1>6 DEF WebNext

-----------------------------------------------------------------------------
(* The tools together.                                                      *)

\* The invariants of the components and their types.
ToolTypes ==
    /\ ApprovalInv /\ ApprovalTypes
    /\ RpcInv /\ McpTypes
    /\ TasksInv /\ ParallelTypes
    /\ ShellInv
    /\ FilesTypes
    /\ WebInv /\ WebTypes

\* A step of the tools is a step of one component; the others stay as they are.
LEMMA ToolSteps ==
    ASSUME [Next]_vars
    PROVE  /\ [ApprovalNext]_approvalVars /\ [McpNext]_mcpVars /\ [ParallelNext]_parallelVars
           /\ [ShellNext]_shellVars /\ [FilesNext]_filesVars /\ [WebNext]_webVars
<1>1. CASE UNCHANGED vars
  BY <1>1, Zenon DEF vars
<1>2. CASE Next /\ active = "approval"
  <2>1. ApprovalOnly /\ ApprovalNext
    BY <1>2 DEF Next, ApprovalNext
  <2> QED BY <2>1, Zenon DEF ApprovalOnly
<1>3. CASE Next /\ active = "servers"
  <2>1. McpOnly /\ McpNext
    BY <1>3 DEF Next, McpNext
  <2> QED BY <2>1, Zenon DEF McpOnly
<1>4. CASE Next /\ active = "parallel"
  <2>1. ParallelOnly /\ ParallelNext
    BY <1>4 DEF Next, ParallelNext, Tasks
  <2> QED BY <2>1, Zenon DEF ParallelOnly
<1>5. CASE Next /\ active = "shell"
  <2>1. ShellOnly /\ ShellNext
    BY <1>5 DEF Next, ShellNext
  <2> QED BY <2>1, Zenon DEF ShellOnly
<1>6. CASE Next /\ active = "files"
  <2>1. FilesOnly /\ FilesNext
    BY <1>6 DEF Next, FilesNext
  <2> QED BY <2>1, Zenon DEF FilesOnly
<1>7. CASE Next /\ active = "web"
  <2>1. WebOnly /\ WebNext
    BY <1>7 DEF Next, WebNext
  <2> QED BY <2>1, Zenon DEF WebOnly
<1>8. Next => active \in {"approval", "servers", "parallel", "shell", "files", "web"}
  BY DEF Next
<1> QED BY <1>1, <1>2, <1>3, <1>4, <1>5, <1>6, <1>7, <1>8

\* The state of every tool component is of its type, whatever its calls do and however
\* large its bounds are: the queue of the requests names every caller once and none that
\* has ended, a search keeps within its pages and attempts and cites references only,
\* every entry of a list of edits has a file and a text, and a slot that is taken has a
\* call.
THEOREM ToolTypeCorrect == Spec => []TypeOK
<1>0. Setting /\ Bounds /\ Sizes /\ MaxTurns \in Nat
  BY McpAssumption, ParallelAssumption, ShellAssumption, ApprovalAssumption DEF ApprovalAssumption
<1>1. Init => ToolTypes
  <2>1. Init => ApprovalInit /\ McpInit /\ ParallelInit /\ ShellInit /\ FilesInit /\ WebInit
    BY Zenon DEF Init
  <2> QED BY <1>0, <2>1, ApprovalInvInit, ApprovalTypesStart, RpcInit, McpTypesStart, TasksInit,
             ParallelTypesStart, ShellInvInit, FilesTypesStart, WebStart, WebTypesStart, Zenon DEF ToolTypes
<1>2. ToolTypes /\ [Next]_vars => ToolTypes'
  <2> SUFFICES ASSUME ToolTypes, [Next]_vars PROVE ToolTypes'
    OBVIOUS
  <2>1. /\ [ApprovalNext]_approvalVars /\ [McpNext]_mcpVars /\ [ParallelNext]_parallelVars
        /\ [ShellNext]_shellVars /\ [FilesNext]_filesVars /\ [WebNext]_webVars
    BY ToolSteps
  <2>2. ApprovalInv' /\ ApprovalTypes'
    BY <1>0, <2>1, ApprovalStep, ApprovalTypesStep DEF ToolTypes
  <2>3. RpcInv' /\ McpTypes'
    BY <1>0, <2>1, McpStep, McpTypesStep DEF ToolTypes
  <2>4. TasksInv' /\ ParallelTypes'
    BY <1>0, <2>1, TasksStep, ParallelTypesStep DEF ToolTypes
  <2>5. ShellInv'
    BY <2>1, ShellStep DEF ToolTypes
  <2>6. FilesTypes'
    BY <2>1, FilesTypesStep DEF ToolTypes
  <2>7. WebInv' /\ WebTypes'
    BY <2>1, WebStep, WebTypesStep DEF ToolTypes
  <2> QED BY <2>2, <2>3, <2>4, <2>5, <2>6, <2>7, Zenon DEF ToolTypes
<1>3. ToolTypes => TypeOK
  BY ApprovalTypesHold, McpTypesHold, ParallelTypesHold, ShellTypesHold, FilesTypesHold, WebTypesHold,
     Zenon DEF ToolTypes, TypeOK
<1> QED BY <1>1, <1>2, <1>3, PTL DEF Spec
=============================================================================
