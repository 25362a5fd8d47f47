---------------------------- MODULE ToolApproval ----------------------------
(***************************************************************************)
(* ToolExecutor.execute (tools/executor.py) between the request of a call   *)
(* and its run: the read-only invariant and the policy (agent/policy.py),   *)
(* the approval (tools/approval.py, tools/permission_rules.py) with the     *)
(* question to the user, and the pre_tool hooks (tools/hooks.py).           *)
(*                                                                         *)
(* Read-only calls of one reply are executed concurrently (the prefetch of  *)
(* ToolCallProcessor), so several may be under way.  A session has several  *)
(* turns, each with an ApprovalManager of its own.                          *)
(***************************************************************************)
EXTENDS Integers, FiniteSets

CONSTANTS
    Paths,        \* targets of file tools
    Commands,     \* targets of run_command and run_tests, as the approval reads them
    Printed,      \* of those that are a list printed by str(): the command that is run for it
    Destructive,  \* commands that match DESTRUCTIVE_PATTERNS
    Extends,      \* <<p, c>>: command p is a proper prefix of command c
    Slots,        \* calls under way
    NoCall,
    MaxTurns,     \* bound: turns
    MaxSubmitted  \* bound: calls

ASSUME ApprovalAssumption == MaxTurns \in Nat /\ MaxSubmitted \in Nat

VARIABLES
    mode,         \* config.approval.mode
    deny, allow,  \* targets that the rules of config.approval name
    configured,   \* config.approval.session_allow
    aliased,      \* the manager's session_allow is that list
    own,          \* the manager's list when it is not
    interactive,  \* there is an approval handler
    readOnly,     \* routing.read_only_requested
    slot,         \* slot -> call, where it is, and what the user said to it
    \* history
    turns, submitted,
    promised      \* what the user has allowed for the session

config == <<mode, deny, allow, interactive>>
approvalVars == <<config, configured, aliased, own, readOnly, slot, turns, submitted, promised>>

ToolCall(t, x) == [tool |-> t, target |-> x]
FileTools == {"write_file", "patch_file", "delete_path"}
ShellTools == {"run_command", "run_tests"}
Calls == {ToolCall(t, p) : t \in {"write_file", "apply_edits", "read_file"}, p \in Paths}
         \cup {ToolCall(t, c) : t \in ShellTools, c \in Commands}

\* The command of a call: the approval is given str(command) (executor.py:222), the shell
\* joins the words of a list (_command_to_string).
Executed(c) == IF c.target \in DOMAIN Printed THEN Printed[c.target] ELSE c.target

\* ToolPolicy.category_for_tool; the definition decides of a tool it does not know.
Known(tool) ==
    CASE tool \in FileTools -> "mutation" [] tool = "run_command" -> "shell" [] tool = "run_tests" -> "validation"
      [] tool = "read_file" -> "read" [] OTHER -> "unknown"
DefinedReadOnly(tool) == tool \in {"read_file", "run_command", "run_tests"}
Category(tool) ==
    IF Known(tool) # "unknown" THEN Known(tool) ELSE IF DefinedReadOnly(tool) THEN "read" ELSE "mutation"

\* read_only_tool_denial and ToolPolicy.check in the unified loop.
PolicyAllows(c) == ~(readOnly /\ Category(c.tool) \in {"mutation", "shell", "validation"})

sessionAllow == IF aliased THEN configured ELSE own
\* _session_rule_for_call
SessionRule(c) == IF c.tool \in ShellTools THEN c.target ELSE c.tool
\* _session_allows: a rule allows what it is a prefix of.
Covered(rules, c) == \E r \in rules : r = SessionRule(c) \/ <<r, SessionRule(c)>> \in Extends

\* Mutant: the mode is looked at first.
ShellAllowedInOrder(c) ==
    IF mode = "auto" \/ c.tool = "run_tests" THEN TRUE
    ELSE ~(c.target \in Destructive) /\ Covered(sessionAllow, c)
ShellAllowed(c) ==
    IF c.target \in Destructive THEN Covered(sessionAllow, c)
    ELSE mode = "auto" \/ c.tool = "run_tests" \/ Covered(sessionAllow, c)

\* ApprovalManager.file_mutation and shell_command; the other tools are not asked about.
Decision(c) ==
    CASE c.tool \notin FileTools \cup ShellTools -> "allowed"
      [] c.tool \in FileTools \cup ShellTools /\ c.target \in deny -> "denied"
      [] c.tool \in FileTools \cup ShellTools /\ c.target \in allow \ deny -> "allowed"
      [] c.tool \in FileTools /\ c.target \notin allow \cup deny ->
            IF mode = "auto" \/ Covered(sessionAllow, c) THEN "allowed" ELSE "required"
      [] c.tool \in ShellTools /\ c.target \notin allow \cup deny -> IF ShellAllowed(c) THEN "allowed" ELSE "required"

Unset == "unset"
Modes == {"ask", "auto", "rules"}

FreeSlot == [pc |-> "idle", call |-> NoCall, yes |-> FALSE]

ApprovalInit ==
    /\ mode = Unset /\ interactive = FALSE /\ deny = {} /\ allow = {} /\ configured = {}
    /\ aliased = FALSE /\ own = {} /\ readOnly = FALSE
    /\ slot = [i \in Slots |-> FreeSlot]
    /\ turns = 0 /\ submitted = 0 /\ promised = {}

\* The configuration is loaded and the session starts.
Configure(m, tty, d, a, s) ==
    /\ mode = Unset
    /\ mode' = m /\ interactive' = tty /\ deny' = d /\ allow' = a /\ configured' = s
    /\ UNCHANGED <<aliased, own, readOnly, slot, turns, submitted, promised>>

\* run_agent_turn: session_allow or [] takes the list of the configuration only when
\* there is something in it.
NextTurn(ro) ==
    /\ mode # Unset /\ \A i \in Slots : slot[i] = FreeSlot
    /\ turns < MaxTurns /\ turns' = turns + 1
    /\ aliased' = (configured # {}) /\ own' = {}
    /\ readOnly' = ro
    /\ UNCHANGED <<config, configured, slot, submitted, promised>>

\* The prefetch: calls of tools that only read and need no approval, as they are defined.
Prefetched(c) == c.tool \in {"read_file", "run_tests"}
Beside(c) == \A i \in Slots : slot[i] # FreeSlot => Prefetched(slot[i].call) /\ Prefetched(c)

Become(i, pc) == slot' = [slot EXCEPT ![i].pc = pc]
Free(i) == slot' = [slot EXCEPT ![i] = FreeSlot]
Rest == UNCHANGED <<config, configured, aliased, own, readOnly, turns, submitted, promised>>

\* Only the prefetch, which does not validate arguments, passes a list on.
Submit(i, c) ==
    /\ c.target \in DOMAIN Printed => Prefetched(c)
    /\ turns > 0 /\ slot[i] = FreeSlot /\ Beside(c)
    /\ submitted < MaxSubmitted /\ submitted' = submitted + 1
    /\ slot' = [slot EXCEPT ![i] = [pc |-> "approval", call |-> c, yes |-> FALSE]]
    /\ UNCHANGED <<config, configured, aliased, own, readOnly, turns, promised>>

PolicyDenies(i) ==
    /\ slot[i].pc = "approval" /\ ~PolicyAllows(slot[i].call)
    /\ Free(i) /\ Rest

\* _check_approval; a preview that cannot be made ends the call too.
Check(i) ==
    /\ slot[i].pc = "approval" /\ PolicyAllows(slot[i].call)
    /\ \/ Decision(slot[i].call) = "allowed" /\ Become(i, "hooks")
       \/ Decision(slot[i].call) # "allowed" /\ interactive /\ Become(i, "asking")
       \/ Decision(slot[i].call) # "allowed" /\ ~interactive /\ Free(i)
       \/ slot[i].call.tool \in FileTools /\ Free(i)
    /\ Rest

Approve(i) ==
    /\ slot[i].pc = "asking"
    /\ slot' = [slot EXCEPT ![i].pc = "hooks", ![i].yes = TRUE]
    /\ Rest

\* allow_for_session
AllowSession(i) ==
    /\ slot[i].pc = "asking"
    /\ slot' = [slot EXCEPT ![i].pc = "hooks", ![i].yes = TRUE]
    /\ LET r == {SessionRule(slot[i].call)}
       IN /\ promised' = promised \cup r
          /\ IF aliased THEN configured' = configured \cup r /\ UNCHANGED own
                        ELSE own' = own \cup r /\ UNCHANGED configured
    /\ UNCHANGED <<config, aliased, readOnly, turns, submitted>>

Refuse(i) ==
    /\ slot[i].pc = "asking"
    /\ Free(i) /\ Rest

\* pre_tool: a hook that fails or is too slow denies the call.
Hooks(i) ==
    /\ slot[i].pc = "hooks"
    /\ (Become(i, "run") \/ Free(i))
    /\ Rest

Run(i) ==
    /\ slot[i].pc = "run"
    /\ Free(i) /\ Rest

AtMostOne(S) == {{}} \cup {{x} : x \in S}

ApprovalNext ==
    \/ \E m \in Modes, tty \in BOOLEAN, d, a \in AtMostOne(Paths \cup Commands), s \in AtMostOne(Commands) :
         Configure(m, tty, d, a, s)
    \/ \E ro \in BOOLEAN : NextTurn(ro)
    \/ \E i \in Slots :
         \/ PolicyDenies(i) \/ Check(i) \/ Approve(i) \/ AllowSession(i) \/ Refuse(i) \/ Hooks(i) \/ Run(i)
         \/ \E c \in Calls : Submit(i, c)

ApprovalSpec == ApprovalInit /\ [][ApprovalNext]_approvalVars

-----------------------------------------------------------------------------
ApprovalTypeOK ==
    /\ mode \in Modes \cup {Unset} /\ interactive \in BOOLEAN /\ readOnly \in BOOLEAN /\ aliased \in BOOLEAN
    /\ deny \cup allow \subseteq Paths \cup Commands
    /\ configured \cup own \cup promised \subseteq Commands \cup FileTools
    /\ \A i \in Slots : slot[i] # FreeSlot => /\ slot[i].pc \in {"approval", "asking", "hooks", "run"}
                                         /\ slot[i].call \in Calls /\ slot[i].yes \in BOOLEAN
    /\ turns \in 0..MaxTurns /\ submitted \in 0..MaxSubmitted

\* A destructive command runs, in every mode and as a validation command too, only
\* when the user said yes to it or to a prefix of it, now, earlier or in the
\* configuration, or a rule allows it and none forbids it.  The exception is a list that
\* run_tests is given in a batch that is prefetched: the approval looks for destructive
\* patterns in the printed list and not in the command that the shell makes of it.
DestructiveNeedsConsent ==
    \A i \in Slots : LET c == slot[i].call IN
        slot[i].pc = "run" /\ c.tool \in ShellTools /\ Executed(c) \in Destructive =>
          \/ slot[i].yes
          \/ c.target \notin deny /\ (c.target \in allow \/ Covered(configured \cup promised, c))
          \/ c.tool = "run_tests" /\ c.target \in DOMAIN Printed \ Destructive

\* In a turn that asked for no changes no tool runs that makes any, not even one that
\* the policy's table of names does not know.
ReadOnlyTurns ==
    \A i \in Slots : slot[i].pc = "run" /\ readOnly => slot[i].call.tool = "read_file"
=============================================================================
