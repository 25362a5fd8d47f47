------------------------------ MODULE MCSession ------------------------------
(***************************************************************************)
(* The components of a session around the turns, for TLC, each explored by *)
(* itself: active says which one. The variables of the others stay as they *)
(* are.                                                                    *)
(***************************************************************************)
EXTENDS TurnSession, Steering, ToolGuards, FinalAnswer, ModelRequests

VARIABLE active

TurnsOnly == UNCHANGED <<active, steerVars, guardVars, finalVars, requestVars>>
SteersOnly == UNCHANGED <<active, turnVars, guardVars, finalVars, requestVars>>
GuardsOnly == UNCHANGED <<active, turnVars, steerVars, finalVars, requestVars>>
FinalOnly == UNCHANGED <<active, turnVars, steerVars, guardVars, requestVars>>
RequestsOnly == UNCHANGED <<active, turnVars, steerVars, guardVars, finalVars>>

Init ==
    /\ active \in {"turns", "steering", "guards", "closure", "requests"}
    /\ TurnInit /\ SteerInit /\ GuardInit /\ FinalInit /\ RequestsInit

Next ==
    \/ active = "steering" /\ SteersOnly /\ Type
    \/ active = "steering" /\ SteersOnly /\ StartTurn
    \/ active = "steering" /\ SteersOnly /\ DrainStale
    \/ active = "steering" /\ SteersOnly /\ Round
    \/ active = "steering" /\ SteersOnly /\ Ask
    \/ active = "steering" /\ SteersOnly /\ Question
    \/ active = "steering" /\ SteersOnly /\ ReadAnswer
    \/ active = "steering" /\ SteersOnly /\ Answered
    \/ active = "steering" /\ SteersOnly /\ EndTurn
    \/ active = "steering" /\ SteersOnly /\ Joined
    \/ active = "steering" /\ SteersOnly /\ Polls
    \/ active = "steering" /\ SteersOnly /\ Checks
    \/ active = "steering" /\ SteersOnly /\ Reads
    \/ active = "steering" /\ SteersOnly /\ Gets
    \/ active = "steering" /\ SteersOnly /\ Pushes
    \/ active = "steering" /\ SteersOnly /\ LeftGets
    \/ active = "steering" /\ SteersOnly /\ LeftPushes
    \/ active = "turns" /\ TurnsOnly /\ BeginTurn
    \/ active = "turns" /\ TurnsOnly /\ HooksPass
    \/ active = "turns" /\ TurnsOnly /\ HookBlocks
    \/ active = "turns" /\ TurnsOnly /\ Rounds
    \/ active = "turns" /\ TurnsOnly /\ Announces
    \/ active = "turns" /\ TurnsOnly /\ Cancelled
    \/ active = "turns" /\ TurnsOnly /\ Raises
    \/ active = "turns" /\ TurnsOnly /\ Fails
    \/ active = "turns" /\ TurnsOnly /\ StopHooks
    \/ active = "turns" /\ TurnsOnly /\ Saves
    \/ active = "turns" /\ TurnsOnly /\ SaveFails
    \/ active = "turns" /\ TurnsOnly /\ \E ls \in Lines : Appends(ls)
    \/ active = "turns" /\ TurnsOnly /\ \E ls \in Lines : AppendFails(ls)
    \/ active = "turns" /\ TurnsOnly /\ Interrupted
    \/ active = "turns" /\ TurnsOnly /\ Crash
    \/ active = "turns" /\ TurnsOnly /\ Resume
    \/ active = "requests" /\ RequestsOnly /\ \E context \in BOOLEAN, size \in TextSizes :
       Begin(context, size)
    \/ active = "requests" /\ RequestsOnly /\ \E n \in 0..2 : Drain(n)
    \/ active = "requests" /\ RequestsOnly /\ \E digest \in BOOLEAN : AskModel(digest)
    \/ active = "requests" /\ RequestsOnly /\ AskFinal
    \/ active = "requests" /\ RequestsOnly /\ AskPlan
    \/ active = "requests" /\ RequestsOnly /\ Inject
    \/ active = "requests" /\ RequestsOnly /\ RequestFinal
    \/ active = "requests" /\ RequestsOnly /\ \E n \in 1..2, size \in TextSizes, nudge \in
       Nudges : CallTools(n, size, nudge)
    \/ active = "requests" /\ RequestsOnly /\ \E keeps \in BOOLEAN, size \in TextSizes :
       Retries(keeps, size)
    \/ active = "requests" /\ RequestsOnly /\ Answers
    \/ active = "guards" /\ GuardsOnly /\ \E n \in 1..BatchLimit :
       \E cs \in [1..n -> Calls] : Reply(cs)
    \/ active = "guards" /\ GuardsOnly /\ Deny
    \/ active = "guards" /\ GuardsOnly /\ Reuse
    \/ active = "guards" /\ GuardsOnly /\ AskStrategy
    \/ active = "guards" /\ GuardsOnly /\ SuppressOverBudget
    \/ active = "guards" /\ GuardsOnly /\ SuppressLoop
    \/ active = "guards" /\ GuardsOnly /\ Execute
    \/ active = "guards" /\ GuardsOnly /\ NextTurn
    \/ active = "guards" /\ GuardsOnly /\ \E f \in Files : OthersEdit(f)
    \/ active = "closure" /\ FinalOnly /\ Begins
    \/ active = "closure" /\ FinalOnly /\ RoundsEnd
    \/ active = "closure" /\ FinalOnly /\ Finalize
    \/ active = "closure" /\ FinalOnly /\ Answer
    \/ active = "closure" /\ FinalOnly /\ Policy

vars == <<active, turnVars, steerVars, guardVars, finalVars, requestVars>>

Spec == Init /\ [][Next]_vars

-----------------------------------------------------------------------------
TypeOK == TurnTypeOK /\ SteerTypeOK /\ GuardTypeOK /\ FinalTypeOK /\ RequestsTypeOK
=============================================================================
