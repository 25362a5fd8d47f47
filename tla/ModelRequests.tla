---------------------------- MODULE ModelRequests ----------------------------
(***************************************************************************)
(* What a turn sends to its model: the messages that the rounds gather      *)
(* (agent/prompt_builder.py, agent/round_runner.py, round_tool_handler.py), *)
(* and the view of them in a request, which is condensed to a budget        *)
(* (agent/context_condensation.py) or, when the final answer is asked for,  *)
(* made of its first and last prompt and what the tools observed            *)
(* (agent/final_answer_context.py).                                         *)
(*                                                                         *)
(* TextSizes are in units of the 800 characters that every message may keep.    *)
(***************************************************************************)
EXTENDS Naturals, Sequences, FiniteSets, Functions, Folds, FiniteSetsExt

CONSTANTS
    Long,           \* size of a long text
    RecentSize,     \* size that a recent message may keep: more than 1, less than Long
    SummarySize,    \* size of a summary
    Budget,         \* size that a request may have
    Recent,         \* messages at the end that are kept
    Listed,         \* texts that a summary lists of the user
    MaxMessages     \* bound: messages of a turn

\* A turn begins with three messages at most.
ASSUME RequestsAssumption ==
    Recent \in Nat \ {0} /\ Listed \in Nat /\ MaxMessages \in Nat /\ MaxMessages >= 3

\* says: the identity of a text.  calls: how many calls an assistant message makes.
Message(role, says, size, calls) == [role |-> role, says |-> says, size |-> size, calls |-> calls]

Typed == <<"typed-1", "typed-2">>     \* bound: what the user types in a turn

VARIABLES
    loop,       \* "start", "round", "drained", "called", "done"
    messages,   \* RoundRuntime.messages
    steered,      \* the messages of the user that the turn has drained
    finalAsked, \* the final answer has been asked for
    request     \* the last request: its kind, its messages, which texts of the user its
                \* summary lists and whether these are all that are left out

requestVars == <<loop, messages, steered, finalAsked, request>>

NoRequest == [kind |-> "none", messages |-> <<>>, listed |-> {}, complete |-> TRUE]

RequestsInit ==
    /\ loop = "start" /\ messages = <<>> /\ steered = {} /\ finalAsked = FALSE /\ request = NoRequest

User(says) == Message("user", says, 1, 0)
TextSizes == {1, Long}

\* PromptBuilder.initial_messages
Begin(context, size) ==
    /\ loop = "start" /\ loop' = "round"
    /\ messages' = <<Message("system", "rules", Long, 0)>>
                   \o (IF context THEN <<Message("system", "context", Long, 0)>> ELSE <<>>)
                   \o <<Message("user", "prompt", size, 0)>>
    /\ UNCHANGED <<steered, finalAsked, request>>

\* RoundRunner._apply_steering: what the user typed meanwhile is taken in at the start
\* of a round.
Drain(n) ==
    /\ loop = "round" /\ loop' = "drained"
    /\ Len(messages) + n <= MaxMessages
    /\ Cardinality(steered) + n <= Len(Typed)
    /\ LET new == SubSeq(Typed, Cardinality(steered) + 1, Cardinality(steered) + n)
       IN /\ messages' = messages \o [i \in 1..n |-> User(new[i])]
          /\ steered' = steered \cup Range(new)
    /\ UNCHANGED <<finalAsked, request>>

-----------------------------------------------------------------------------
Size(ms) == FoldFunction(+, 0, [i \in DOMAIN ms |-> ms[i].size])

\* _message_blocks: where the block of a message begins and ends.
Start(b, i) ==
    LET j == Max({k \in 1..i : b[k].role # "tool"} \cup {1})
    IN IF b[i].role = "tool" /\ b[j].calls > 0 THEN j ELSE i
End(b, i) == Max({k \in i..Len(b) : Start(b, k) = Start(b, i)})

UserAt(ms) == {i \in DOMAIN ms : ms[i].role = "user"}

\* Mutant: single messages are kept, not blocks.
KeptSingly(b) == {i \in DOMAIN b : i \in {Min(UserAt(b)), Max(UserAt(b))} \/ Len(b) - i < Recent}

\* _kept_body_indexes: the blocks of the first and of the last prompt, and the last blocks.
Kept(b) ==
    LET ends == {Min(UserAt(b)), Max(UserAt(b))}
    IN {i \in DOMAIN b :
            (\E u \in ends : Start(b, i) = Start(b, u)) \/ Len(b) - End(b, i) < Recent}

\* build_condensed_context: the texts of the user, and of later system messages, that
\* are left out, each once; the first of them are listed.
UserTexts(b, omitted) ==
    {i \in omitted : /\ b[i].role \in {"user", "system"}
                     /\ ~\E j \in omitted : j < i /\ b[j].says = b[i].says}
ListedOf(b, omitted) ==
    LET texts == UserTexts(b, omitted)
    IN {b[i].says : i \in {j \in texts : Cardinality({k \in texts : k < j}) < Listed}}

\* _compact_recent_message
Compacted(m) == IF m.role = "user" \/ m.size <= RecentSize THEN m ELSE [m EXCEPT !.size = RecentSize]

CutDown(ms, cut) == [i \in DOMAIN ms |-> IF i \in cut THEN [ms[i] EXCEPT !.size = 1] ELSE ms[i]]

MayCut(ms) == {i \in DOMAIN ms : ms[i].role # "user" /\ ms[i].size > 1}

\* The next message to cut down: the first system message comes last.
NextCut(ms, cut) ==
    LET systems == {i \in DOMAIN ms : ms[i].role = "system"}
        first == IF systems = {} THEN 0 ELSE Min(systems)
        others == (MayCut(ms) \ {first}) \ cut
    IN IF others # {} THEN Min(others) ELSE first

CutOn(ms, cut) ==
    IF Size(CutDown(ms, cut)) > Budget /\ Len(ms) > 3 /\ MayCut(ms) \ cut # {}
    THEN cut \cup {NextCut(ms, cut)} ELSE cut

\* _bound_message_contents: messages are cut down one by one, each once, until the
\* request fits or there is nothing left to cut.
Bounded(ms) ==
    LET cuts[k \in 0..Len(ms)] == IF k = 0 THEN {} ELSE CutOn(ms, cuts[k - 1])
    IN CutDown(ms, cuts[Len(ms)])

Summary == Message("assistant", "summary", SummarySize, 0)

\* The leading system messages, and the rest.
BodyAt(ms) == Min({i \in DOMAIN ms : ms[i].role # "system"})
Prefix(ms) == SubSeq(ms, 1, BodyAt(ms) - 1)
Body(ms) == SubSeq(ms, BodyAt(ms), Len(ms))

\* What is kept of a body, with the summary after its first prompt.
RebuildOn(b, r, k) ==
    (IF k \in Kept(b) THEN Append(r, Compacted(b[k])) ELSE r)
    \o (IF k = Min(UserAt(b)) THEN <<Summary>> ELSE <<>>)
Rebuilt(prefix, b) ==
    LET upTo[k \in 0..Len(b)] == IF k = 0 THEN prefix ELSE RebuildOn(b, upTo[k - 1], k)
    IN upTo[Len(b)]

\* condense_messages_for_model
Condensed(ms) ==
    LET b == Body(ms)
        rebuilt == Rebuilt(Prefix(ms), b)
        view == IF Size(rebuilt) > Budget THEN Bounded(rebuilt) ELSE rebuilt
        whole == Summary \in Range(view)
        omitted == DOMAIN b \ Kept(b)
    IN IF Size(ms) <= Budget
       THEN [kind |-> "round", messages |-> ms, listed |-> {}, complete |-> TRUE]
       ELSE [kind |-> "round", messages |-> view,
             listed |-> IF whole THEN ListedOf(b, omitted) ELSE {},
             complete |-> whole /\ Cardinality(UserTexts(b, omitted)) <= Listed]

\* task_loop_digest_messages: a route that changes files is reminded of its state after
\* the leading system messages.
WithDigest(ms) == Prefix(ms) \o <<Message("system", "digest", Long, 0)>> \o Body(ms)

\* final_answer_call_messages
FirstUser(ms) == ms[Min(UserAt(ms))]
LastUser(ms) == ms[Max(UserAt(ms))]
FinalCall(ms) ==
    IF \E i \in DOMAIN ms : ms[i].role = "tool"
    THEN <<Message("system", "rules", Long, 0), FirstUser(ms),
           Message("assistant", "observations", Long, 0), LastUser(ms)>>
    ELSE LET asked == IF ms[Len(ms)].role = "user" THEN ms ELSE Append(ms, User("final"))
             n == Len(asked)
         IN IF n >= 2 /\ asked[n - 1].role = "user"
            THEN Append(Append(SubSeq(asked, 1, n - 1), Message("assistant", "bridge", 1, 0)), asked[n])
            ELSE asked

\* An ordinary round: what is offered to the model may include tools.
AskModel(digest) ==
    /\ loop = "drained" /\ ~finalAsked /\ loop' = "called"
    /\ request' = Condensed(IF digest THEN WithDigest(messages) ELSE messages)
    /\ UNCHANGED <<messages, steered, finalAsked>>

\* A round without tools, for the final answer.
AskFinal ==
    /\ loop = "drained" /\ finalAsked /\ loop' = "called"
    /\ request' = [kind |-> "final", messages |-> FinalCall(messages), listed |-> {}, complete |-> FALSE]
    /\ UNCHANGED <<messages, steered, finalAsked>>

\* RoundRunner._plan_final_answer, after the last round in plan mode.
AskPlan ==
    /\ loop = "round" /\ Len(messages) < MaxMessages /\ loop' = "done"
    /\ request' = Condensed(Append(messages, User("plan-it")))
    /\ UNCHANGED <<messages, steered, finalAsked>>

-----------------------------------------------------------------------------
\* append_tool_results, after the message that called the tools.
WithResults(ms, n, size) ==
    ms \o <<Message("assistant", "call", 1, n)>>
       \o [i \in 1..n |-> Message("tool", "result", size, 0)]
Room(n) == Len(messages) + n <= MaxMessages

\* The validation that the loop runs by itself, before the model is asked: the round is
\* over (RoundToolHandler._inject_validation_action).
Inject ==
    /\ loop = "drained" /\ Room(2) /\ loop' = "round"
    /\ messages' = WithResults(messages, 1, Long)
    /\ UNCHANGED <<steered, finalAsked, request>>

\* _should_request_web_final_answer: the final answer is asked for before the model is.
RequestFinal ==
    /\ loop = "drained" /\ ~finalAsked /\ Room(1)
    /\ messages' = Append(messages, User("final")) /\ finalAsked' = TRUE
    /\ UNCHANGED <<loop, steered, request>>

\* The model calls n tools; the final answer or a next step may then be asked for.
CallTools(n, size, nudge) ==
    /\ loop = "called" /\ Room(n + 1 + Len(nudge)) /\ loop' = "round"
    /\ messages' = WithResults(messages, n, size) \o nudge
    /\ finalAsked' = (finalAsked \/ nudge = <<User("final")>>)
    /\ UNCHANGED <<steered, request>>

\* The model's text does not do: it is kept or not, and a next step is asked for.
Retries(kept, size) ==
    /\ loop = "called" /\ Room(IF kept THEN 2 ELSE 1) /\ loop' = "round"
    /\ messages' = messages \o (IF kept THEN <<Message("assistant", "text", size, 0)>> ELSE <<>>) \o <<User("retry")>>
    /\ UNCHANGED <<steered, finalAsked, request>>

Answers ==
    /\ loop = "called" /\ loop' = "done"
    /\ UNCHANGED <<messages, steered, finalAsked, request>>

Nudges == {<<>>, <<User("retry")>>, <<User("final")>>}
RequestsNext ==
    \/ \E context \in BOOLEAN, size \in TextSizes : Begin(context, size)
    \/ \E n \in 0..2 : Drain(n)
    \/ \E digest \in BOOLEAN : AskModel(digest)
    \/ AskFinal \/ AskPlan \/ Inject \/ RequestFinal
    \/ \E n \in 1..2, size \in TextSizes, nudge \in Nudges : CallTools(n, size, nudge)
    \/ \E kept \in BOOLEAN, size \in TextSizes : Retries(kept, size)
    \/ Answers

RequestsSpec == RequestsInit /\ [][RequestsNext]_requestVars

-----------------------------------------------------------------------------
RequestsTypeOK ==
    /\ loop \in {"start", "round", "drained", "called", "done"}
    /\ Len(messages) <= MaxMessages /\ finalAsked \in BOOLEAN
    /\ request.kind \in {"none", "round", "final"}

\* Whatever is condensed, no request shows the result of a tool without the call before
\* it or a call without all of its results; every request has the prompt of the turn and
\* what was asked last, in full; and what the user typed during the turn is in every
\* ordinary request, in full or in the summary, unless that is cut or has no room for it
\* (condense_messages_for_model, final_answer_call_messages, _apply_steering).
RequestsAreWhole ==
    LET ms == request.messages
        shown == {ms[i].says : i \in DOMAIN ms} IN
    loop = "called" =>
        /\ \A i \in DOMAIN ms : ms[i].calls > 0 =>
              i + ms[i].calls \in DOMAIN ms /\ \A k \in 1..ms[i].calls : ms[i + k].role = "tool"
        /\ \A i \in DOMAIN ms : ms[i].role = "tool" =>
              \E j \in 1..(i - 1) : ms[j].calls >= i - j
        /\ {FirstUser(messages), LastUser(messages)} \subseteq Range(ms)
        /\ request.complete => steered \subseteq shown \cup request.listed
=============================================================================
