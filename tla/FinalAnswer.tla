---------------------------- MODULE FinalAnswer ----------------------------
(***************************************************************************)
(* From the outcome of the rounds to the answer of the turn: the evidence   *)
(* is completed (agent/completion_gate.py), the status is finalized         *)
(* (agent/turn_completion.py), a text is chosen                             *)
(* (agent/finalization_helpers.py), brought into the format the user asked  *)
(* for (agent/final_answer_format.py), and each gate of                     *)
(* apply_final_answer_policy (agent/finalization.py) adds its note, unless  *)
(* the answer seems to say so already.                                      *)
(*                                                                         *)
(* A text is the set of the phrases that some gate looks for, its number of *)
(* lines, and the notes that were added.  The 400 characters that make an   *)
(* answer substantive are taken to be reached with its lines.               *)
(***************************************************************************)
EXTENDS Naturals, Sequences, Functions

CONSTANTS
    Load      \* bound: circumstances and phrases of the model's answer that come together

ASSUME FinalAssumption == Load \in Nat

Languages == {"en", "ko"}
Routes == {"modify", "validated", "inspect", "answer"}
Mutates == {"modify", "validated"}              \* requires_mutation

\* What else a turn may have met.  json: JSON or a table was asked for; risky: a risky
\* deletion was, by a request that is not read-only; schemaDenied: a tool call was denied
\* outside the unified loop.
Circumstances ==
    {"boundary", "risky", "denied", "safeAsked", "notFound", "noResults", "lookup", "config", "budget",
     "schemaDenied", "webOff", "webFailed", "features", "json", "symbols", "openScope", "recoverable"}
\* Phrases that a gate takes for its own note.
Phrases ==
    {"cha-dan", "workspace", "seung-in", "wi-heom", "an-jeon", "blocked", "tong-gwa", "command",
     "geom-jeung", "sil-pae", "missing", "unverified", "not-found", "chat-ji", "eop",
     "seol-jeong", "ban-bok", "denied-tool", "backend"}

VARIABLES
    stage,      \* start | rounds | finalize | answer | policy | done
    lang, route,
    outcome,    \* LoopOutcome: status, lines of the answer (0: blank)
    changed,    \* none | code | other: what the turn has changed; noop: safe_noop
    verdict,    \* never | passed | failed | erased: validation_commands and validation_passed
    lacking,    \* a requested file artifact is not satisfied
    met,        \* circumstances
    own,        \* phrases of the model's answer
    status, ready,
    text        \* phrases, lines, notes, caveat

finalVars == <<stage, lang, route, outcome, changed, verdict, lacking, met, own, status, ready, text>>
Facts == <<lang, route, outcome, changed, verdict, lacking, met, own>>

Blank == [phrases |-> {}, lines |-> 0, notes |-> <<>>, caveat |-> FALSE]

FinalInit ==
    /\ stage = "start" /\ lang = "en" /\ route = "answer"
    /\ outcome = [status |-> "failed", lines |-> 0] /\ changed = "none" /\ verdict = "never"
    /\ lacking = FALSE /\ met = {} /\ own = {}
    /\ status = "none" /\ ready = FALSE /\ text = Blank

Mutation == route \in Mutates
FileChanged == changed \in {"code", "other"}
Commands == verdict # "never"
Has(c) == c \in met

\* The language and the route of the request, which the router decides.
Begins ==
    /\ stage = "start" /\ stage' = "rounds"
    /\ lang' \in Languages /\ route' \in Routes
    /\ UNCHANGED <<outcome, changed, verdict, lacking, met, own, status, ready, text>>

Sizes == {0, 1, 6}
OneMore(F, S) == F \cup {A \cup {x} : A \in F, x \in S}
AtMost(n, S) ==
    LET sets[k \in 0..n] == IF k = 0 THEN {{}} ELSE OneMore(sets[k - 1], S)
    IN sets[n]
Loads == UNION {AtMost(k, Circumstances) \X AtMost(Load - k, Phrases) : k \in 0..Load}

\* What the rounds leave.  A success has an answer; a failure has none, or the summary
\* of what blocked it.
RoundsEnd ==
    /\ stage = "rounds" /\ stage' = "finalize"
    /\ outcome' \in [status : {"success", "partial", "failed"}, lines : Sizes]
    /\ changed' \in {"none", "noop", "code", "other"}
    /\ verdict' \in {"never", "passed", "failed", "erased"}
    /\ \E load \in Loads : met' = load[1] /\ own' = load[2]
    /\ outcome'.status = "success" => outcome'.lines > 0
    /\ outcome'.status = "failed" => own' = {}
    /\ "recoverable" \in met' => outcome'.status = "failed"
    /\ "symbols" \in met' => verdict' = "failed"
    /\ lacking' \in IF Mutation THEN BOOLEAN ELSE {FALSE}
    /\ UNCHANGED <<lang, route, status, ready, text>>

\* satisfy_requested_artifacts: the artifact "validation" of a route that requires it.
ValidationLacking == route = "validated" /\ verdict # "passed"

\* build_completion_evidence
BuiltReady ==
    /\ outcome.status = "success" /\ outcome.lines > 0
    /\ Mutation => changed # "none"
    /\ ~lacking /\ ~ValidationLacking

\* _can_report_validation_failure_partial
Reportable == ~lacking /\ verdict = "failed" /\ FileChanged /\ outcome.lines > 0

\* Mutant: a turn that failed keeps its answer ready.
FinalizedReady(s) == outcome.lines > 0
\* final_answer_ready after the status has been lowered.
ReadyAfter(s) == s = "partial" /\ outcome.lines > 0

\* finalize_completion.  Of patch_ambiguous_files, which the evidence of the rounds may
\* have, the rebuilt evidence has nothing: "recoverable" needs another observation.
Finalize ==
    /\ stage = "finalize" /\ stage' = "answer"
    /\ LET noChange == outcome.status = "success" /\ Mutation /\ changed = "none"
                       /\ ~(Has("openScope") /\ outcome.lines > 1)
           s1 == IF noChange THEN "failed" ELSE outcome.status
           incomplete == s1 = "success" /\ (lacking \/ ValidationLacking) /\ ~Reportable
           s2 == IF incomplete THEN "failed" ELSE s1
           s3 == IF s2 = "failed" /\ Has("recoverable") THEN "partial" ELSE s2
           lowered == s3 \in {"success", "partial"} /\ ValidationLacking
           s4 == IF verdict = "failed" /\ FileChanged /\ outcome.lines > 0 THEN "partial" ELSE "failed"
       IN /\ status' = IF lowered THEN s4 ELSE s3
          /\ ready' = IF lowered THEN ReadyAfter(s4)
                      ELSE BuiltReady /\ ~noChange /\ ~incomplete /\ s2 = s3
    /\ UNCHANGED <<Facts, text>>

\* final_answer_for_result: a turn that failed says so in front, or is summarized as
\* blocked; a success whose answer is not ready has no text.
Answer ==
    /\ stage = "answer" /\ stage' = "policy"
    /\ LET Said(lines, caveat) == [phrases |-> own, lines |-> lines, notes |-> <<>>, caveat |-> caveat]
       IN text' = CASE ready \/ status = "partial" -> Said(outcome.lines, FALSE)
                    [] ~ready /\ status = "failed" -> Said(outcome.lines + 1, TRUE)
                    [] ~ready /\ status = "success" -> Blank
    /\ UNCHANGED <<Facts, status, ready>>

-----------------------------------------------------------------------------
\* apply_output_format_gate: turns that change or validate keep their text.  The number
\* of lines or sentences asked for cuts the end; JSON and tables replace the whole text.
Formatted(t) ==
    IF t.lines = 0 \/ Mutation \/ FileChanged \/ Commands \/ ~Has("json")
    THEN t ELSE [t EXCEPT !.caveat = FALSE]

Says(t, ps) == ps \subseteq t.phrases
SaysAny(t, ps) == ps \cap t.phrases # {}
Ko == lang = "ko"
Substantive(t) == t.lines >= 6

\* _should_surface_lookup_failure
Surfaces(t) == t.lines = 0 \/ Mutation \/ Has("lookup")

\* The note of a gate that has something to say and finds it not said yet.
NoNote == [adds |-> {}, lines |-> 0]
Note(due, said, phrases, lines) ==
    IF due /\ ~said THEN [adds |-> phrases, lines |-> lines] ELSE NoNote

\* The gates in their order.
Order ==
    <<"boundary", "refusal", "denied", "safe", "passed", "failed", "missing", "unverified",
      "notFound", "noResults", "config", "budget", "schema", "web", "features">>

\* When each has something to say, what it takes for being said already, and what its
\* note contains in this language.
Gate(name, t) ==
    CASE name = "boundary" -> Note(Has("boundary"), Says(t, {"cha-dan", "workspace"}),
         IF Ko THEN {"cha-dan", "workspace", "an-jeon"} ELSE {"blocked"}, 1)
      [] name = "refusal" -> Note(Has("risky") /\ ~FileChanged /\ ~Commands, Says(t, {"seung-in", "wi-heom"}),
         IF Ko THEN {"seung-in", "wi-heom"} ELSE {}, 1)
      [] name = "denied" -> Note(Has("denied"), SaysAny(t, IF Ko THEN {"cha-dan"} ELSE {"blocked"}),
         IF Ko THEN {"cha-dan", "denied-tool"} ELSE {"blocked"}, 1)
      [] name = "safe" -> Note(Has("safeAsked"), Says(t, {"an-jeon"}), IF Ko THEN {"an-jeon"} ELSE {}, 1)
      [] name = "passed" -> Note(verdict = "passed", Says(t, {"tong-gwa", "command"}),
         {"command"} \cup IF Ko THEN {"geom-jeung", "tong-gwa"} ELSE {}, 2)
      [] name = "failed" -> Note(verdict = "failed", Says(t, {"geom-jeung", "sil-pae"}) /\ ~Has("symbols"),
         {"command"} \cup IF Ko THEN {"geom-jeung", "sil-pae"} ELSE {}, IF Has("symbols") THEN 3 ELSE 2)
      [] name = "missing" -> Note(lacking \/ ValidationLacking, Says(t, {"missing"}), {"missing"}, 1)
      [] name = "unverified" -> Note(route = "modify" /\ changed = "code" /\ ~Commands, Says(t, {"unverified"}),
         {"unverified"} \cup IF Ko THEN {"geom-jeung"} ELSE {}, 1)
      [] name = "notFound" -> Note(Has("notFound") /\ ~Substantive(t) /\ Surfaces(t),
         IF Ko THEN Says(t, {"chat-ji", "eop"}) ELSE Says(t, {"not-found"}),
         IF Ko THEN {"chat-ji", "eop"} ELSE {"not-found"}, 1)
      [] name = "noResults" -> Note(Has("noResults") /\ ~FileChanged /\ ~Substantive(t) /\ Surfaces(t),
         IF Ko THEN Says(t, {"chat-ji", "eop"}) ELSE Says(t, {"not-found"}),
         IF Ko THEN {"chat-ji", "eop"} ELSE {}, 1)
      [] name = "config" -> Note(Ko /\ Has("config"), Says(t, {"seol-jeong"}), {"seol-jeong"}, 1)
      [] name = "budget" -> Note(Has("budget"), Says(t, {"ban-bok"}), IF Ko THEN {"ban-bok", "eop"} ELSE {}, 1)
      [] name = "schema" -> Note(/\ Has("schemaDenied") /\ route # "answer"
                   /\ ~(verdict = "passed" /\ FileChanged),
         Says(t, {"denied-tool"}), IF Ko THEN {"denied-tool"} ELSE {}, 1)
      [] name = "web" -> Note(Has("webOff") \/ Has("webFailed"), Says(t, {"backend"}), {"backend"}, 1)
      [] name = "features" -> Note(Has("features") /\ (changed # "none" \/ Commands), FALSE, {}, 1)

\* One gate: its note is appended.
Noted(t, i) ==
    LET g == Gate(Order[i], t)
    IN IF g = NoNote THEN t
       ELSE [phrases |-> t.phrases \cup g.adds, lines |-> t.lines + g.lines,
             notes |-> Append(t.notes, Order[i]), caveat |-> t.caveat]

Gated(t) ==
    LET after[i \in 0..Len(Order)] == IF i = 0 THEN Formatted(t) ELSE Noted(after[i - 1], i)
    IN after[Len(Order)]

\* apply_final_answer_policy
Policy ==
    /\ stage = "policy" /\ stage' = "done"
    /\ text' = Gated(text)
    /\ UNCHANGED <<Facts, status, ready>>

-----------------------------------------------------------------------------
FinalNext == Begins \/ RoundsEnd \/ Finalize \/ Answer \/ Policy

FinalSpec == FinalInit /\ [][FinalNext]_finalVars

-----------------------------------------------------------------------------
FinalTypeOK ==
    /\ stage \in {"start", "rounds", "finalize", "answer", "policy", "done"}
    /\ status \in {"none", "success", "partial", "failed"} /\ ready \in BOOLEAN
    /\ outcome.lines \in Sizes /\ met \subseteq Circumstances /\ own \subseteq Phrases
    /\ text.phrases \subseteq Phrases /\ text.lines \in Nat /\ text.caveat \in BOOLEAN

\* However the turn ended and whatever else there was to note, a turn that failed says
\* so in its answer, a requested file or validation that is lacking is called missing, code
\* changed on a route without validation and never validated is called unverified, and a
\* failed validation is told (finalize_completion, final_answer_for_result,
\* _apply_regression_safety_wording).  Two answers are exempt: JSON or a table that the
\* user asked for replaces the text and the caveat of a failure with it
\* (apply_output_format_gate), and of a route without validation whose verdict an edit has
\* erased no gate says anything.
AnswerIsHonest ==
    stage = "done" /\ text.lines > 0 =>
        /\ status = "failed" /\ ~Has("json") => text.caveat
        /\ lacking \/ ValidationLacking => "missing" \in text.phrases
        /\ route = "modify" /\ changed = "code" /\ verdict = "never" => "unverified" \in text.phrases
        /\ verdict = "failed" =>
             "failed" \in Range(text.notes) \/ {"geom-jeung", "sil-pae"} \subseteq own
=============================================================================
