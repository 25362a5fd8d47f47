---------------------------- MODULE ModelStream ----------------------------
(***************************************************************************)
(* One reply of the model: the HTTP stream and its retries                 *)
(* (llm/adapters/openai_compatible.py), the collection of its events until  *)
(* a timeout (agent/stream_collector.py), and what they are taken for       *)
(* (llm/response_parser.py, llm/tool_argument_repair.py).  The provider is  *)
(* outside of the repository: it may refuse, stall, break off, end for want *)
(* of tokens, and name a call in its first fragment only or not at all.     *)
(*                                                                         *)
(* The arguments of a call come in fragments, each known by where it leaves *)
(* the JSON text. The quotes of a content are escaped, its line breaks may  *)
(* be raw; what the lenient decoding makes of its other escapes is left out.*)
(***************************************************************************)
EXTENDS Naturals, Sequences, SequencesExt, FiniteSets

CONSTANTS
    MaxRetries    \* max_retries of the client

ASSUME StreamAssumption == MaxRetries \in Nat

VARIABLES
    script,       \* what the provider is about to say
    sent,         \* call -> number of its fragments in this response
    spoken,       \* the text is in this response
    ended,        \* the finish_reason of this response
    attempt, produced,
    ids,          \* tool_call_ids_by_index
    buffers,      \* id of a call -> its fragments
    order,        \* ids in the order of their first fragment
    heard,        \* kinds of the other events: text, reasoning, failed, and how it completed
    reply,        \* ParsedResponse, when there is one
    phase

streamVars == <<script, sent, spoken, ended, attempt, produced, ids, buffers, order, heard, reply, phase>>

\* Where the fragments of a call leave its arguments: inside of a string, behind one, behind
\* the comma or the quoted name of the next field, or complete. The content of a file is one
\* string; a patch comes pair by pair, of two.
Fragments(tool) ==
    CASE tool = "write_file" -> <<"in", "out", "comma", "key", "end">>
      [] tool = "patch_file" -> <<"in", "out", "in", "out", "end">>
      [] tool = "read_file" -> <<"in", "end">>
Tools == {"write_file", "patch_file", "read_file"}
MaxCalls == 2
\* Two calls that never have an id are told apart by their index.
Scripts == {p \in [calls : SeqOf(Tools, MaxCalls), text : {"none", "plain", "pseudo"}, reasoning : BOOLEAN,
                 named : {"always", "first", "never"}, index : {"own", "zero"}] :
            p.index = "zero" => Len(p.calls) = 2 /\ p.named # "never"}
NoScript == [calls |-> <<>>, text |-> "none", reasoning |-> FALSE, named |-> "first", index |-> "own"]

NoReply == [status |-> "none", calls |-> <<>>]
NoId == <<"none", 0>>

StreamInit ==
    /\ script = NoScript /\ sent = <<>> /\ spoken = FALSE /\ ended = "no"
    /\ attempt = 0 /\ produced = FALSE /\ ids = <<>> /\ buffers = <<>> /\ order = <<>>
    /\ heard = {} /\ reply = NoReply /\ phase = "idle"

Request ==
    /\ phase = "idle" /\ phase' = "connect"
    /\ script' \in Scripts /\ sent' = [j \in DOMAIN script'.calls |-> 0]
    /\ UNCHANGED <<spoken, ended, attempt, produced, ids, buffers, order, heard, reply>>

Said == <<sent, spoken, ended>>
Heard == <<ids, buffers, order, heard>>

-----------------------------------------------------------------------------
\* 429 and 5xx are tried again; other statuses raise.
Refused ==
    /\ phase = "connect"
    /\ IF attempt < MaxRetries THEN attempt' = attempt + 1 /\ UNCHANGED <<phase, reply>>
       ELSE phase' = "done" /\ reply' = [NoReply EXCEPT !.status = "raised"] /\ UNCHANGED attempt
    /\ UNCHANGED <<script, Said, produced, Heard>>

Connected ==
    /\ phase = "connect" /\ phase' = "stream"
    /\ UNCHANGED <<script, Said, attempt, produced, Heard, reply>>

\* Mutant: whatever was produced, the request is made again.
MayRetryAlways == attempt < MaxRetries
\* Mutant: one attempt too many.
MayRetryOnceMore == attempt <= MaxRetries /\ ~produced
\* Only before the first line.
MayRetry == attempt < MaxRetries /\ ~produced

\* httpx.TransportError
TransportError ==
    /\ phase \in {"connect", "stream"}
    /\ IF MayRetry
       THEN /\ attempt' = attempt + 1 /\ phase' = "connect"
            /\ sent' = [j \in DOMAIN sent |-> 0] /\ spoken' = FALSE /\ ended' = "no"
            /\ produced' = FALSE /\ UNCHANGED reply
       ELSE /\ phase' = "done" /\ reply' = [NoReply EXCEPT !.status = "raised"]
            /\ UNCHANGED <<attempt, sent, spoken, ended, produced>>
    /\ UNCHANGED <<script, Heard>>

-----------------------------------------------------------------------------
Index(j) == IF script.index = "own" THEN j ELSE 0
Unnamed(i) == <<"tool", i>>
Given(j) == IF script.named = "always" \/ (script.named = "first" /\ sent[j] = 0) THEN <<"id", j>> ELSE NoId

\* An id that the fragment has counts, unless it begins with "tool-"; without one, that of the
\* same index.
CallId(i, given) ==
    IF given # NoId THEN given ELSE IF i \in DOMAIN ids THEN ids[i] ELSE Unnamed(i)
Put(f, x, v) == [y \in DOMAIN f \cup {x} |-> IF y = x THEN v ELSE f[y]]

\* A provider that does not tell its calls apart sends one after the other.
InTurn(j) == script.index = "zero" => \A i \in 1..(j - 1) : sent[i] = Len(Fragments(script.calls[i]))

Fragment(j) ==
    /\ phase = "stream" /\ ended = "no" /\ (spoken \/ script.text = "none") /\ InTurn(j)
    /\ sent[j] < Len(Fragments(script.calls[j]))
    /\ sent' = [sent EXCEPT ![j] = @ + 1] /\ produced' = TRUE
    /\ LET id == CallId(Index(j), Given(j))
           so == IF id \in DOMAIN buffers THEN buffers[id] ELSE <<>>
       IN /\ ids' = Put(ids, Index(j), id)
          /\ buffers' = Put(buffers, id, Append(so, <<j, sent[j] + 1>>))
          /\ order' = IF id \in DOMAIN buffers THEN order ELSE Append(order, id)
    /\ UNCHANGED <<script, spoken, ended, attempt, heard, reply, phase>>

Text ==
    /\ phase = "stream" /\ ended = "no" /\ ~spoken /\ script.text # "none"
    /\ spoken' = TRUE /\ produced' = TRUE
    /\ heard' = heard \cup {script.text} \cup IF script.reasoning THEN {"reasoning"} ELSE {}
    /\ UNCHANGED <<script, sent, ended, attempt, ids, buffers, order, reply, phase>>

Reasoning ==
    /\ phase = "stream" /\ ended = "no" /\ script.reasoning /\ script.text = "none" /\ "reasoning" \notin heard
    /\ heard' = heard \cup {"reasoning"} /\ produced' = TRUE
    /\ UNCHANGED <<script, Said, attempt, ids, buffers, order, reply, phase>>

\* A line that is no JSON
Garbled ==
    /\ phase = "stream" /\ ended = "no" /\ "failed" \notin heard
    /\ heard' = heard \cup {"failed"} /\ produced' = TRUE
    /\ UNCHANGED <<script, Said, attempt, ids, buffers, order, reply, phase>>

AllSent == \A j \in DOMAIN sent : sent[j] = Len(Fragments(script.calls[j]))

\* The chunk with the finish_reason: "length" when the tokens ran out.
Finish(reason) ==
    /\ phase = "stream" /\ ended = "no"
    /\ reason = "stop" => AllSent /\ (spoken \/ script.text = "none")
    /\ ended' = reason /\ produced' = TRUE
    /\ heard' = (heard \ {"stop", "length"}) \cup {reason}
    /\ UNCHANGED <<script, sent, spoken, attempt, ids, buffers, order, reply, phase>>

-----------------------------------------------------------------------------
\* [DONE] is a response_completed of its own, and the last one counts.
Done ==
    /\ phase = "stream" /\ ended # "no"
    /\ heard' = (heard \ {"stop", "length"}) \cup {"stop"} /\ phase' = "parse"
    /\ UNCHANGED <<script, Said, attempt, produced, ids, buffers, order, reply>>

\* The connection ends without a [DONE], or the collector has waited long enough.
Stops ==
    /\ phase = "stream" /\ phase' = "parse"
    /\ UNCHANGED <<script, Said, attempt, produced, Heard, reply>>

\* A timeout without any event has nothing to parse.
TimesOutEmpty ==
    /\ phase \in {"connect", "stream"} /\ buffers = <<>> /\ heard = {}
    /\ phase' = "done" /\ reply' = [NoReply EXCEPT !.status = "timeout"]
    /\ UNCHANGED <<script, Said, attempt, produced, Heard>>

\* What a buffer is worth: all of the arguments, not quite what was meant, or nothing.
Tool(id) == script.calls[buffers[id][1][1]]
StopsAt(id) == Fragments(Tool(id))[Last(buffers[id])[2]]
Whole(id) == [tool |-> Tool(id), at |-> StopsAt(id), whole |-> TRUE]
Part(id) == [tool |-> Tool(id), at |-> StopsAt(id), whole |-> FALSE]
Lost(id) == [tool |-> "none", at |-> StopsAt(id), whole |-> FALSE]
Pairs(id) == Cardinality({n \in 1..Len(buffers[id]) : Fragments("patch_file")[n] = "out"})
Mended(id) ==
    CASE StopsAt(id) = "out" /\ Tool(id) = "patch_file" -> IF Pairs(id) = 2 THEN Whole(id) ELSE Part(id)
      [] StopsAt(id) = "out" /\ Tool(id) # "patch_file" -> Whole(id)
      [] StopsAt(id) # "out" -> Part(id)
Writers == {"write_file", "patch_file"}

\* Mutant: a file that breaks off inside of its content is repaired.
SalvagedAnyway(id) ==
    CASE StopsAt(id) = "end" -> {Whole(id)}
      [] StopsAt(id) # "end" /\ Tool(id) \in Writers -> {Mended(id), Lost(id)}
      [] StopsAt(id) # "end" /\ Tool(id) \notin Writers -> {Lost(id)}
\* append, to_tool_call and repair_to_tool_call, for every content and every order of the fields.
\* Files and patches alone are repaired, when they break off outside of a string behind their
\* path: behind a comma the content ends at a quote of its own that a brace follows, behind a
\* name this is a part of it. Complete arguments with a raw line break are repaired likewise.
Salvaged(id) ==
    CASE StopsAt(id) = "end" -> {Whole(id)} \cup (IF Tool(id) \in Writers THEN {} ELSE {Lost(id)})
      [] StopsAt(id) \notin {"in", "end"} /\ Tool(id) \in Writers -> {Mended(id), Lost(id)}
      [] StopsAt(id) = "in" \/ (StopsAt(id) # "end" /\ Tool(id) \notin Writers) -> {Lost(id)}

Salvages == {f \in [DOMAIN buffers -> UNION {Salvaged(id) : id \in DOMAIN buffers}] :
             \A id \in DOMAIN buffers : f[id] \in Salvaged(id)}

\* ResponseParser, in the order of its checks.
Parsed(made) ==
    IF "failed" \in heard \/ \E id \in DOMAIN buffers : made[id].tool = "none"
    THEN [status |-> "malformed_tool_call", calls |-> <<>>]
    ELSE IF "length" \in heard THEN [status |-> "length_cutoff", calls |-> <<>>]
    ELSE IF order # <<>> THEN [status |-> "ok_tool_calls", calls |-> [i \in DOMAIN order |-> made[order[i]]]]
    ELSE [status |-> IF "pseudo" \in heard THEN "pseudo_tool_call" ELSE
                     IF "plain" \in heard THEN "ok_text" ELSE
                     IF "reasoning" \in heard THEN "reasoning_only" ELSE "empty_response",
          calls |-> <<>>]

Parse ==
    /\ phase = "parse" /\ phase' = "done" /\ \E made \in Salvages : reply' = Parsed(made)
    /\ UNCHANGED <<script, Said, attempt, produced, Heard>>

StreamNext ==
    \/ Request \/ Refused \/ Connected \/ TransportError
    \/ \E j \in DOMAIN sent : Fragment(j)
    \/ Text \/ Reasoning \/ Garbled \/ \E reason \in {"stop", "length"} : Finish(reason)
    \/ Done \/ Stops \/ TimesOutEmpty \/ Parse

StreamSpec == StreamInit /\ [][StreamNext]_streamVars

-----------------------------------------------------------------------------
Statuses == {"none", "raised", "timeout", "malformed_tool_call", "length_cutoff", "ok_tool_calls",
             "pseudo_tool_call", "ok_text", "reasoning_only", "empty_response"}
StreamTypeOK ==
    /\ phase \in {"idle", "connect", "stream", "parse", "done"} /\ Range(script.calls) \subseteq Tools
    /\ DOMAIN sent = DOMAIN script.calls /\ spoken \in BOOLEAN /\ ended \in {"no", "stop", "length"}
    /\ attempt \in 0..MaxRetries /\ produced \in BOOLEAN
    /\ Range(order) = DOMAIN buffers /\ IsInjective(order)
    /\ heard \subseteq {"plain", "pseudo", "reasoning", "failed", "stop", "length"}
    /\ reply.status \in Statuses

\* Through retries, missing ids and fragments of two calls that alternate, each call is
\* put together from its own fragments of one response, in order and each once.
HeardAsSaid ==
    /\ \A id \in DOMAIN buffers : \E j \in DOMAIN sent :
         buffers[id] = [n \in 1..sent[j] |-> <<j, n>>]
    /\ Len(order) = Cardinality({j \in DOMAIN sent : sent[j] > 0})

\* response_parser.py: however the stream has ended, a file is written as it was meant or not
\* at all, unless the stream breaks off between its content and the colon of the next field:
\* the scan for the end of the content (tool_argument_repair.py:153-158) may then take too
\* little or too much, against the comment in repair_to_tool_call.
NoHalfFile ==
    \A i \in DOMAIN reply.calls :
        reply.calls[i].tool = "write_file" => reply.calls[i].whole \/ reply.calls[i].at \in {"comma", "key"}
=============================================================================
