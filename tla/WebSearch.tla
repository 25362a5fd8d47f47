----------------------------- MODULE WebSearch -----------------------------
(***************************************************************************)
(* Evidence from the web.  web_search and web_fetch (tools/builtin/web.py)  *)
(* ask the provider that the configuration names (tools/web_provider.py);   *)
(* the DuckDuckGo provider pages, retries and falls back to the instant     *)
(* answers.  What the calls of a turn brought decides when the turn has to  *)
(* write its answer, and what a fallback answer may cite                    *)
(* (agent/web_finalization.py, agent/web_formatter.py).                     *)
(*                                                                         *)
(* A row of a result page is its URL; NoUrl is a row that has neither a     *)
(* title nor a URL.  The time between two attempts is left out.             *)
(***************************************************************************)
EXTENDS Naturals, Sequences, FiniteSets, SequencesExt

CONSTANTS
    Urls, NoUrl,
    MaxRows,        \* bound: rows of one answer of a server
    MaxTop,         \* bound: the top_n of a call
    MaxSearches,    \* bound: calls of one turn
    MaxPages,       \* max_pages = 2
    MaxAttempts     \* max_attempts = 3

ASSUME WebAssumption ==
    /\ NoUrl \notin Urls
    /\ MaxRows \in Nat /\ MaxTop \in Nat \ {0} /\ MaxSearches \in Nat
    /\ MaxPages \in Nat \ {0} /\ MaxAttempts \in Nat \ {0}

Backends == {"disabled", "duckduckgo", "json"}
Rows == UNION {[1..n -> Urls \cup {NoUrl}] : n \in 0..MaxRows}

VARIABLES
    backend,      \* config.web.backend
    webStage,     \* idle | page | instant | asked | fetch
    topN, page, attempt,
    evidence,     \* the URLs of the evidence of the call, rank = index
    lastError,
    observed,     \* the web results of the turn, in order
    final,        \* external_final_answer_requested
    cited,        \* the references of a fallback answer; << >> before there is one
    \* history
    offered,      \* what the parser made of the pages of this call
    requests      \* requests of this call

webVars == <<backend, webStage, topN, page, attempt, evidence, lastError, observed, final, cited, offered, requests>>

WebInit ==
    /\ backend \in Backends /\ webStage = "idle"
    /\ topN = 1 /\ page = 0 /\ attempt = 0 /\ evidence = <<>> /\ lastError = FALSE
    /\ observed = <<>> /\ final = FALSE /\ cited = <<>>
    /\ offered = {} /\ requests = 0

Least(a, b) == IF a < b THEN a ELSE b
First(s, n) == SubSeq(s, 1, Least(n, Len(s)))
\* The rows that have a title and a URL.
Links(rows) ==
    LET upTo[n \in 0..Len(rows)] ==
          IF n = 0 THEN <<>>
          ELSE IF rows[n] = NoUrl THEN upTo[n - 1] ELSE Append(upTo[n - 1], rows[n])
    IN  upTo[Len(rows)]
\* Each value once, where it occurs first.
Distinct(s) ==
    LET upTo[n \in 0..Len(s)] ==
          IF n = 0 THEN <<>>
          ELSE IF s[n] \in Range(upTo[n - 1]) THEN upTo[n - 1] ELSE Append(upTo[n - 1], s[n])
    IN  upTo[Len(s)]

\* The end of a call: its result is observed and recorded.
Result(kind, refs) ==
    /\ observed' = Append(observed, [kind |-> kind, refs |-> refs])
    /\ webStage' = "idle" /\ evidence' = refs
    /\ UNCHANGED <<backend, final, cited>>

-----------------------------------------------------------------------------
\* WebSearchTool.run: results the model supplies are bundled, a turn without
\* network is refused, and the provider is asked otherwise.
Search(n, supplied, suppressed) ==
    /\ webStage = "idle" /\ ~final /\ Len(observed) < MaxSearches
    /\ topN' = n /\ page' = 0 /\ attempt' = 0 /\ lastError' = FALSE
    /\ offered' = {} /\ requests' = 0
    /\ CASE supplied # <<>> ->
              Result("web_evidence", First(Links(supplied), n))
         [] supplied = <<>> /\ (suppressed \/ backend = "disabled") -> Result("web_unavailable", <<>>)
         [] OTHER -> /\ webStage' = IF backend = "duckduckgo" THEN "page" ELSE "asked"
                     /\ evidence' = <<>>
                     /\ UNCHANGED <<backend, observed, final, cited>>

Fetch(suppressed) ==
    /\ webStage = "idle" /\ ~final /\ Len(observed) < MaxSearches
    /\ topN' = 1 /\ page' = 0 /\ attempt' = 0 /\ lastError' = FALSE
    /\ offered' = {} /\ requests' = 0
    /\ IF suppressed \/ backend = "disabled"
       THEN Result("web_unavailable", <<>>)
       ELSE /\ webStage' = "fetch" /\ evidence' = <<>>
            /\ UNCHANGED <<backend, observed, final, cited>>

\* The text of a page that the model already has: a result without evidence_kind.
FetchSupplied(url) ==
    /\ webStage = "idle" /\ ~final /\ Len(observed) < MaxSearches
    /\ topN' = 1 /\ page' = 0 /\ attempt' = 0 /\ lastError' = FALSE
    /\ offered' = {} /\ requests' = 0
    /\ Result("plain", <<url>>)

Counted == UNCHANGED <<topN, page, attempt, lastError>>

\* HttpWebFetchProvider.fetch, and any error of it.
Fetched(url) ==
    /\ webStage = "fetch" /\ requests' = requests + 1
    /\ \/ Result("web_evidence", <<url>>) /\ offered' = {url}
       \/ Result("web_error", <<>>) /\ UNCHANGED offered
    /\ Counted

\* The providers of one request, HttpWebSearchProvider and SearxngSearchProvider.
Answered(rows) ==
    /\ webStage = "asked" /\ requests' = requests + 1
    /\ offered' = Range(First(rows, topN))
    /\ Result(IF rows = <<>> THEN "web_no_results" ELSE "web_evidence", First(rows, topN))
    /\ Counted

\* No key, or a server that does not serve JSON; or any other error.
NotAnswered ==
    /\ webStage = "asked" /\ requests' = requests + 1
    /\ \E kind \in {"web_unavailable", "web_error"} : Result(kind, <<>>)
    /\ Counted /\ UNCHANGED offered

-----------------------------------------------------------------------------
\* The DuckDuckGo provider.  _parse_response: the first top_n rows that
\* have a title and a URL.
Parsed(rows) == First(Links(rows), topN)

\* After the pages: what was found, or the instant answers.
Paged(found) ==
    IF found # <<>>
    THEN Result("web_evidence", found)
    ELSE webStage' = "instant" /\ evidence' = <<>> /\ UNCHANGED <<backend, observed, final, cited>>

Page(rows) ==
    /\ webStage = "page" /\ Parsed(rows) # <<>>
    /\ requests' = requests + 1
    /\ LET results == Parsed(rows)
           found == First(Distinct(evidence \o results), topN)
           last == Len(found) = topN \/ Len(results) < topN \/ page + 1 = MaxPages
       IN /\ offered' = offered \cup Range(results)
          /\ IF last
             THEN Paged(found) /\ UNCHANGED <<page, attempt>>
             ELSE /\ evidence' = found /\ page' = page + 1 /\ attempt' = 0
                  /\ UNCHANGED <<backend, webStage, observed, final, cited>>
    /\ UNCHANGED <<topN, lastError>>

\* Mutant: a page that cannot be had ends the search.
PageLosesEvidence ==
    /\ webStage = "page" /\ requests' = requests + 1
    /\ IF attempt + 1 < MaxAttempts
       THEN /\ attempt' = attempt + 1
            /\ UNCHANGED <<backend, webStage, evidence, lastError, observed, final, cited>>
       ELSE /\ lastError' = TRUE /\ UNCHANGED attempt
            /\ Result("web_unavailable", <<>>)
    /\ UNCHANGED <<topN, page, offered>>
\* Mutant: one attempt too many.
PageRetriesOnceMore ==
    /\ webStage = "page" /\ requests' = requests + 1
    /\ IF attempt < MaxAttempts
       THEN /\ attempt' = attempt + 1
            /\ UNCHANGED <<backend, webStage, evidence, lastError, observed, final, cited>>
       ELSE /\ lastError' = TRUE /\ UNCHANGED attempt
            /\ Paged(evidence)
    /\ UNCHANGED <<topN, page, offered>>
\* The challenge, a page without a row and an HTTP error: three attempts.
PageFails ==
    /\ webStage = "page" /\ requests' = requests + 1
    /\ IF attempt + 1 < MaxAttempts
       THEN /\ attempt' = attempt + 1
            /\ UNCHANGED <<backend, webStage, evidence, lastError, observed, final, cited>>
       ELSE /\ lastError' = TRUE /\ UNCHANGED attempt
            /\ Paged(evidence)
    /\ UNCHANGED <<topN, page, offered>>

\* An exception that is not an HTTPError leaves search() and what it had found.
Breaks ==
    /\ webStage \in {"page", "instant"} /\ requests' = requests + 1
    /\ Result("web_error", <<>>)
    /\ Counted /\ UNCHANGED offered

\* _instant_answer_search; an HTTP error is an answer without rows.
Instant(rows) ==
    /\ webStage = "instant" /\ requests' = requests + 1
    /\ LET found == First(Distinct(Links(rows)), topN)
       IN /\ offered' = offered \cup Range(found)
          /\ IF found # <<>> THEN Result("web_evidence", found) ELSE Result("web_unavailable", <<>>)
    /\ Counted

-----------------------------------------------------------------------------
\* summarize_web_observations: web_evidence counts with at least one item.
Successful == {i \in DOMAIN observed : observed[i].kind = "web_evidence" /\ observed[i].refs # <<>>}
Unavailable == {i \in DOMAIN observed :
                  observed[i].kind \in {"web_unavailable", "web_error", "web_no_results"}}

\* The items of the successful observations; a message adds at least one item
\* even when the eight places are taken, and the cut follows.
With(acc, o) ==
    IF o.kind = "web_evidence"
    THEN acc \o First(Distinct(o.refs), Least(5, IF Len(acc) < 8 THEN 8 - Len(acc) ELSE 1))
    ELSE acc
Items ==
    LET upTo[n \in 0..Len(observed)] == IF n = 0 THEN <<>> ELSE With(upTo[n - 1], observed[n])
    IN  First(upTo[Len(observed)], 8)

\* should_request_web_final_answer
Due ==
    \/ final
    \/ Cardinality(Successful) >= 2
    \/ Successful # {} /\ Cardinality(Successful) + Cardinality(Unavailable) >= 3
    \/ Successful = {} /\ Unavailable # {}

\* run_rounds: no tool is offered from here on.
RequestFinal ==
    /\ webStage = "idle" /\ ~final /\ Due /\ final' = TRUE
    /\ UNCHANGED <<backend, webStage, topN, page, attempt, evidence, lastError, observed, cited, offered, requests>>

\* The model calls a tool all the same, or the rounds are used up: the answer
\* is made of the evidence, six references at most.
Fallback ==
    /\ webStage = "idle" /\ Due /\ cited = <<>> /\ Items # <<>>
    /\ cited' = First(Items, 6) /\ final' = TRUE
    /\ UNCHANGED <<backend, webStage, topN, page, attempt, evidence, lastError, observed, offered, requests>>

WebNext ==
    \/ \E n \in 1..MaxTop, s \in Rows, b \in BOOLEAN : Search(n, s, b)
    \/ \E b \in BOOLEAN : Fetch(b)
    \/ \E u \in Urls : FetchSupplied(u)
    \/ \E u \in Urls : Fetched(u)
    \/ \E rows \in Rows : Answered(rows)
    \/ NotAnswered
    \/ \E rows \in Rows : Page(rows)
    \/ PageFails \/ Breaks
    \/ \E rows \in Rows : Instant(rows)
    \/ RequestFinal \/ Fallback

WebSpec == WebInit /\ [][WebNext]_webVars

-----------------------------------------------------------------------------
WebTypeOK ==
    /\ backend \in Backends /\ webStage \in {"idle", "page", "instant", "asked", "fetch"}
    /\ topN \in 1..MaxTop /\ page \in 0..(MaxPages - 1) /\ attempt \in 0..(MaxAttempts - 1)
    /\ evidence \in Seq(Urls \cup {NoUrl}) /\ lastError \in BOOLEAN /\ final \in BOOLEAN
    /\ cited \in Seq(Urls \cup {NoUrl})
    /\ requests \in 0..(MaxPages * MaxAttempts + 1)

\* A search that found something delivers it, each URL once and no more than it
\* was asked for, whichever pages failed after that and whatever was retried,
\* and it ends within its requests; only an error that is not an HTTP error may
\* cost what was found (DuckDuckGoHtmlSearchProvider.search).
SearchKeepsEvidence ==
    /\ requests <= MaxPages * MaxAttempts + 1
    /\ (backend = "duckduckgo" /\ requests > 0 /\ webStage = "idle") =>
         LET last == observed[Len(observed)]
         IN /\ last.kind \in {"web_unavailable", "web_no_results"} => offered = {}
            /\ last.kind = "web_evidence" =>
                 /\ IsInjective(last.refs) /\ Range(last.refs) \subseteq offered
                 /\ Len(last.refs) <= topN
                 /\ Len(last.refs) < topN => Range(last.refs) = offered
=============================================================================
