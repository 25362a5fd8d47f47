---------------------------- MODULE SessionProofs ----------------------------
(***************************************************************************)
(* Proofs about the components of a session: TurnSession, for every set of *)
(* symbols and any number of turns, crashes, interruptions and writes that *)
(* fail; Steering, for any number of lines, turns and questions;           *)
(* ToolGuards, for every set of files and search blocks and any number of  *)
(* calls and edits; FinalAnswer, for every evidence and wording; and       *)
(* ModelRequests, for every budget, size and number of messages; and about *)
(* their sum, MCSession, the types of all of them.                         *)
(***************************************************************************)
EXTENDS MCSession, SequenceTheorems, FiniteSetTheorems, WellFoundedInduction, TLAPS

-----------------------------------------------------------------------------
(* The events of a turn.                                                   *)

EventNames == {"FinalAnswerReady", "TurnFinalized", "TurnFailed", "TurnResultReady"}

\* A result that has not been announced, and one that has been, last and once.
Unannounced(es) == es \in Seq(EventNames) /\ \A i \in 1..Len(es) : es[i] # "TurnResultReady"
AnnouncedIn(es) ==
    /\ es \in Seq(EventNames) /\ Len(es) > 0 /\ es[Len(es)] = "TurnResultReady"
    /\ \A i \in 1..(Len(es) - 1) : es[i] # "TurnResultReady"

EventsInv ==
    /\ pc \in {"hooks", "rounds"} => events = <<>>
    /\ pc \in {"remembered", "failing"} => Unannounced(events)
    /\ pc \in {"stop", "save", "append"} => AnnouncedIn(events)
    /\ pc = "idle" /\ result \in Statuses => AnnouncedIn(events)
    /\ pc = "idle" /\ result = "cancelled" => AnnouncedIn(events) \/ events = <<"TurnFinalized">>

LEMMA FirstEvent ==
    Unannounced(<<>>) /\ Unannounced(<<"FinalAnswerReady">>) /\ Unannounced(<<"TurnFinalized">>)
BY DEF Unannounced, EventNames

LEMMA Announcement ==
    ASSUME NEW es, Unannounced(es)
    PROVE  /\ AnnouncedIn(es \o <<"TurnResultReady">>)
           /\ AnnouncedIn(es \o <<"TurnFailed", "TurnResultReady">>)
<1>1. es \in Seq(EventNames) /\ Len(es) \in Nat
      BY DEF Unannounced
<1>2. ASSUME NEW end \in Seq(EventNames), AnnouncedIn(end) PROVE AnnouncedIn(es \o end)
  <2> DEFINE all == es \o end
  <2>1. end # <<>> /\ Len(end) \in Nat /\ Len(end) > 0
        BY <1>2 DEF AnnouncedIn
  <2>2. /\ all \in Seq(EventNames) /\ Len(all) = Len(es) + Len(end)
        /\ \A i \in 1..Len(all) : all[i] = IF i <= Len(es) THEN es[i] ELSE end[i - Len(es)]
        BY <1>1, ConcatProperties
  <2> HIDE DEF all
  <2>3. all[Len(all)] = "TurnResultReady"
        BY <1>1, <1>2, <2>1, <2>2 DEF AnnouncedIn
  <2>4. ASSUME NEW i \in 1..(Len(all) - 1) PROVE all[i] # "TurnResultReady"
    <3>1. CASE i <= Len(es)
          BY <1>1, <2>1, <2>2, <3>1 DEF Unannounced
    <3>2. CASE ~(i <= Len(es))
      <4>1. i - Len(es) \in 1..(Len(end) - 1)
            BY <1>1, <2>1, <2>2, <3>2
      <4>2. all[i] = end[i - Len(es)]
            BY <1>1, <2>1, <2>2, <3>2
      <4> QED
          BY <1>2, <4>1, <4>2 DEF AnnouncedIn
    <3> QED
        BY <3>1, <3>2
  <2> QED
      BY <2>1, <2>2, <2>3, <2>4, <1>1 DEF AnnouncedIn
<1>3. <<"TurnResultReady">> \in Seq(EventNames) /\ AnnouncedIn(<<"TurnResultReady">>)
      BY DEF AnnouncedIn, EventNames
<1>4. /\ <<"TurnFailed", "TurnResultReady">> \in Seq(EventNames)
      /\ AnnouncedIn(<<"TurnFailed", "TurnResultReady">>)
      BY DEF AnnouncedIn, EventNames
<1> QED
    BY <1>2, <1>3, <1>4, Zenon

LEMMA EventsInit == TurnInit => EventsInv
BY DEF TurnInit, EventsInv, Statuses

LEMMA EventsStep == ASSUME EventsInv, [TurnNext]_turnVars PROVE EventsInv'
<1> USE DEF EventsInv, Stores, History, Mishap, Statuses
<1>1. CASE UNCHANGED turnVars
      BY <1>1 DEF turnVars
<1>2. CASE BeginTurn \/ HooksPass \/ HookBlocks
      BY <1>2 DEF BeginTurn, HooksPass, HookBlocks
<1>3. CASE Rounds
  <2>1. pc' \in {"remembered", "failing"} /\ events' \in {<<>>, <<"FinalAnswerReady">>}
        BY <1>3 DEF Rounds
  <2> QED
      BY <2>1, FirstEvent
<1>4. CASE Announces
  <2>1. pc' = "stop" /\ Unannounced(events)
        BY <1>4 DEF Announces
  <2>2. events' = <<"TurnFinalized">> \o <<"TurnResultReady">> \/ events' = events \o <<"TurnResultReady">>
        BY <1>4 DEF Announces
  <2> QED
      BY <2>1, <2>2, FirstEvent, Announcement
<1>5. CASE Cancelled
  <2>1. pc' = "failing" /\ (events' = events \/ events' \in {<<>>, <<"TurnFinalized">>})
        BY <1>5 DEF Cancelled
  <2>2. pc = "rounds" \/ Unannounced(events)
        BY <1>5 DEF Cancelled
  <2> QED
      BY <1>5, <2>1, <2>2, FirstEvent DEF Cancelled
<1>6. CASE Raises
      BY <1>6, FirstEvent DEF Raises
<1>7. CASE Fails
      BY <1>7, Announcement DEF Fails
<1>8. CASE StopHooks \/ Saves \/ SaveFails
      BY <1>8 DEF StopHooks, Saves, SaveFails
<1>9. CASE (\E ls \in Lines : Appends(ls) \/ AppendFails(ls)) \/ Interrupted \/ Crash \/ Resume
      BY <1>9 DEF Appends, AppendFails, Interrupted, Crash, Resume
<1> QED
    BY <1>1, <1>2, <1>3, <1>4, <1>5, <1>6, <1>7, <1>8, <1>9 DEF TurnNext

\* Every turn that returns has announced its result once, as the last event, but for one
\* that a hook blocks, which has said TurnFinalized alone (ResultAnnounced).
THEOREM ResultAnnouncedCorrect == TurnSpec => []ResultAnnounced
<1>1. EventsInv => ResultAnnounced
      BY DEF EventsInv, AnnouncedIn, Announced, ResultAnnounced, Last
<1>2. EventsInv /\ [TurnNext]_turnVars => EventsInv'
      BY EventsStep
<1> QED
    BY <1>1, <1>2, EventsInit, PTL DEF TurnSpec

-----------------------------------------------------------------------------
(* What the session remembers of a failed validation.                      *)

\* Between turns the snapshot, or without one the session, has what the last turn to end
\* undisturbed left; a turn that is about to end has saved it.
RepairInv ==
    /\ pc \in {"idle", "hooks"} /\ ~cut => Loaded = owed
    /\ pc = "hooks" /\ ~cut => repair = owed
    /\ pc = "append" => snapshot.kind = "saved" /\ snapshot.repair = repair
    /\ ~cut /\ snapshot.kind # "saved" => owed = NoRepair

LEMMA RepairInit == TurnInit => RepairInv
BY DEF TurnInit, RepairInv, Loaded, NoSnapshot, Snapshot, NoRepair

LEMMA RepairStep == ASSUME RepairInv, [TurnNext]_turnVars PROVE RepairInv'
<1> USE DEF RepairInv, Loaded, Snapshot, Stores, History, Mishap
<1>1. CASE UNCHANGED turnVars
      BY <1>1 DEF turnVars
<1>2. CASE BeginTurn
      BY <1>2 DEF BeginTurn
<1>3. CASE HooksPass \/ HookBlocks
      BY <1>3 DEF HooksPass, HookBlocks
<1>4. CASE Rounds \/ Announces \/ Cancelled \/ Raises \/ Fails
      BY <1>4 DEF Rounds, Announces, Cancelled, Raises, Fails
<1>5. CASE StopHooks \/ Saves \/ SaveFails
      BY <1>5 DEF StopHooks, Saves, SaveFails
<1>6. CASE \E ls \in Lines : Appends(ls) \/ AppendFails(ls)
      BY <1>6 DEF Appends, AppendFails
<1>7. CASE Interrupted
      BY <1>7 DEF Interrupted
<1>8. CASE Crash
      BY <1>8 DEF Crash
<1>9. CASE Resume
      BY <1>9 DEF Resume
<1> QED
    BY <1>1, <1>2, <1>3, <1>4, <1>5, <1>6, <1>7, <1>8, <1>9 DEF TurnNext

\* However often turns are blocked and the process dies between turns, a turn starts
\* with the repair context that the last one left.
THEOREM RepairIsKnownCorrect == TurnSpec => []RepairIsKnown
<1>1. RepairInv => RepairIsKnown
      BY DEF RepairInv, RepairIsKnown
<1>2. RepairInv /\ [TurnNext]_turnVars => RepairInv'
      BY RepairStep
<1> QED
    BY <1>1, <1>2, RepairInit, PTL DEF TurnSpec

-----------------------------------------------------------------------------
(* What a resumed session finds of the conversation.                       *)

Entries == [turn : Nat, role : {"user", "assistant", "scrap", "bad"}, form : Forms \cup {"open", "ended"}]

ReadableIn(s) == \A e \in Range(s) : ~Unreadable(e)

KeptInv ==
    /\ turn \in Nat /\ said \in Seq(Entries) /\ kept \subseteq Entries
    /\ \A e \in kept : e.role = "assistant" => e \in Range(said)
    /\ ~spoiled => ReadableIn(said)

LEMMA RangeIndex ==
    ASSUME NEW S, NEW s \in Seq(S), NEW e
    PROVE  e \in Range(s) <=> \E i \in 1..Len(s) : s[i] = e
BY DEF Range

LEMMA RangeConcat ==
    ASSUME NEW S, NEW s \in Seq(S), NEW t \in Seq(S)
    PROVE  Range(s \o t) = Range(s) \cup Range(t)
<1>1. /\ s \o t \in Seq(S) /\ Len(s) \in Nat /\ Len(t) \in Nat
      /\ Len(s \o t) = Len(s) + Len(t)
      /\ \A i \in 1..(Len(s) + Len(t)) : (s \o t)[i] = IF i <= Len(s) THEN s[i] ELSE t[i - Len(s)]
      BY ConcatProperties
<1>2. ASSUME NEW e \in Range(s) PROVE e \in Range(s \o t)
  <2>1. PICK i \in 1..Len(s) : s[i] = e
        BY RangeIndex
  <2>2. i \in 1..(Len(s) + Len(t)) /\ (s \o t)[i] = e
        BY <1>1, <2>1
  <2> QED
      BY <1>1, <2>2, RangeIndex
<1>3. ASSUME NEW e \in Range(t) PROVE e \in Range(s \o t)
  <2>1. PICK i \in 1..Len(t) : t[i] = e
        BY RangeIndex
  <2>2. /\ Len(s) + i \in 1..(Len(s) + Len(t)) /\ ~(Len(s) + i <= Len(s))
        /\ (Len(s) + i) - Len(s) = i
        BY <1>1
  <2>3. (s \o t)[Len(s) + i] = e
        BY <1>1, <2>1, <2>2
  <2> QED
      BY <1>1, <2>2, <2>3, RangeIndex
<1>4. ASSUME NEW e \in Range(s \o t) PROVE e \in Range(s) \cup Range(t)
  <2>1. PICK i \in 1..(Len(s) + Len(t)) : (s \o t)[i] = e
        BY <1>1, RangeIndex
  <2>2. CASE i <= Len(s)
        BY <1>1, <2>1, <2>2, RangeIndex
  <2>3. CASE ~(i <= Len(s))
    <3>1. i - Len(s) \in 1..Len(t) /\ t[i - Len(s)] = e
          BY <1>1, <2>1, <2>3
    <3> QED
        BY <3>1, RangeIndex
  <2> QED
      BY <2>2, <2>3
<1> QED
    BY <1>2, <1>3, <1>4

LEMMA FrontElements ==
    ASSUME NEW s \in Seq(Entries), s # <<>>
    PROVE  /\ Front(s) \in Seq(Entries) /\ Len(Front(s)) = Len(s) - 1
           /\ \A j \in 1..(Len(s) - 1) : Front(s)[j] = s[j]
<1>1. Len(s) \in Nat /\ Len(s) > 0
      BY EmptySeq
<1>2. \A j \in 1..(Len(s) - 1) : s[j] \in Entries
      BY <1>1
<1> DEFINE n == Len(s) - 1
<1>3. n \in Nat /\ n \in Int /\ 1 \in Int
      BY <1>1
<1>4. /\ Front(s) \in Seq(Entries)
      /\ Len(Front(s)) = IF 1 <= n THEN n - 1 + 1 ELSE 0
      /\ \A j \in 1..(n - 1 + 1) : Front(s)[j] = s[1 + j - 1]
      BY <1>2, <1>3, SubSeqProperties DEF Front
<1>5. n - 1 + 1 = n /\ \A j \in 1..n : 1 + j - 1 = j
      BY <1>3
<1>6. Len(Front(s)) = n
  <2> HIDE DEF n
  <2>1. CASE n = 0
        BY <1>3, <1>4, <2>1
  <2>2. CASE n > 0
        BY <1>3, <1>4, <2>2
  <2> QED
      BY <1>3, <2>1, <2>2
<1>7. \A j \in 1..n : Front(s)[j] = s[j]
  <2> HIDE DEF n
  <2> QED
      BY <1>4, <1>5
<1> QED
    BY <1>4, <1>6, <1>7

\* Without the end of a torn line the file keeps every other line.
LEMMA FrontKeeps ==
    ASSUME NEW s \in Seq(Entries), s # <<>>, NEW e \in Range(s), e # Last(s)
    PROVE  e \in Range(Front(s))
<1>1. Len(s) \in Nat /\ Len(s) > 0
      BY EmptySeq
<1>2. PICK i \in 1..Len(s) : s[i] = e
      BY RangeIndex
<1>3. i \in 1..(Len(s) - 1)
      BY <1>1, <1>2 DEF Last
<1> QED
    BY <1>2, <1>3, FrontElements, RangeIndex

LEMMA FrontWithin ==
    ASSUME NEW s \in Seq(Entries), s # <<>>
    PROVE  Range(Front(s)) \subseteq Range(s)
<1>1. Len(s) \in Nat /\ Len(s) > 0
      BY EmptySeq
<1>2. /\ Front(s) \in Seq(Entries) /\ Len(Front(s)) = Len(s) - 1
      /\ \A j \in 1..(Len(s) - 1) : Front(s)[j] = s[j]
      BY FrontElements
<1>3. ASSUME NEW e \in Range(Front(s)) PROVE e \in Range(s)
  <2>1. PICK i \in 1..Len(Front(s)) : Front(s)[i] = e
        BY <1>2, RangeIndex
  <2>2. i \in 1..Len(s) /\ s[i] = e
        BY <1>1, <1>2, <2>1
  <2> QED BY <2>2, RangeIndex
<1> QED BY <1>3

LEMMA RangeHeadTail ==
    ASSUME NEW S, NEW s \in Seq(S), s # <<>>, NEW e \in Range(s), e # Head(s)
    PROVE  Tail(s) \in Seq(S) /\ e \in Range(Tail(s))
<1>1. PICK i \in 1..Len(s) : s[i] = e
      BY RangeIndex
<1>2. /\ Tail(s) \in Seq(S) /\ Len(Tail(s)) = Len(s) - 1
      /\ \A j \in 1..Len(Tail(s)) : Tail(s)[j] = s[j + 1]
      BY HeadTailProperties
<1>3. i # 1
      BY <1>1
<1>4. i - 1 \in 1..Len(Tail(s)) /\ (i - 1) + 1 = i
      BY <1>1, <1>2, <1>3
<1> QED
    BY <1>1, <1>2, <1>4, RangeIndex

\* Writing lines to the file, whole or torn, keeps the answers that it has, and all that
\* is written but the first line; only what cannot be read makes it unreadable.
LEMMA AppendedKeeps ==
    ASSUME said \in Seq(Entries), NEW ls \in Seq(Entries), ls # <<>>
    PROVE  /\ Appended(ls) \in Seq(Entries)
           /\ \A e \in Range(said) : e.role = "assistant" /\ e.form # "open" => e \in Range(Appended(ls))
           /\ \A e \in Range(ls) : e # Head(ls) => e \in Range(Appended(ls))
           /\ ReadableIn(said) /\ ReadableIn(ls) => ReadableIn(Appended(ls))
<1>1. CASE said # <<>> /\ Last(said).form = "open"
  <2> DEFINE one == <<Merged(Last(said), Head(ls))>>
             front == Front(said)
             tail == Tail(ls)
  <2>1. /\ front \in Seq(Entries) /\ one \in Seq(Entries) /\ tail \in Seq(Entries)
        /\ Last(said) \in Range(said) /\ Head(ls) \in Range(ls)
        /\ Range(one) = {Merged(Last(said), Head(ls))}
        /\ Range(front) \subseteq Range(said) /\ Range(tail) \subseteq Range(ls)
    <3>1. Merged(Last(said), Head(ls)) \in Entries
          BY DEF Merged, Scrap, Entry, Entries
    <3>2. \A j \in 1..(Len(said) - 1) : said[j] \in Entries
          OBVIOUS
    <3>3. front \in Seq(Entries)
          BY <3>2, SubSeqProperties DEF Front
    <3>4. Len(said) \in 1..Len(said) /\ 1 \in 1..Len(ls)
      <4>1. Len(said) \in Nat \ {0} /\ Len(ls) \in Nat \ {0}
            BY <1>1, EmptySeq
      <4> QED BY <4>1
    <3>5. Last(said) \in Range(said)
          BY <3>4, RangeIndex DEF Last
    <3>6. Head(ls) \in Range(ls)
          BY <3>4, RangeIndex, HeadTailProperties
    <3>7. Range(one) = {Merged(Last(said), Head(ls))}
      <4> DEFINE m == Merged(Last(said), Head(ls))
      <4>1. <<m>> \in Seq(Entries) /\ Len(<<m>>) = 1 /\ <<m>>[1] = m
            BY <3>1
      <4> HIDE DEF m
      <4>2. DOMAIN <<m>> = {1}
            BY <4>1
      <4> QED BY <4>1, <4>2 DEF Range
    <3>8. ASSUME NEW e \in Range(tail) PROVE e \in Range(ls)
      <4>1. /\ tail \in Seq(Entries) /\ Len(tail) = Len(ls) - 1
            /\ \A j \in 1..Len(tail) : tail[j] = ls[j + 1]
            BY HeadTailProperties
      <4>2. PICK i \in 1..Len(tail) : tail[i] = e
            BY <4>1, RangeIndex
      <4>3. i + 1 \in 1..Len(ls) /\ ls[i + 1] = e
            BY <4>1, <4>2
      <4> QED BY <4>3, RangeIndex
    <3>9. Range(front) \subseteq Range(said)
          BY <1>1, FrontWithin
    <3> QED
        BY <3>1, <3>3, <3>5, <3>6, <3>7, <3>8, <3>9, HeadTailProperties
  <2>2. ASSUME NEW e \in Range(said), e.form # "open" PROVE e \in Range(front)
    <3>1. e # Last(said)
          BY <1>1, <2>2
    <3> QED
        BY <1>1, <3>1, FrontKeeps
  <2>3. ASSUME NEW e \in Range(ls), e # Head(ls) PROVE e \in Range(tail)
        BY <2>3, RangeHeadTail
  <2>4. ReadableIn(said) /\ ReadableIn(ls) => ~Unreadable(Merged(Last(said), Head(ls)))
        BY <2>1 DEF ReadableIn, Unreadable, Merged, Scrap, Entry
  <2> HIDE DEF one, front, tail
  <2>5. /\ front \o one \in Seq(Entries) /\ Range(front \o one) = Range(front) \cup Range(one)
        BY <2>1, RangeConcat, ConcatProperties
  <2> DEFINE all == front \o one
  <2>6. all \o tail \in Seq(Entries) /\ Range(all \o tail) = Range(all) \cup Range(tail)
    <3>1. all \in Seq(Entries)
          BY <2>5
    <3> HIDE DEF all
    <3> QED
        BY <2>1, <3>1, RangeConcat, ConcatProperties
  <2>7. Appended(ls) = all \o tail
        BY <1>1 DEF Appended, front, one, tail
  <2> QED
      BY <2>1, <2>2, <2>3, <2>4, <2>5, <2>6, <2>7 DEF ReadableIn
<1>2. CASE ~(said # <<>> /\ Last(said).form = "open")
  <2>1. Appended(ls) = said \o ls
        BY <1>2 DEF Appended
  <2>2. said \o ls \in Seq(Entries) /\ Range(said \o ls) = Range(said) \cup Range(ls)
        BY RangeConcat, ConcatProperties
  <2> QED
      BY <2>1, <2>2 DEF ReadableIn
<1> QED
    BY <1>1, <1>2

LEMMA LinesOK ==
    ASSUME turn \in Nat, NEW ls \in Lines
    PROVE  /\ ls \in Seq(Entries) /\ ls # <<>> /\ Range(ls) \subseteq Entries
           /\ \A e \in Range(ls) : e.role = "assistant" => e # Head(ls)
           /\ \A e \in Range(ls) : e.form # "open"
<1>1. PICK f \in Forms, g \in Forms : \/ ls = <<Entry(turn, "user", f)>>
                                      \/ ls = <<Entry(turn, "user", f), Entry(turn, "assistant", g)>>
      BY DEF Lines, Forms
<1> DEFINE u == Entry(turn, "user", f)
           a == Entry(turn, "assistant", g)
<1>2. /\ u \in Entries /\ a \in Entries /\ u.role = "user"
      /\ u.form # "open" /\ a.form # "open"
      BY DEF Entry, Entries, Forms
<1>3. ls = <<u>> \/ ls = <<u, a>>
      BY <1>1
<1> HIDE DEF u, a
<1>4. /\ ls \in Seq(Entries) /\ ls # <<>> /\ Head(ls) = u
      /\ \A i \in 1..Len(ls) : ls[i] = u \/ ls[i] = a
  <2>1. CASE ls = <<u>>
        BY <1>2, <2>1
  <2>2. CASE ls = <<u, a>>
        BY <1>2, <2>2
  <2> QED
      BY <1>3, <2>1, <2>2
<1>5. \A e \in Range(ls) : e = u \/ e = a
      BY <1>4, RangeIndex
<1> QED
    BY <1>2, <1>4, <1>5

LEMMA PiecesOK ==
    ASSUME NEW ls \in Seq(Entries), NEW piece \in Pieces(ls)
    PROVE  piece \in Seq(Entries)
<1>1. \A n \in 0..Len(ls) : SubSeq(ls, 1, n) \in Seq(Entries)
      BY SubSeqProperties
<1>2. CASE \E n \in 0..Len(ls) : piece = SubSeq(ls, 1, n)
      BY <1>1, <1>2
<1>3. CASE \E n \in 0..(Len(ls) - 1), role \in {"scrap", "bad"} : piece = SubSeq(ls, 1, n) \o <<Scrap(role, "open")>>
  <2>1. PICK n \in 0..(Len(ls) - 1), role \in {"scrap", "bad"} : piece = SubSeq(ls, 1, n) \o <<Scrap(role, "open")>>
        BY <1>3
  <2>2. <<Scrap(role, "open")>> \in Seq(Entries)
    <3>1. Scrap(role, "open") \in Entries
          BY DEF Scrap, Entry, Entries
    <3> QED BY <3>1
  <2>3. SubSeq(ls, 1, n) \in Seq(Entries)
        BY <1>1
  <2> QED
      BY <2>1, <2>2, <2>3, ConcatProperties
<1> QED
    BY <1>2, <1>3 DEF Pieces

\* What is written to the file keeps the answers that were kept.
LEMMA WrittenKeeps ==
    ASSUME KeptInv, \A e \in kept : e.form # "open", NEW ls \in Seq(Entries), Written(ls)
    PROVE  /\ said' \in Seq(Entries)
           /\ \A e \in kept : e.role = "assistant" => e \in Range(said')
           /\ \A e \in Range(ls) : e # Head(ls) => e \in Range(said')
           /\ ~spoiled' => ReadableIn(said')
<1>1. CASE ls = <<>>
  <2>1. said' = said /\ (spoiled => spoiled')
    <3>1. said \o <<>> = said
          BY ConcatSimplifications DEF KeptInv
    <3> QED BY <1>1, <3>1 DEF Written, Appended
  <2>2. \A e : e \notin Range(ls)
    <3>1. DOMAIN ls = {}
          BY <1>1
    <3> QED BY <3>1 DEF Range
  <2> QED BY <2>1, <2>2 DEF KeptInv
<1>2. CASE ls # <<>>
  <2>1. said' = Appended(ls) /\ (~spoiled' => ~spoiled /\ ReadableIn(ls))
        BY DEF Written, ReadableIn
  <2> QED
      BY <1>2, <2>1, AppendedKeeps DEF KeptInv
<1> QED BY <1>1, <1>2

LEMMA KeptInit == TurnInit => KeptInv /\ \A e \in kept : e.form # "open"
<1> SUFFICES ASSUME TurnInit PROVE KeptInv /\ \A e \in kept : e.form # "open"
    OBVIOUS
<1>1. said = <<>> /\ kept = {} /\ turn \in Nat /\ said \in Seq(Entries)
      BY DEF TurnInit
<1>2. Range(said) = {}
      BY <1>1 DEF Range
<1> QED BY <1>1, <1>2 DEF KeptInv, ReadableIn

KeptWhole == KeptInv /\ \A e \in kept : e.form # "open"

LEMMA KeptStep == ASSUME KeptWhole, [TurnNext]_turnVars PROVE KeptWhole'
<1> USE DEF Stores, History, Mishap
<1>1. ASSUME UNCHANGED <<said, kept, spoiled>>, turn' \in Nat PROVE KeptWhole'
      BY <1>1 DEF KeptWhole, KeptInv
<1>2. CASE BeginTurn
      BY <1>1, <1>2 DEF BeginTurn, KeptWhole, KeptInv
<1>3. CASE \/ HooksPass \/ HookBlocks \/ Rounds \/ Announces \/ Cancelled \/ Raises \/ Fails
           \/ StopHooks \/ Saves \/ SaveFails \/ Interrupted \/ Resume \/ UNCHANGED turnVars
      BY <1>1, <1>3 DEF HooksPass, HookBlocks, Rounds, Announces, Cancelled, Raises, Fails,
         StopHooks, Saves, SaveFails, Interrupted, Resume, turnVars, KeptWhole, KeptInv
<1>4. ASSUME NEW ls \in Lines, Appends(ls) PROVE KeptWhole'
  <2>1. Written(ls) /\ kept' = kept \cup Range(ls) /\ turn' = turn
        BY <1>4 DEF Appends
  <2>2. turn \in Nat
        BY DEF KeptWhole, KeptInv
  <2> QED
      BY <2>1, <2>2, LinesOK, WrittenKeeps DEF KeptWhole, KeptInv
<1>5. ASSUME NEW ls \in Lines, NEW piece \in Pieces(ls), Written(piece), UNCHANGED <<kept, turn>> PROVE KeptWhole'
  <2>1. turn \in Nat
        BY DEF KeptWhole, KeptInv
  <2>2. piece \in Seq(Entries)
        BY <2>1, LinesOK, PiecesOK
  <2> QED
      BY <1>5, <2>1, <2>2, WrittenKeeps DEF KeptWhole, KeptInv
<1>6. ASSUME NEW ls \in Lines, AppendFails(ls) PROVE KeptWhole'
      BY <1>5, <1>6 DEF AppendFails
<1>7. CASE Crash
  <2>1. UNCHANGED <<kept, turn>>
        BY <1>7 DEF Crash
  <2>2. PICK ls \in Lines : \E piece \in IF pc = "append" THEN Pieces(ls) ELSE {<<>>} : Written(piece)
        BY <1>7 DEF Crash
  <2>3. turn \in Nat
        BY DEF KeptWhole, KeptInv
  <2>4. <<>> \in Pieces(ls)
    <3>1. ls \in Seq(Entries)
          BY <2>3, LinesOK
    <3>2. SubSeq(ls, 1, 0) = <<>> /\ 0 \in 0..Len(ls)
          BY <3>1
    <3> QED BY <3>2 DEF Pieces
  <2>5. PICK piece \in Pieces(ls) : Written(piece)
        BY <2>2, <2>4
  <2> QED
      BY <1>5, <2>1, <2>5
<1> QED
    BY <1>2, <1>3, <1>4, <1>6, <1>7 DEF TurnNext

\* No crash, no write that fails or is cut short, and no later turn takes an answer away
\* that was written to the conversation, and a session that is resumed is given it, as long
\* as nothing was written that load cannot take and its own text is not split
\* (ConversationKept).
THEOREM ConversationKeptCorrect == TurnSpec => []ConversationKept
<1>1. KeptWhole => ConversationKept
      BY DEF KeptWhole, KeptInv, ConversationKept, Replayed, Loadable, ReadableIn
<1>2. KeptWhole /\ [TurnNext]_turnVars => KeptWhole'
      BY KeptStep
<1>3. TurnInit => KeptWhole
      BY KeptInit DEF KeptWhole
<1> QED
    BY <1>1, <1>2, <1>3, PTL DEF TurnSpec

-----------------------------------------------------------------------------
(* Who gets a typed line (Steering).                                       *)

TypedLine == [n : Nat, for : {"none", "prompt", "answer", "steering"}, turn : Nat, late : BOOLEAN]
FedLine == [line : TypedLine, turn : Nat]

\* Who may be reading; the thread of a turn, or one that was left blocked.
Readers ==
    /\ left => reader = "thread" /\ thread \notin {"reading", "got"} /\ lateHand = NoLine
    /\ thread = "reading" => reader = "thread"
    /\ main = "composer" => thread = "none"

\* Wherever lines wait, they are in the order they were typed in, and those that are
\* further on were typed earlier, but for what a thread that was left holds or has pushed.
Rising(s) == \A i, j \in DOMAIN s : i < j => s[i].n < s[j].n
Ordered(s) == \A i, j \in DOMAIN s : i < j => Before(s[i], s[j])
Passes(l) == thread = "got" => l.n < inHand.n
Distinct(l) == lateHand # NoLine => l.n # lateHand.n
LinesInOrder ==
    /\ Ordered(queue) /\ Rising(tty)
    /\ \A i \in DOMAIN fed : /\ fed[i].line.n <= typed
                             /\ \A j \in DOMAIN queue : Before(fed[i].line, queue[j])
                             /\ \A j \in DOMAIN tty : fed[i].line.n < tty[j].n
                             /\ Passes(fed[i].line) /\ Distinct(fed[i].line)
    /\ \A i \in DOMAIN queue : /\ queue[i].n <= typed
                               /\ \A j \in DOMAIN tty : queue[i].n < tty[j].n
                               /\ Passes(queue[i]) /\ Distinct(queue[i])
    /\ \A i \in DOMAIN tty : /\ tty[i].n <= typed
                             /\ thread = "got" => inHand.n < tty[i].n
                             /\ lateHand.n < tty[i].n
    /\ inHand.n <= typed /\ lateHand.n <= typed
    /\ lateHand # NoLine => lateHand.late /\ Passes(lateHand)

\* A line that is to steer and is not fed yet was typed in the turn under way, unless it
\* waits in the queue to be drained.
Current(l) == l.for = "steering" => main # "composer" /\ l.turn = steerTurn
LinesOfTheTurn ==
    /\ \A i \in DOMAIN tty : Current(tty[i])
    /\ thread = "got" => Current(inHand)
    /\ lateHand # NoLine /\ main # "composer" => Current(lateHand)
    /\ main \notin {"composer", "starting"} => \A i \in DOMAIN queue : Current(queue[i])

SteerSeqs == tty \in Seq(TypedLine) /\ queue \in Seq(TypedLine) /\ fed \in Seq(FedLine) /\ inHand \in TypedLine
             /\ lateHand \in TypedLine

SteerInv == /\ SteerTypeOK /\ SteerSeqs /\ Readers /\ FedInOrder /\ LinesInOrder
            /\ SteersItsTurn /\ LinesOfTheTurn

LEMMA AppendApplied ==
    ASSUME NEW S, NEW s \in Seq(S), NEW x \in S
    PROVE  /\ Append(s, x) \in Seq(S) /\ DOMAIN s = 1..Len(s) /\ Len(s) \in Nat
           /\ DOMAIN Append(s, x) = 1..(Len(s) + 1)
           /\ Append(s, x)[Len(s) + 1] = x
           /\ \A i \in DOMAIN s : Append(s, x)[i] = s[i]
OBVIOUS

LEMMA TailApplied ==
    ASSUME NEW S, NEW s \in Seq(S), s # <<>>
    PROVE  /\ Tail(s) \in Seq(S) /\ Head(s) \in S /\ Head(s) = s[1] /\ Len(s) \in Nat \ {0}
           /\ DOMAIN s = 1..Len(s) /\ DOMAIN Tail(s) = 1..(Len(s) - 1)
           /\ \A i \in DOMAIN Tail(s) : Tail(s)[i] = s[i + 1] /\ i + 1 \in DOMAIN s /\ 1 \in DOMAIN s /\ 1 < i + 1
OBVIOUS

LEMMA ConcatApplied ==
    ASSUME NEW S, NEW s \in Seq(S), NEW t \in Seq(S)
    PROVE  /\ s \o t \in Seq(S) /\ DOMAIN s = 1..Len(s) /\ DOMAIN t = 1..Len(t)
           /\ Len(s) \in Nat /\ Len(t) \in Nat
           /\ DOMAIN (s \o t) = 1..(Len(s) + Len(t))
           /\ \A i \in 1..Len(s) : (s \o t)[i] = s[i]
           /\ \A i \in 1..(Len(s) + Len(t)) : i > Len(s) => i - Len(s) \in 1..Len(t) /\ (s \o t)[i] = t[i - Len(s)]
OBVIOUS

LEMMA LineNumbers ==
    ASSUME SteerSeqs
    PROVE  /\ \A i \in DOMAIN tty : tty[i].n \in Nat
           /\ \A i \in DOMAIN queue : queue[i].n \in Nat
           /\ \A i \in DOMAIN fed : fed[i].line.n \in Nat
           /\ inHand.n \in Nat /\ lateHand.n \in Nat
<1>1. /\ \A i \in DOMAIN tty : tty[i] \in TypedLine
      /\ \A i \in DOMAIN queue : queue[i] \in TypedLine
      /\ \A i \in DOMAIN fed : fed[i] \in FedLine
  BY DEF SteerSeqs
<1> QED BY <1>1 DEF SteerSeqs, FedLine, TypedLine

LEMMA SteerInvInit == SteerInit => SteerInv
<1> SUFFICES ASSUME SteerInit PROVE SteerInv
  OBVIOUS
<1>1. /\ DOMAIN fed = {} /\ DOMAIN queue = {} /\ DOMAIN tty = {}
      /\ fed \in Seq(FedLine) /\ queue \in Seq(TypedLine) /\ tty \in Seq(TypedLine)
      /\ inHand \in TypedLine /\ inHand.n = 0 /\ lateHand = NoLine /\ lateHand \in TypedLine /\ lateHand.n = 0
  BY DEF SteerInit, NoLine, TypedLine
<1>2. SteerTypeOK /\ SteerSeqs /\ Readers
  <2>1. typed \in 0..MaxLines /\ steerTurn \in 0..MaxSteered
    BY SteeringAssumption DEF SteerInit
  <2> QED BY <1>1, <2>1, Zenon DEF SteerInit, SteerTypeOK, SteerSeqs, Readers
<1>3. FedInOrder /\ LinesInOrder /\ SteersItsTurn /\ LinesOfTheTurn
  BY <1>1 DEF SteerInit, FedInOrder, LinesInOrder, Rising, Ordered, Passes, Distinct, Before, SteersItsTurn, LinesOfTheTurn
<1> QED BY <1>2, <1>3 DEF SteerInv

LEMMA TypeStep == SteerInv /\ Type => SteerInv'
<1> SUFFICES ASSUME SteerInv, Type PROVE SteerInv'
  OBVIOUS
<1> DEFINE for == CASE main = "composer" -> "prompt" [] main = "answering" -> "answer" [] OTHER -> "steering"
           l == [n |-> typed + 1, for |-> for, turn |-> steerTurn, late |-> FALSE]
<1>1. /\ for \in {"prompt", "answer", "steering"} /\ (for = "steering" => main # "composer")
      /\ l \in TypedLine /\ l.n = typed + 1 /\ l.for = for /\ l.turn = steerTurn
  BY DEF SteerInv, SteerTypeOK, TypedLine
<1>2. /\ tty' = Append(tty, l) /\ typed' = typed + 1 /\ typed' \in 0..MaxLines
      /\ UNCHANGED <<main, thread, left, reader, paused, stop, inHand, lateHand, queue, steerTurn, fed, answers>>
  <2>1. tty' = Append(tty, l) /\ typed < MaxLines /\ typed' = typed + 1
    BY Zenon DEF Type
  <2>2. typed' \in 0..MaxLines
    BY <2>1, SteeringAssumption DEF SteerInv, SteerTypeOK
  <2> QED BY <2>1, <2>2 DEF Type
<1> HIDE DEF l
<1>3. /\ tty' \in Seq(TypedLine) /\ DOMAIN tty = 1..Len(tty) /\ Len(tty) \in Nat
      /\ DOMAIN tty' = 1..(Len(tty) + 1) /\ tty'[Len(tty) + 1] = l /\ \A i \in DOMAIN tty : tty'[i] = tty[i]
  BY <1>1, <1>2, AppendApplied DEF SteerInv, SteerSeqs
<1>4. /\ \A i \in DOMAIN tty : tty[i] \in TypedLine
      /\ \A i \in DOMAIN queue : queue[i] \in TypedLine
      /\ \A i \in DOMAIN fed : fed[i].line \in TypedLine
  <2>1. \A i \in DOMAIN fed : fed[i] \in FedLine
    BY DEF SteerInv, SteerSeqs
  <2> QED BY <2>1 DEF SteerInv, SteerSeqs, FedLine
<1>5. LinesInOrder'
  <2>1. \A i \in DOMAIN tty' : \/ i \in DOMAIN tty /\ tty'[i] = tty[i]
                               \/ i = Len(tty) + 1 /\ tty'[i].n = typed + 1
    BY <1>1, <1>3
  <2>2. Rising(tty)'
    <3> SUFFICES ASSUME NEW i \in DOMAIN tty', NEW j \in DOMAIN tty', i < j PROVE tty'[i].n < tty'[j].n
      BY DEF Rising
    <3>1. i \in DOMAIN tty /\ tty'[i] = tty[i]
      BY <1>3
    <3>2. tty[i].n \in Nat /\ tty[i].n <= typed /\ typed \in Nat
      BY <3>1, <1>4 DEF SteerInv, SteerTypeOK, LinesInOrder, TypedLine
    <3> QED BY <2>1, <3>1, <3>2 DEF SteerInv, LinesInOrder, Rising, Ordered, Passes, Distinct, Before
  <2>3. /\ typed \in Nat /\ inHand.n \in Nat
        /\ \A i \in DOMAIN tty : tty[i].n \in Nat
        /\ \A i \in DOMAIN queue : queue[i].n \in Nat
        /\ \A i \in DOMAIN fed : fed[i].line.n \in Nat
        /\ lateHand.n \in Nat
    BY <1>4 DEF SteerInv, SteerTypeOK, SteerSeqs, TypedLine
  <2>4. /\ Ordered(queue)'
        /\ \A i \in DOMAIN queue' : Passes(queue[i])' /\ Distinct(queue[i])'
        /\ \A i \in DOMAIN fed' : Passes(fed[i].line)' /\ Distinct(fed[i].line)'
        /\ \A i \in DOMAIN fed' : \A j \in DOMAIN queue' : Before(fed[i].line, queue[j])'
        /\ (lateHand # NoLine => lateHand.late /\ Passes(lateHand))'
    BY <1>2 DEF SteerInv, LinesInOrder, Ordered, Passes, Distinct, Before
  <2>5. \A i \in DOMAIN tty' : /\ tty'[i].n <= typed'
                               /\ thread' = "got" => inHand'.n < tty'[i].n
                               /\ lateHand'.n < tty'[i].n
                               /\ \A j \in DOMAIN queue' : queue'[j].n < tty'[i].n
                               /\ \A j \in DOMAIN fed' : fed'[j].line.n < tty'[i].n
    BY <1>2, <2>1, <2>3 DEF SteerInv, LinesInOrder
  <2> QED BY <1>2, <2>2, <2>3, <2>4, <2>5 DEF SteerInv, LinesInOrder
<1>6. LinesOfTheTurn'
  BY <1>1, <1>2, <1>3 DEF SteerInv, LinesOfTheTurn, Current
<1> QED BY <1>2, <1>3, <1>5, <1>6 DEF SteerInv, SteerTypeOK, SteerSeqs, Readers, FedInOrder, SteersItsTurn

\* What is true of a line when the first of them has been taken away.
LEMMA TtyTail ==
    ASSUME SteerInv, tty # <<>>, tty' = Tail(tty)
    PROVE  /\ tty' \in Seq(TypedLine) /\ Head(tty) \in TypedLine /\ Head(tty) = tty[1] /\ 1 \in DOMAIN tty
           /\ \A i \in DOMAIN tty' : /\ i \in Nat /\ tty'[i] = tty[i + 1] /\ i + 1 \in DOMAIN tty
                                     /\ Head(tty).n < tty'[i].n
           /\ Rising(tty)'
<1>1. /\ tty' \in Seq(TypedLine) /\ Head(tty) \in TypedLine /\ Head(tty) = tty[1] /\ Len(tty) \in Nat \ {0}
      /\ DOMAIN tty = 1..Len(tty) /\ DOMAIN tty' = 1..(Len(tty) - 1)
      /\ \A i \in DOMAIN tty' : tty'[i] = tty[i + 1] /\ i + 1 \in DOMAIN tty /\ 1 \in DOMAIN tty /\ 1 < i + 1
  BY TailApplied DEF SteerInv, SteerSeqs
<1>2. Rising(tty)
  BY DEF SteerInv, LinesInOrder
<1> QED BY <1>1, <1>2 DEF Rising

LEMMA StartTurnStep == SteerInv /\ StartTurn => SteerInv'
<1> SUFFICES ASSUME SteerInv, StartTurn PROVE SteerInv'
  OBVIOUS
<1>1. /\ tty' \in Seq(TypedLine) /\ Rising(tty)'
      /\ \A i \in DOMAIN tty' : tty'[i] = tty[i + 1] /\ i + 1 \in DOMAIN tty
  BY TtyTail DEF StartTurn
<1>2. LinesInOrder'
  BY <1>1 DEF SteerInv, StartTurn, LinesInOrder, Rising, Ordered, Passes, Distinct, Before
<1>3. LinesOfTheTurn'
  BY <1>1 DEF SteerInv, StartTurn, LinesOfTheTurn, Current
<1>4. SteerTypeOK' /\ SteerSeqs' /\ Readers'
  <2>1. steerTurn' \in 0..MaxSteered
    BY SteeringAssumption DEF SteerInv, StartTurn, SteerTypeOK
  <2> QED BY <1>1, <2>1 DEF SteerInv, StartTurn, SteerTypeOK, SteerSeqs, Readers
<1> QED BY <1>2, <1>3, <1>4 DEF SteerInv, StartTurn, FedInOrder, SteersItsTurn

LEMMA DrainStaleStep == SteerInv /\ DrainStale => SteerInv'
BY DEF SteerInv, DrainStale, SteerTypeOK, SteerSeqs, Readers, FedInOrder, LinesInOrder, Rising, Ordered, Passes, Distinct, Before,
       SteersItsTurn, LinesOfTheTurn, Current

LEMMA RoundStep == SteerInv /\ Round => SteerInv'
<1> SUFFICES ASSUME SteerInv, Round PROVE SteerInv'
  OBVIOUS
<1> DEFINE new == [i \in DOMAIN queue |-> [line |-> queue[i], turn |-> steerTurn]]
<1>1. /\ queue \in Seq(TypedLine) /\ fed \in Seq(FedLine) /\ DOMAIN queue = 1..Len(queue) /\ Len(queue) \in Nat
      /\ \A i \in DOMAIN queue : queue[i] \in TypedLine
      /\ steerTurn \in Nat
  BY SteeringAssumption DEF SteerInv, SteerSeqs, SteerTypeOK
<1>2. new \in Seq(FedLine) /\ Len(new) = Len(queue) /\ \A i \in DOMAIN queue : new[i].line = queue[i] /\ new[i].turn = steerTurn
  BY <1>1 DEF FedLine
<1>3. /\ fed' = fed \o new /\ queue' = <<>> /\ main = "turn"
      /\ UNCHANGED <<main, thread, left, reader, paused, stop, tty, inHand, lateHand, typed, steerTurn, answers>>
  BY DEF Round
<1> HIDE DEF new
<1>4. /\ fed' \in Seq(FedLine) /\ DOMAIN fed = 1..Len(fed) /\ Len(fed) \in Nat
      /\ DOMAIN fed' = 1..(Len(fed) + Len(queue))
      /\ \A i \in 1..Len(fed) : fed'[i] = fed[i]
      /\ \A i \in 1..(Len(fed) + Len(queue)) : i > Len(fed) =>
            i - Len(fed) \in DOMAIN queue /\ fed'[i].line = queue[i - Len(fed)] /\ fed'[i].turn = steerTurn
  <2>1. /\ fed \o new \in Seq(FedLine) /\ DOMAIN fed = 1..Len(fed) /\ Len(fed) \in Nat
        /\ DOMAIN (fed \o new) = 1..(Len(fed) + Len(new))
        /\ \A i \in 1..Len(fed) : (fed \o new)[i] = fed[i]
        /\ \A i \in 1..(Len(fed) + Len(new)) : i > Len(fed) =>
              i - Len(fed) \in 1..Len(new) /\ (fed \o new)[i] = new[i - Len(fed)]
    <3>1. fed \in Seq(FedLine) /\ new \in Seq(FedLine)
      BY <1>1, <1>2
    <3> QED BY <3>1, ConcatApplied
  <2>2. \A i \in 1..(Len(fed) + Len(queue)) : i > Len(fed) =>
            i - Len(fed) \in DOMAIN queue /\ fed'[i] = new[i - Len(fed)]
    BY <1>1, <1>2, <1>3, <2>1
  <2> QED BY <1>1, <1>2, <1>3, <2>1, <2>2
<1>5. FedInOrder'
  <2> SUFFICES ASSUME NEW i \in DOMAIN fed', NEW j \in DOMAIN fed', i < j
               PROVE  Before(fed'[i].line, fed'[j].line)
    BY DEF FedInOrder
  <2>1. i \in Nat /\ j \in Nat
    BY <1>4
  <2>2. CASE j <= Len(fed)
    BY <2>1, <2>2, <1>4 DEF SteerInv, FedInOrder
  <2>3. CASE i <= Len(fed) /\ j > Len(fed)
    BY <2>1, <2>3, <1>4 DEF SteerInv, LinesInOrder
  <2>4. CASE i > Len(fed)
    <3>1. /\ j > Len(fed) /\ i - Len(fed) \in DOMAIN queue /\ j - Len(fed) \in DOMAIN queue
          /\ i - Len(fed) < j - Len(fed)
      BY <2>1, <2>4, <1>4
    <3>2. Before(queue[i - Len(fed)], queue[j - Len(fed)])
      BY <3>1 DEF SteerInv, LinesInOrder, Rising, Ordered, Passes, Distinct, Before
    <3>3. fed'[i].line = queue[i - Len(fed)] /\ fed'[j].line = queue[j - Len(fed)]
      BY <3>1, <2>4, <1>4
    <3> QED BY <3>2, <3>3
  <2> QED BY <2>1, <2>2, <2>3, <2>4, <1>4
<1>6. \A i \in DOMAIN fed' : \/ i \in DOMAIN fed /\ fed'[i] = fed[i]
                             \/ \E j \in DOMAIN queue : fed'[i].line = queue[j] /\ fed'[i].turn = steerTurn
  BY <1>4
<1>7. LinesInOrder'
  BY <1>3, <1>6 DEF SteerInv, LinesInOrder, Rising, Ordered, Passes, Distinct, Before
<1>8. SteersItsTurn' /\ LinesOfTheTurn'
  BY <1>3, <1>6 DEF SteerInv, SteersItsTurn, LinesOfTheTurn, Current
<1> QED BY <1>3, <1>4, <1>5, <1>7, <1>8 DEF SteerInv, SteerTypeOK, SteerSeqs, Readers

\* Steps that leave all lines where they are.
LEMMA StillSteps ==
    ASSUME SteerInv, Ask \/ Question \/ ReadAnswer \/ EndTurn \/ Polls \/ Checks \/ Reads
    PROVE  SteerInv'
<1>1. UNCHANGED <<tty, queue, fed, inHand, lateHand, typed, steerTurn, left>> /\ (main' = "composer" <=> main = "composer")
  BY DEF Ask, Question, ReadAnswer, EndTurn, Polls, Checks, Reads, Unchanged
<1>2. /\ (thread' = "got" <=> thread = "got")
      /\ (main' \in {"composer", "starting"} <=> main \in {"composer", "starting"})
  BY DEF Ask, Question, ReadAnswer, EndTurn, Polls, Checks, Reads, Unchanged
<1>3. SteerTypeOK'
  BY DEF SteerInv, SteerTypeOK, Ask, Question, ReadAnswer, EndTurn, Polls, Checks, Reads, Unchanged, NoOne
<1>4. Readers'
  BY DEF SteerInv, SteerTypeOK, Readers, Ask, Question, ReadAnswer, EndTurn, Polls, Checks, Reads, Unchanged, NoOne
<1>5. LinesInOrder' /\ LinesOfTheTurn'
  BY <1>1, <1>2 DEF SteerInv, LinesInOrder, Rising, Ordered, Passes, Distinct, Before, LinesOfTheTurn, Current
<1> QED BY <1>1, <1>3, <1>4, <1>5 DEF SteerInv, SteerSeqs, FedInOrder, SteersItsTurn

LEMMA AnsweredStep == SteerInv /\ Answered => SteerInv'
<1> SUFFICES ASSUME SteerInv, Answered PROVE SteerInv'
  OBVIOUS
<1>1. /\ tty' \in Seq(TypedLine) /\ Rising(tty)'
      /\ \A i \in DOMAIN tty' : tty'[i] = tty[i + 1] /\ i + 1 \in DOMAIN tty
  BY TtyTail DEF Answered
<1>2. LinesInOrder'
  BY <1>1 DEF SteerInv, Answered, LinesInOrder, Rising, Ordered, Passes, Distinct, Before
<1>3. LinesOfTheTurn'
  BY <1>1 DEF SteerInv, Answered, LinesOfTheTurn, Current
<1>4. SteerTypeOK' /\ SteerSeqs' /\ Readers'
  BY <1>1 DEF SteerInv, Answered, SteerTypeOK, SteerSeqs, Readers, NoOne
<1> QED BY <1>2, <1>3, <1>4 DEF SteerInv, Answered, FedInOrder, SteersItsTurn

LEMMA JoinedStep == SteerInv /\ Joined => SteerInv'
BY DEF SteerInv, Joined, SteerTypeOK, SteerSeqs, Readers, FedInOrder, LinesInOrder, Rising, Ordered, Passes, Distinct, Before,
       SteersItsTurn, LinesOfTheTurn, Current

LEMMA GetsStep == SteerInv /\ Gets => SteerInv'
<1> SUFFICES ASSUME SteerInv, Gets PROVE SteerInv'
  OBVIOUS
<1>1. /\ tty' \in Seq(TypedLine) /\ Rising(tty)' /\ Head(tty) \in TypedLine /\ Head(tty) = tty[1] /\ 1 \in DOMAIN tty
      /\ \A i \in DOMAIN tty' : tty'[i] = tty[i + 1] /\ i + 1 \in DOMAIN tty /\ Head(tty).n < tty'[i].n
  BY TtyTail DEF Gets
<1>2. LinesInOrder'
  BY <1>1 DEF SteerInv, Gets, Unchanged, LinesInOrder, Rising, Ordered, Passes, Distinct, Before
<1>3. LinesOfTheTurn'
  BY <1>1 DEF SteerInv, Gets, Unchanged, LinesOfTheTurn, Current
<1>4. SteerTypeOK' /\ SteerSeqs' /\ Readers'
  BY <1>1 DEF SteerInv, Gets, Unchanged, SteerTypeOK, SteerSeqs, Readers, NoOne
<1> QED BY <1>2, <1>3, <1>4 DEF SteerInv, Gets, Unchanged, FedInOrder, SteersItsTurn

LEMMA PushesStep == SteerInv /\ Pushes => SteerInv'
<1> SUFFICES ASSUME SteerInv, Pushes PROVE SteerInv'
  OBVIOUS
<1>1. /\ queue' = Append(queue, inHand) /\ thread = "got" /\ thread' = "poll" /\ inHand' = NoLine
      /\ UNCHANGED <<main, left, lateHand, paused, stop, typed, steerTurn, fed, answers, reader, tty>>
  BY DEF Pushes, Unchanged
<1>2. /\ queue' \in Seq(TypedLine) /\ DOMAIN queue = 1..Len(queue) /\ Len(queue) \in Nat
      /\ DOMAIN queue' = 1..(Len(queue) + 1) /\ queue'[Len(queue) + 1] = inHand
      /\ \A i \in DOMAIN queue : queue'[i] = queue[i]
  BY <1>1, AppendApplied DEF SteerInv, SteerSeqs
<1>3. LinesInOrder'
  <2>1. /\ \A i \in DOMAIN queue : Before(queue[i], inHand)
        /\ \A i \in DOMAIN fed : Before(fed[i].line, inHand)
    <3>1. /\ \A i \in DOMAIN queue : queue[i].n \in Nat /\ queue[i].n < inHand.n
          /\ \A i \in DOMAIN fed : fed[i].line.n \in Nat /\ fed[i].line.n < inHand.n
          /\ inHand.n \in Nat
      BY <1>1, LineNumbers DEF SteerInv, LinesInOrder, Passes
    <3> QED BY <3>1 DEF Before
  <2>2. Ordered(queue)'
    BY <1>2, <2>1 DEF SteerInv, LinesInOrder, Ordered
  <2>3. \A i \in DOMAIN queue' : \/ i \in DOMAIN queue /\ queue'[i] = queue[i]
                                 \/ queue'[i] = inHand
    BY <1>2
  <2>4. Distinct(inHand) /\ typed \in Nat /\ inHand'.n <= typed
    <3>1. lateHand # NoLine => lateHand.n < inHand.n /\ lateHand.n \in Nat /\ inHand.n \in Nat
      BY <1>1, LineNumbers DEF SteerInv, LinesInOrder, Passes
    <3> QED BY <1>1, <3>1 DEF Distinct, SteerInv, SteerTypeOK, NoLine
  <2> QED BY <1>1, <2>1, <2>2, <2>3, <2>4 DEF SteerInv, LinesInOrder, Passes, Distinct, Rising
<1>4. LinesOfTheTurn'
  BY <1>1, <1>2 DEF SteerInv, LinesOfTheTurn, Current
<1>5. SteerTypeOK' /\ SteerSeqs' /\ Readers'
  BY <1>1, <1>2 DEF SteerInv, SteerTypeOK, SteerSeqs, Readers, NoLine, TypedLine
<1> QED BY <1>1, <1>3, <1>4, <1>5 DEF SteerInv, FedInOrder, SteersItsTurn

LEMMA LeftGetsStep == SteerInv /\ LeftGets => SteerInv'
<1> SUFFICES ASSUME SteerInv, LeftGets PROVE SteerInv'
  OBVIOUS
<1> DEFINE l == [Head(tty) EXCEPT !.late = TRUE]
<1>1. /\ lateHand' = l /\ tty # <<>> /\ tty' = Tail(tty) /\ left' = FALSE /\ reader' = NoOne
      /\ thread \notin {"reading", "got"} /\ lateHand = NoLine
      /\ UNCHANGED <<main, thread, paused, stop, inHand, queue, typed, steerTurn, fed, answers>>
  BY DEF LeftGets, SteerInv, Readers
<1>2. /\ tty' \in Seq(TypedLine) /\ Rising(tty)' /\ Head(tty) \in TypedLine /\ Head(tty) = tty[1] /\ 1 \in DOMAIN tty
      /\ \A i \in DOMAIN tty' : tty'[i] = tty[i + 1] /\ i + 1 \in DOMAIN tty /\ Head(tty).n < tty'[i].n
  BY <1>1, TtyTail
<1>3. l \in TypedLine /\ l.n = tty[1].n /\ l.for = tty[1].for /\ l.turn = tty[1].turn /\ l.late
  BY <1>2 DEF TypedLine
<1> HIDE DEF l
<1>4. LinesInOrder'
  <2>1. \A i \in DOMAIN queue : queue[i].n < l.n
    BY <1>2, <1>3 DEF SteerInv, LinesInOrder
  <2>2. \A i \in DOMAIN fed : fed[i].line.n < l.n
    BY <1>2, <1>3 DEF SteerInv, LinesInOrder
  <2>3. /\ \A i \in DOMAIN queue : queue[i].n \in Nat
        /\ \A i \in DOMAIN fed : fed[i].line.n \in Nat
        /\ l.n \in Nat
    BY <1>3, LineNumbers DEF SteerInv, TypedLine
  <2>4. l.n <= typed /\ \A i \in DOMAIN tty' : l.n < tty'[i].n /\ tty'[i].n <= typed
    BY <1>2, <1>3 DEF SteerInv, LinesInOrder
  <2>5. /\ \A i \in DOMAIN queue : queue[i].n # l.n
        /\ \A i \in DOMAIN fed : fed[i].line.n # l.n
    BY <2>1, <2>2, <2>3
  <2> QED BY <1>1, <1>2, <1>3, <2>4, <2>5 DEF SteerInv, LinesInOrder, Ordered, Passes, Distinct, Before
<1>5. LinesOfTheTurn'
  BY <1>1, <1>2, <1>3 DEF SteerInv, LinesOfTheTurn, Current
<1>6. SteerTypeOK' /\ SteerSeqs' /\ Readers'
  BY <1>1, <1>2, <1>3 DEF SteerInv, SteerTypeOK, SteerSeqs, Readers, NoOne
<1> QED BY <1>1, <1>4, <1>5, <1>6 DEF SteerInv, FedInOrder, SteersItsTurn

LEMMA LeftPushesStep == SteerInv /\ LeftPushes => SteerInv'
<1> SUFFICES ASSUME SteerInv, LeftPushes PROVE SteerInv'
  OBVIOUS
<1>1. /\ queue' = Append(queue, lateHand) /\ lateHand # NoLine /\ lateHand' = NoLine
      /\ UNCHANGED <<main, thread, left, reader, paused, stop, tty, inHand, typed, steerTurn, fed, answers>>
  BY DEF LeftPushes
<1>2. /\ queue' \in Seq(TypedLine) /\ DOMAIN queue = 1..Len(queue) /\ Len(queue) \in Nat
      /\ DOMAIN queue' = 1..(Len(queue) + 1) /\ queue'[Len(queue) + 1] = lateHand
      /\ \A i \in DOMAIN queue : queue'[i] = queue[i]
  BY <1>1, AppendApplied DEF SteerInv, SteerSeqs
<1>3. LinesInOrder'
  <2>1. /\ \A i \in DOMAIN queue : Before(queue[i], lateHand)
        /\ \A i \in DOMAIN fed : Before(fed[i].line, lateHand)
    BY <1>1 DEF SteerInv, LinesInOrder, Before, Distinct
  <2>2. Ordered(queue)'
    BY <1>2, <2>1 DEF SteerInv, LinesInOrder, Ordered
  <2>3. \A i \in DOMAIN queue' : \/ i \in DOMAIN queue /\ queue'[i] = queue[i]
                                 \/ queue'[i] = lateHand
    BY <1>2
  <2>4. lateHand'.n = 0 /\ typed \in Nat /\ \A i \in DOMAIN tty : tty[i].n > 0
    BY <1>1, LineNumbers DEF SteerInv, SteerTypeOK, LinesInOrder, NoLine
  <2> QED BY <1>1, <2>1, <2>2, <2>3, <2>4 DEF SteerInv, LinesInOrder, Passes, Distinct, Rising
<1>4. LinesOfTheTurn'
  BY <1>1, <1>2 DEF SteerInv, LinesOfTheTurn, Current
<1>5. SteerTypeOK' /\ SteerSeqs' /\ Readers'
  BY <1>1, <1>2 DEF SteerInv, SteerTypeOK, SteerSeqs, Readers, NoLine, TypedLine
<1> QED BY <1>1, <1>3, <1>4, <1>5 DEF SteerInv, FedInOrder, SteersItsTurn

LEMMA SteerStep == SteerInv /\ [SteerNext]_steerVars => SteerInv'
<1> SUFFICES ASSUME SteerInv, [SteerNext]_steerVars PROVE SteerInv'
  OBVIOUS
<1>1. CASE UNCHANGED steerVars
  BY <1>1 DEF steerVars, SteerInv, SteerTypeOK, SteerSeqs, Readers, FedInOrder, LinesInOrder, Rising, Ordered, Passes, Distinct, Before,
              SteersItsTurn, LinesOfTheTurn, Current
<1>2. CASE SteerNext
  BY <1>2, TypeStep, StartTurnStep, DrainStaleStep, RoundStep, StillSteps, AnsweredStep, JoinedStep, GetsStep,
     PushesStep, LeftGetsStep, LeftPushesStep, Zenon DEF SteerNext
<1> QED BY <1>1, <1>2

LEMMA SteerInvariant == SteerSpec => []SteerInv
<1>1. SteerInv /\ [SteerNext]_steerVars => SteerInv'
  BY SteerStep
<1> QED BY <1>1, SteerInvInit, PTL DEF SteerSpec

\* The model is given no message twice, and the messages in the order they were typed in,
\* for any number of turns, lines and approvals, whichever threads are left blocked: only a
\* line that the thread of an earlier turn has read may come after newer ones (FedInOrder).
THEOREM FedInOrderCorrect == SteerSpec => []FedInOrder
<1>1. SteerInv => FedInOrder
  BY DEF SteerInv
<1> QED BY <1>1, SteerInvariant, PTL

\* A message steers the turn it was typed into and no later one (SteersItsTurn).
THEOREM SteersItsTurnCorrect == SteerSpec => []SteersItsTurn
<1>1. SteerInv => SteersItsTurn
  BY DEF SteerInv
<1> QED BY <1>1, SteerInvariant, PTL

-----------------------------------------------------------------------------
(* What an edit does to the guards of a tool call (ToolGuards).            *)

Sigs == {"read_file", "search_files", "run_tests", "write_file", "delete_path", "apply_edits", "patch_file"}
        \X (Files \cup {NoFile})
Reasons == {"", "not_found", "CommandFailed", "refused", "patch_not_found", "patch_ambiguous", "safe_noop"}
Disks == [Files -> Nat]
Results == [ok : BOOLEAN, why : Reasons, touched : SUBSET Files, shows : Disks, after : Disks]

GuardSets ==
    /\ disk \in Disks /\ edits \in Nat /\ \A f \in Files : disk[f] <= edits
    /\ DOMAIN cache \subseteq {c \in Calls : c.tool \in ObservationTools}
    /\ batch \in Seq(Calls) /\ prefetched \in Seq(Results)
    /\ window \in Seq(Sigs) /\ seen \in Seq(Sigs \X BOOLEAN \X Reasons)
    /\ due \subseteq Calls

\* What the guards rely on in the answer of a tool to a call.
RepliesTo(c, r) ==
    /\ r \in Results /\ r.shows = disk
    /\ c.tool \in ReadOnlyTools => r.after = disk /\ r.touched = {}
    /\ r.touched = {} => r.after = disk
    /\ r.touched # {} =>
          /\ r.touched = {c.file} /\ c.file \in Files /\ r.ok
          /\ c.tool \in MutationTools \cup {"apply_edits"}
          /\ r.after = [disk EXCEPT ![c.file] = r.after[c.file]]
          /\ r.after[c.file] \in {0, edits + 1}
    /\ c.tool \in {"write_file", "patch_file"} /\ r.ok => r.touched # {}
    /\ r.why \in {"patch_ambiguous", "patch_not_found"} => c.tool = "patch_file" /\ ~r.ok

\* Results that were fetched ahead are those that the calls would have now.
FetchedIsCurrent ==
    prefetched # <<>> =>
        /\ Len(prefetched) = Len(batch)
        /\ \A i \in DOMAIN batch :
              /\ batch[i].tool \in ReadOnlyTools
              /\ prefetched[i].shows = disk /\ prefetched[i].after = disk /\ prefetched[i].touched = {}
              /\ prefetched[i].why \notin {"patch_ambiguous", "patch_not_found"}

\* None of the guards remembers a call that is due, but for patches that succeeded.
Forgotten(c) ==
    /\ c.tool \in ReadOnlyTools \cup {"patch_file"}
    /\ c \notin DOMAIN cache /\ c \notin DOMAIN budget /\ ~NeedsStrategy(c)
    /\ \A i \in DOMAIN window : window[i] # Signature(c)
    /\ \A i \in DOMAIN seen : seen[i][1] = Signature(c) => c.tool = "patch_file" /\ seen[i][2] = TRUE

DueIsForgotten == \A c \in due : Forgotten(c)

GuardInv == GuardSets /\ FetchedIsCurrent /\ CacheIsCurrent /\ DueIsForgotten

\* Calls and their parts.
LEMMA CallParts ==
    ASSUME NEW c \in Calls
    PROVE  /\ Signature(c) \in Sigs /\ Signature(c) = <<c.tool, c.file>>
           /\ c.file \in Files \cup {NoFile}
           /\ c.tool \in {"read_file", "search_files", "run_tests", "write_file", "delete_path", "apply_edits", "patch_file"}
           /\ c.tool \notin {"search_files", "run_tests"} => c.file \in Files
           /\ c.tool = "search_files" => c.file = NoFile
BY DEF Calls, Call, Read, Search, Tests, Sigs, Signature

LEMMA SameSignature ==
    ASSUME NEW c \in Calls, NEW d \in Calls, Signature(c) = Signature(d)
    PROVE  c.tool = d.tool /\ c.file = d.file
BY DEF Signature

LEMMA CallsMade ==
    /\ Search \in Calls /\ Tests \in Calls
    /\ \A f \in Files : Read(f) \in Calls
    /\ \A f \in Files, x \in Texts : Call("patch_file", f, x) \in Calls
BY DEF Calls

\* What an edit answers is a result.
LEMMA EditedFits ==
    ASSUME GuardSets, NEW f \in Files, NEW v \in Nat
    PROVE  Edited(f, v) \in Results
<1>1. disk \in [Files -> Nat]
  BY DEF GuardSets, Disks
<1>2. [disk EXCEPT ![f] = v] \in Disks /\ disk \in Disks
  BY <1>1 DEF Disks
<1>3. TRUE \in BOOLEAN /\ "" \in Reasons /\ {f} \in SUBSET Files
  BY DEF Reasons
<1> QED BY <1>2, <1>3 DEF Edited, Result, Results

\* What a tool may answer.
LEMMA OutcomeParts ==
    ASSUME GuardSets, NEW c \in Calls, NEW r \in Outcomes(c)
    PROVE  RepliesTo(c, r)
<1> USE DEF RepliesTo
<1> USE DEF ReadOnlyTools, ObservationTools, MutationTools
<1>a. c.file \in Files \cup {NoFile} /\ (c.tool \notin {"search_files", "run_tests"} => c.file \in Files)
  BY CallParts
<1>b. disk \in [Files -> Nat] /\ edits \in Nat
  BY DEF GuardSets, Disks
<1>g. /\ disk \in Disks /\ {} \in SUBSET Files /\ \A f \in Files : {f} \in SUBSET Files
      /\ TRUE \in BOOLEAN /\ FALSE \in BOOLEAN /\ "" \in Reasons /\ "safe_noop" \in Reasons
  BY <1>b DEF Disks, Reasons
<1>c. /\ Looked \in Results /\ Looked.ok = TRUE /\ Looked.why = ""
      /\ Looked.touched = {} /\ Looked.shows = disk /\ Looked.after = disk
  BY <1>g DEF Looked, Result, Results
<1>d. ASSUME NEW w \in Reasons
      PROVE  /\ Failed(w) \in Results /\ Failed(w).ok = FALSE /\ Failed(w).why = w
             /\ Failed(w).touched = {} /\ Failed(w).shows = disk /\ Failed(w).after = disk
  BY <1>g DEF Failed, Result, Results
<1>f. LET n == Result(TRUE, "safe_noop", {}, disk)
      IN /\ n \in Results /\ n.ok = TRUE /\ n.why = "safe_noop"
         /\ n.touched = {} /\ n.shows = disk /\ n.after = disk
  BY <1>g DEF Result, Results
<1>1. CASE c.tool = "read_file"
  <2>1. r \in {Failed("not_found"), Looked} /\ "not_found" \in Reasons
    BY <1>1 DEF Outcomes, Reasons
  <2> QED BY <1>1, <1>c, <1>d, <2>1
<1>2. CASE c.tool = "search_files"
  <2>1. r = Looked
    BY <1>2 DEF Outcomes
  <2> QED BY <1>2, <1>c, <2>1
<1>3. CASE c.tool = "run_tests"
  <2>1. r \in {Looked, Failed("CommandFailed")} /\ "CommandFailed" \in Reasons
    BY <1>3 DEF Outcomes, Reasons
  <2> QED BY <1>3, <1>c, <1>d, <2>1
<1>h. ASSUME NEW v \in {0, edits + 1}, c.tool \notin ReadOnlyTools, r = Edited(c.file, v),
             c.tool \in MutationTools \cup {"apply_edits"}
      PROVE  /\ r \in Results /\ r.shows = disk /\ r.ok = TRUE /\ r.why = "" /\ r.touched = {c.file}
             /\ r.touched # {} /\ c.file \in Files
             /\ r.after = [disk EXCEPT ![c.file] = r.after[c.file]] /\ r.after[c.file] \in {0, edits + 1}
  <2>1. c.file \in Files /\ v \in Nat
    BY <1>h, <1>a, <1>b
  <2>2. Edited(c.file, v) \in Results /\ Edited(c.file, v).ok = TRUE /\ Edited(c.file, v).why = ""
    BY <2>1, EditedFits DEF Edited, Result
  <2>3. Edited(c.file, v).touched = {c.file} /\ Edited(c.file, v).shows = disk
    BY DEF Edited, Result
  <2>4. Edited(c.file, v).after = [disk EXCEPT ![c.file] = v]
    BY DEF Edited, Result
  <2>5. Edited(c.file, v).after[c.file] = v
    BY <2>1, <2>4, <1>b
  <2>6. r = Edited(c.file, v)
    BY <1>h
  <2>7. r \in Results /\ r.ok = TRUE /\ r.why = "" /\ r.touched = {c.file} /\ r.shows = disk
    BY <2>2, <2>3, <2>6, Zenon
  <2>8. r.after = [disk EXCEPT ![c.file] = v] /\ r.after[c.file] = v
    BY <2>4, <2>5, <2>6, Zenon
  <2> QED BY <1>h, <2>1, <2>7, <2>8
<1>i. ASSUME NEW w \in Reasons, r = Failed(w)
      PROVE  /\ r \in Results /\ r.shows = disk /\ r.ok = FALSE /\ r.touched = {} /\ r.after = disk
             /\ r.why = w
  BY <1>i, <1>d
<1>4. CASE c.tool \in {"write_file", "apply_edits"}
  <2>1. r = Failed("refused") \/ r = Edited(c.file, edits + 1)
    BY <1>4 DEF Outcomes
  <2>2. "refused" \in Reasons /\ c.tool \notin ReadOnlyTools /\ c.tool \in MutationTools \cup {"apply_edits"}
    BY <1>4 DEF Reasons
  <2>3. CASE r = Failed("refused")
    <3> HIDE DEF ReadOnlyTools, MutationTools
    <3> QED BY <1>i, <2>2, <2>3
  <2>4. CASE r = Edited(c.file, edits + 1)
    <3> HIDE DEF ReadOnlyTools, MutationTools
    <3> QED BY <1>h, <2>2, <2>4
  <2> QED BY <2>1, <2>3, <2>4
<1>5. CASE c.tool = "patch_file"
  <2>1. \/ r = Failed("refused") \/ r = Failed("patch_not_found") \/ r = Failed("patch_ambiguous")
        \/ r = Edited(c.file, edits + 1)
    <3>1. r \in {Failed(w) : w \in {"refused", "patch_not_found", "patch_ambiguous"}}
                \cup {Edited(f, edits + 1) : f \in {c.file} \ {g \in Files : disk[g] = 0}}
      BY <1>5 DEF Outcomes
    <3> QED BY <3>1
  <2>2. /\ "refused" \in Reasons /\ "patch_not_found" \in Reasons /\ "patch_ambiguous" \in Reasons
        /\ c.tool \notin ReadOnlyTools /\ c.tool \in MutationTools \cup {"apply_edits"}
    BY <1>5 DEF Reasons
  <2>3. CASE r = Failed("refused")
    <3> HIDE DEF ReadOnlyTools, MutationTools
    <3> QED BY <1>i, <2>2, <2>3
  <2>4. CASE r = Edited(c.file, edits + 1)
    <3> HIDE DEF ReadOnlyTools, MutationTools
    <3> QED BY <1>h, <2>2, <2>4
  <2>5. CASE r = Failed("patch_not_found")
    <3> HIDE DEF ReadOnlyTools, MutationTools
    <3> QED BY <1>5, <1>i, <2>2, <2>5
  <2>6. CASE r = Failed("patch_ambiguous")
    <3> HIDE DEF ReadOnlyTools, MutationTools
    <3> QED BY <1>5, <1>i, <2>2, <2>6
  <2> QED BY <2>1, <2>3, <2>4, <2>5, <2>6
<1>6. CASE c.tool = "delete_path"
  <2>1. r = Failed("refused") \/ r = Result(TRUE, "safe_noop", {}, disk) \/ r = Edited(c.file, 0)
    BY <1>6 DEF Outcomes
  <2>2. "refused" \in Reasons /\ c.tool \notin ReadOnlyTools /\ c.tool \in MutationTools \cup {"apply_edits"}
    BY <1>6 DEF Reasons
  <2>3. CASE r = Failed("refused")
    <3> HIDE DEF ReadOnlyTools, MutationTools
    <3> QED BY <1>i, <2>2, <2>3
  <2>4. CASE r = Edited(c.file, 0)
    <3> HIDE DEF ReadOnlyTools, MutationTools
    <3> QED BY <1>h, <2>2, <2>4
  <2>5. CASE r = Result(TRUE, "safe_noop", {}, disk)
    BY <1>f, <1>6, <2>2, <2>5
  <2> QED BY <2>1, <2>3, <2>4, <2>5
<1> QED BY <1>1, <1>2, <1>3, <1>4, <1>5, <1>6, CallParts

\* The recent span of a window with one entry more.
LEMMA WindowedApplied ==
    ASSUME NEW S, NEW w \in Seq(S), NEW x \in S
    PROVE  /\ Windowed(w, x) \in Seq(S) /\ Len(Windowed(w, x)) \in Nat \ {0}
           /\ DOMAIN Windowed(w, x) = 1..Len(Windowed(w, x))
           /\ Windowed(w, x)[Len(Windowed(w, x))] = x
           /\ \A i \in DOMAIN Windowed(w, x) :
                 i # Len(Windowed(w, x)) => \E j \in DOMAIN w : Windowed(w, x)[i] = w[j]
<1> DEFINE v == Append(w, x)
           a == IF Len(v) > Span THEN Len(v) - Span + 1 ELSE 1
<1>1. v \in Seq(S) /\ Len(v) = Len(w) + 1 /\ Len(w) \in Nat /\ v[Len(v)] = x /\ \A i \in 1..Len(w) : v[i] = w[i]
  OBVIOUS
<1>2. a \in 1..Len(v) /\ a \in Int
  BY <1>1 DEF Span
<1>3. Windowed(w, x) = SubSeq(v, a, Len(v))
  BY DEF Windowed
<1> HIDE DEF v, a
<1>4. /\ Windowed(w, x) \in Seq(S) /\ Len(Windowed(w, x)) = Len(v) - a + 1
      /\ \A i \in 1..(Len(v) - a + 1) : Windowed(w, x)[i] = v[a + i - 1]
  BY <1>1, <1>2, <1>3
<1>5. DOMAIN w = 1..Len(w) /\ DOMAIN Windowed(w, x) = 1..Len(Windowed(w, x))
  BY <1>4
<1>6. Windowed(w, x)[Len(Windowed(w, x))] = x
  BY <1>1, <1>2, <1>4
<1>7. ASSUME NEW i \in DOMAIN Windowed(w, x), i # Len(Windowed(w, x))
      PROVE  \E j \in DOMAIN w : Windowed(w, x)[i] = w[j]
  <2>1. a + i - 1 \in 1..Len(w) /\ Windowed(w, x)[i] = v[a + i - 1]
    <3>1. i \in Int /\ 1 <= i /\ i < Len(v) - a + 1
      BY <1>1, <1>2, <1>4, <1>5, <1>7
    <3> QED BY <3>1, <1>1, <1>2, <1>4
  <2> QED BY <2>1, <1>1, <1>5
<1> QED BY <1>1, <1>2, <1>4, <1>5, <1>6, <1>7

\* What has not been in a window is in it once at most.
LEMMA OccursOnce ==
    ASSUME NEW S, NEW w \in Seq(S), NEW x \in S, NEW y, \A i \in DOMAIN w : w[i] # y
    PROVE  Occurrences(Windowed(w, x), y) \in Nat /\ Occurrences(Windowed(w, x), y) <= 1
<1> DEFINE v == Windowed(w, x)
           T == {i \in DOMAIN v : v[i] = y}
           U == {Len(v)}
<1> HIDE DEF v
<1>0. /\ DOMAIN v = 1..Len(v) /\ \A i \in DOMAIN v : i # Len(v) => \E j \in DOMAIN w : v[i] = w[j]
  BY WindowedApplied DEF v
<1>1. T \subseteq U
  BY <1>0
<1>2. IsFiniteSet(U) /\ Cardinality(U) = 1
  BY FS_Singleton
<1>3. IsFiniteSet(T) /\ Cardinality(T) <= Cardinality(U)
  BY <1>1, <1>2, FS_Subset
<1>4. Cardinality(T) \in Nat
  BY <1>3, FS_CardinalityType
<1>5. Occurrences(v, y) = Cardinality(T)
  BY DEF Occurrences
<1> HIDE DEF T, U
<1> QED BY <1>2, <1>3, <1>4, <1>5 DEF v

\* What is given to the first call of the batch is what its tool may answer.
LEMMA FetchedHead ==
    ASSUME GuardSets, FetchedIsCurrent, batch # <<>>,
           NEW r \in IF prefetched # <<>> THEN {Head(prefetched)} ELSE Outcomes(head)
    PROVE  /\ head \in Calls /\ RepliesTo(head, r)
           /\ prefetched # <<>> => head.tool \in ReadOnlyTools
<1>1. batch \in Seq(Calls) /\ Len(batch) \in Nat \ {0} /\ head = batch[1] /\ 1 \in DOMAIN batch
  BY DEF GuardSets, head
<1>2. head \in Calls
  BY <1>1
<1>3. CASE prefetched # <<>>
  <2>1. prefetched \in Seq(Results) /\ r = prefetched[1] /\ Len(prefetched) = Len(batch)
    BY <1>3 DEF GuardSets, FetchedIsCurrent
  <2>2. r \in Results
    BY <1>1, <2>1
  <2>3. /\ head.tool \in ReadOnlyTools /\ r.shows = disk /\ r.after = disk /\ r.touched = {}
        /\ r.why \notin {"patch_ambiguous", "patch_not_found"}
    BY <1>1, <1>3, <2>1 DEF FetchedIsCurrent
  <2>4. head.tool \notin {"write_file", "patch_file"}
    BY <2>3 DEF ReadOnlyTools, ObservationTools
  <2> QED BY <1>2, <2>2, <2>3, <2>4 DEF RepliesTo
<1>4. CASE prefetched = <<>>
  BY <1>2, <1>4, OutcomeParts
<1> QED BY <1>3, <1>4

\* An answer that leaves the files alone leaves the other fetched results current.
LEMMA FetchedStays ==
    ASSUME GuardSets, FetchedIsCurrent, batch # <<>>, NEW how, AnswerCall(how),
           prefetched # <<>> => UNCHANGED <<disk, edits>>
    PROVE  batch' \in Seq(Calls) /\ prefetched' \in Seq(Results) /\ FetchedIsCurrent'
<1>1. /\ batch \in Seq(Calls) /\ prefetched \in Seq(Results) /\ batch' = Tail(batch)
      /\ batch' \in Seq(Calls) /\ Len(batch') = Len(batch) - 1 /\ Len(batch) \in Nat \ {0}
      /\ \A i \in 1..Len(batch') : batch'[i] = batch[i + 1]
  BY DEF GuardSets, AnswerCall
<1>2. CASE prefetched = <<>>
  <2>1. prefetched' = <<>>
    BY <1>2 DEF AnswerCall
  <2>2. <<>> \in Seq(Results)
    OBVIOUS
  <2> QED BY <1>1, <2>1, <2>2 DEF FetchedIsCurrent
<1>3. CASE prefetched # <<>>
  <2>1. /\ prefetched' = Tail(prefetched) /\ prefetched' \in Seq(Results) /\ Len(prefetched) \in Nat \ {0}
        /\ Len(prefetched') = Len(prefetched) - 1 /\ \A i \in 1..Len(prefetched') : prefetched'[i] = prefetched[i + 1]
    BY <1>1, <1>3 DEF AnswerCall
  <2>2. Len(prefetched) = Len(batch) /\ DOMAIN batch' = 1..Len(batch') /\ DOMAIN batch = 1..Len(batch)
    BY <1>1, <1>3 DEF FetchedIsCurrent
  <2>3. disk' = disk /\ ReadOnlyTools' = ReadOnlyTools
    BY <1>3 DEF ReadOnlyTools, ObservationTools
  <2>4. \A i \in DOMAIN batch' : i + 1 \in DOMAIN batch /\ batch'[i] = batch[i + 1] /\ prefetched'[i] = prefetched[i + 1]
    BY <1>1, <2>1, <2>2
  <2>5. Len(prefetched') = Len(batch')
    BY <1>1, <2>1, <2>2
  <2>6. FetchedIsCurrent'
    BY <1>3, <2>3, <2>4, <2>5 DEF FetchedIsCurrent
  <2> QED BY <1>1, <2>1, <2>6
<1> QED BY <1>2, <1>3

\* A call that is due is one that the guards let through.
LEMMA DueIsLetThrough ==
    ASSUME GuardInv, batch # <<>>, NEW c \in due, Signature(c) = Signature(head)
    PROVE  ~Looped
<1>1. batch \in Seq(Calls) /\ head \in Calls /\ window \in Seq(Sigs) /\ c \in Calls
  BY DEF GuardInv, GuardSets, head
<1>2. \A i \in DOMAIN window : window[i] # Signature(head)
  BY DEF GuardInv, DueIsForgotten, Forgotten
<1>3. Signature(head) \in Sigs
  BY <1>1, CallParts
<1>4. /\ Occurrences(Windowed(window, Signature(head)), Signature(head)) \in Nat
      /\ Occurrences(Windowed(window, Signature(head)), Signature(head)) <= 1
  BY <1>1, <1>2, <1>3, OccursOnce
<1>5. RepeatLimit(head.tool) \in {2, 3}
  BY DEF RepeatLimit
<1> HIDE DEF head
<1> QED BY <1>4, <1>5 DEF Looped

\* The entries of a window are those of before and the new one.
LEMMA WindowEntries ==
    ASSUME NEW S, NEW w \in Seq(S), NEW x \in S
    PROVE  \A i \in DOMAIN Windowed(w, x) :
              (Windowed(w, x)[i] = x) \/ (\E j \in DOMAIN w : Windowed(w, x)[i] = w[j])
<1>1. /\ Windowed(w, x)[Len(Windowed(w, x))] = x
      /\ \A k \in DOMAIN Windowed(w, x) :
            k # Len(Windowed(w, x)) => \E j \in DOMAIN w : Windowed(w, x)[k] = w[j]
  BY WindowedApplied
<1> QED BY <1>1, Zenon

\* An answer that runs nothing.
LEMMA AnswersOnly ==
    ASSUME GuardInv, batch # <<>>, NEW how, AnswerCall(how), Untouched,
           window' \in Seq(Sigs), UNCHANGED <<seen, due>>,
           DOMAIN budget' \subseteq DOMAIN budget \cup {head},
           \A c \in due : c # head \/ UNCHANGED budget,
           \A c \in due : \A i \in DOMAIN window' : window'[i] # Signature(c)
    PROVE  GuardInv'
<1>1. UNCHANGED <<disk, cache, failures, ambiguous, edits, blind, seen, due>>
  BY DEF Untouched
<1>2. GuardSets /\ FetchedIsCurrent /\ CacheIsCurrent /\ DueIsForgotten
  BY DEF GuardInv
<1>3. batch' \in Seq(Calls) /\ prefetched' \in Seq(Results) /\ FetchedIsCurrent'
  BY <1>1, <1>2, FetchedStays
<1>4. GuardSets'
  BY <1>1, <1>2, <1>3 DEF GuardSets
<1>5. CacheIsCurrent'
  BY <1>1, <1>2 DEF CacheIsCurrent
<1>6. ASSUME NEW c \in due PROVE Forgotten(c)'
  <2>1. Forgotten(c)
    BY <1>2 DEF DueIsForgotten
  <2>2. c \notin DOMAIN budget'
    BY <2>1 DEF Forgotten
  <2>3. c.tool \in ReadOnlyTools \cup {"patch_file"} /\ c \notin DOMAIN cache' /\ ~NeedsStrategy(c)'
    BY <1>1, <2>1, Zenon DEF Forgotten, NeedsStrategy
  <2>4. \A i \in DOMAIN seen' : seen'[i][1] = Signature(c) => c.tool = "patch_file" /\ seen'[i][2] = TRUE
    BY <1>1, <2>1, Zenon DEF Forgotten
  <2>5. \A i \in DOMAIN window' : window'[i] # Signature(c)
    OBVIOUS
  <2> QED BY <2>2, <2>3, <2>4, <2>5, Zenon DEF Forgotten, Signature, ReadOnlyTools, ObservationTools
<1>7. DueIsForgotten'
  BY <1>1, <1>6 DEF DueIsForgotten
<1> QED BY <1>3, <1>4, <1>5, <1>7 DEF GuardInv

LEMMA DenyKeeps ==
    ASSUME GuardInv, Deny \/ Reuse \/ AskStrategy
    PROVE  GuardInv' /\ ReopensCalls
<1>1. /\ batch # <<>> /\ Untouched /\ UNCHANGED <<budget, window, seen, due>>
      /\ \E how \in {"denied", "reused", "strategy"} : AnswerCall(how)
  BY Zenon DEF Deny, Reuse, AskStrategy
<1>2. PICK how \in {"denied", "reused", "strategy"} : AnswerCall(how)
  BY <1>1
<1>3. window' \in Seq(Sigs) /\ \A c \in due : \A i \in DOMAIN window' : window'[i] # Signature(c)
  BY <1>1 DEF GuardInv, GuardSets, DueIsForgotten, Forgotten
<1>4. GuardInv'
  <2>1. DOMAIN budget' \subseteq DOMAIN budget \cup {head}
    BY <1>1
  <2> QED BY <1>1, <1>2, <1>3, <2>1, AnswersOnly
<1>5. ASSUME last'.call \in due PROVE last'.how \in {"none", "denied", "ran"}
  <2>1. CASE Deny
    BY <2>1 DEF Deny, AnswerCall
  <2>2. CASE Reuse
    <3>1. last'.call = head /\ head \in DOMAIN cache
      BY <2>2 DEF Reuse, AnswerCall
    <3> QED BY <1>5, <3>1 DEF GuardInv, DueIsForgotten, Forgotten
  <2>3. CASE AskStrategy
    <3>1. last'.call = head /\ NeedsStrategy(head)
      BY <2>3 DEF AskStrategy, AnswerCall
    <3> QED BY <1>5, <3>1 DEF GuardInv, DueIsForgotten, Forgotten
  <2> QED BY <2>1, <2>2, <2>3
<1> QED BY <1>4, <1>5 DEF ReopensCalls

LEMMA SuppressOverBudgetKeeps ==
    ASSUME GuardInv, SuppressOverBudget
    PROVE  GuardInv' /\ ReopensCalls
<1>1. /\ batch # <<>> /\ Untouched /\ UNCHANGED <<window, seen, due>> /\ AnswerCall("budget")
      /\ budget' = Counted(head) /\ OverBudget
  BY DEF SuppressOverBudget, Passed
<1>2. head \in DOMAIN budget
  BY <1>1 DEF OverBudget, Count, BudgetLimit
<1>3. head \notin due
  BY <1>2 DEF GuardInv, DueIsForgotten, Forgotten
<1>4. window' \in Seq(Sigs) /\ \A c \in due : \A i \in DOMAIN window' : window'[i] # Signature(c)
  BY <1>1 DEF GuardInv, GuardSets, DueIsForgotten, Forgotten
<1>5. DOMAIN budget' \subseteq DOMAIN budget \cup {head}
  BY <1>1 DEF Counted, Put
<1>6. GuardInv'
  BY <1>1, <1>3, <1>4, <1>5, AnswersOnly
<1>7. last'.call = head
  BY <1>1 DEF AnswerCall
<1> QED BY <1>3, <1>6, <1>7 DEF ReopensCalls

LEMMA SuppressLoopKeeps ==
    ASSUME GuardInv, SuppressLoop
    PROVE  GuardInv' /\ ReopensCalls
<1>1. /\ batch # <<>> /\ Untouched /\ UNCHANGED <<seen, due>> /\ AnswerCall("loop")
      /\ budget' = Counted(head) /\ window' = Windowed(window, Signature(head)) /\ Looped
  BY DEF SuppressLoop, Passed
<1>2. batch \in Seq(Calls) /\ head \in Calls /\ window \in Seq(Sigs) /\ Signature(head) \in Sigs
  <2>1. batch \in Seq(Calls) /\ head \in Calls /\ window \in Seq(Sigs)
    BY <1>1 DEF GuardInv, GuardSets, head
  <2> QED BY <2>1, CallParts
<1>3. \A c \in due : Signature(c) # Signature(head)
  BY <1>1, DueIsLetThrough
<1>4. head \notin due
  BY <1>3
<1>5. window' \in Seq(Sigs)
  BY <1>1, <1>2, WindowedApplied
<1>6. ASSUME NEW c \in due, NEW i \in DOMAIN window' PROVE window'[i] # Signature(c)
  <2>1. CASE window'[i] = Signature(head)
    BY <1>3, <2>1
  <2>2. CASE window'[i] # Signature(head)
    <3>1. \E j \in DOMAIN window : window'[i] = window[j]
      <4>1. \A k \in DOMAIN Windowed(window, Signature(head)) :
              \/ Windowed(window, Signature(head))[k] = Signature(head)
              \/ \E j \in DOMAIN window : Windowed(window, Signature(head))[k] = window[j]
        BY <1>2, WindowEntries
      <4> QED BY <1>1, <1>6, <2>2, <4>1
    <3> QED BY <3>1 DEF GuardInv, DueIsForgotten, Forgotten
  <2> QED BY <2>1, <2>2
<1>7. DOMAIN budget' \subseteq DOMAIN budget \cup {head}
  BY <1>1 DEF Counted, Put
<1>8. GuardInv'
  BY <1>1, <1>4, <1>5, <1>6, <1>7, AnswersOnly
<1>9. last'.call = head
  BY <1>1 DEF AnswerCall
<1> QED BY <1>4, <1>8, <1>9 DEF ReopensCalls

\* What a run leaves of the observations: those that show the files as they are.
LEMMA RunKeepsCacheCurrent ==
    ASSUME GuardSets, CacheIsCurrent, head \in Calls, NEW r, RepliesTo(head, r), disk' = r.after,
           cache' = Stored(Invalidated(head, r), head, r),
           blind' = IF head.tool \in MutationTools /\ r.ok THEN blind \ r.touched
                    ELSE IF head.tool = "apply_edits" THEN blind \cup r.touched ELSE blind
    PROVE  /\ CacheIsCurrent' /\ DOMAIN cache' \subseteq DOMAIN cache \cup {head}
           /\ DOMAIN cache' \subseteq {c \in Calls : c.tool \in ObservationTools}
           /\ head.tool \in MutationTools /\ r.ok =>
                 /\ head \notin DOMAIN cache'
                 /\ \A k \in DOMAIN cache' : r.touched # {} => k.file \notin {head.file, NoFile}
<1> DEFINE remaining == Invalidated(head, r)
           edited == head.tool \in MutationTools /\ r.ok
<1>1. /\ DOMAIN remaining \subseteq DOMAIN cache /\ \A k \in DOMAIN remaining : remaining[k] = cache[k]
      /\ edited => \A k \in DOMAIN remaining : r.touched # {} /\ k.file \notin r.touched \cup {NoFile}
      /\ ~edited => remaining = cache
  BY DEF Invalidated, Without
<1>2. \/ head.tool \in ObservationTools /\ ~edited /\ cache' = Put(remaining, head, r.shows)
      \/ cache' = remaining
  BY DEF Stored, ObservationTools, MutationTools
<1>3. DOMAIN cache \subseteq {c \in Calls : c.tool \in ObservationTools}
  BY DEF GuardSets
<1> HIDE DEF remaining, head
<1>4. \A k \in DOMAIN cache' :
        \/ k \in DOMAIN remaining /\ cache'[k] = cache[k]
        \/ k = head /\ head.tool \in ObservationTools /\ ~edited /\ cache'[k] = r.shows
  BY <1>1, <1>2 DEF Put
<1>5. ASSUME NEW k \in DOMAIN cache', NEW f \in Files, k.file \in {f, NoFile}, f \notin blind'
      PROVE  cache'[k][f] = disk'[f]
  <2>1. CASE k = head /\ head.tool \in ObservationTools /\ cache'[k] = r.shows
    <3>1. r.after = disk /\ r.shows = disk
      BY <2>1 DEF RepliesTo, ReadOnlyTools
    <3> QED BY <2>1, <3>1
  <2>2. CASE k \in DOMAIN remaining /\ cache'[k] = cache[k]
    <3>1. k \in DOMAIN cache /\ (f \in blind \/ cache[k][f] = disk[f])
      BY <1>1, <1>5, <2>2 DEF CacheIsCurrent
    <3>2. f \notin r.touched => disk'[f] = disk[f]
      <4>1. CASE r.touched = {}
        BY <4>1 DEF RepliesTo
      <4>2. CASE r.touched # {}
        <5>1. r.touched = {head.file} /\ r.after = [disk EXCEPT ![head.file] = r.after[head.file]]
          BY <4>2 DEF RepliesTo
        <5>2. disk \in [Files -> Nat]
          BY DEF GuardSets, Disks
        <5> QED BY <5>1, <5>2
      <4> QED BY <4>1, <4>2
    <3>3. CASE edited
      <4>1. f \notin r.touched
        BY <1>1, <1>5, <2>2, <3>3
      <4>2. f \notin blind
        BY <1>5, <3>3, <4>1
      <4> QED BY <2>2, <3>1, <3>2, <4>1, <4>2
    <3>4. CASE ~edited
      <4>1. r.touched # {} => head.tool = "apply_edits"
        BY <3>4 DEF RepliesTo, MutationTools
      <4>2. f \notin blind /\ f \notin r.touched
        BY <1>5, <3>4, <4>1
      <4> QED BY <2>2, <3>1, <3>2, <4>2
    <3> QED BY <3>3, <3>4
  <2> QED BY <1>4, <2>1, <2>2
<1>6. CacheIsCurrent'
  BY <1>5 DEF CacheIsCurrent
<1>7. DOMAIN cache' \subseteq DOMAIN cache \cup {head}
  BY <1>1, <1>4
<1>8. DOMAIN cache' \subseteq {c \in Calls : c.tool \in ObservationTools}
  BY <1>1, <1>3, <1>4
<1>9. ASSUME edited
      PROVE  /\ head \notin DOMAIN cache'
             /\ \A k \in DOMAIN cache' : r.touched # {} => k.file \notin {head.file, NoFile}
  <2>1. \A k \in DOMAIN cache' : k.tool \in ObservationTools
    BY <1>8
  <2>2. head \notin DOMAIN cache'
    BY <1>9, <2>1 DEF ObservationTools, MutationTools
  <2>3. \A k \in DOMAIN cache' : k \in DOMAIN remaining
    BY <1>4, <1>9
  <2>4. r.touched # {} => r.touched = {head.file}
    BY DEF RepliesTo
  <2> QED BY <1>1, <1>9, <2>2, <2>3, <2>4
<1> QED BY <1>6, <1>7, <1>8, <1>9

\* The guards after a run remember no call that is due.
LEMMA RunForgets ==
    ASSUME GuardSets, DueIsForgotten, head \in Calls, NEW r, RepliesTo(head, r),
           DOMAIN cache' \subseteq DOMAIN cache \cup {head},
           DOMAIN cache' \subseteq {c \in Calls : c.tool \in ObservationTools},
           head.tool \in MutationTools /\ r.ok =>
                 /\ head \notin DOMAIN cache'
                 /\ \A k \in DOMAIN cache' : r.touched # {} => k.file \notin {head.file, NoFile},
           PatchesRecorded(head, r), GuardRecords(head, r),
           budget' = IF head.tool \in MutationTools THEN <<>> ELSE Counted(head),
           due' = {c \in due : Signature(c) # Signature(head)}
                  \cup IF head.tool \in MutationTools /\ r.ok /\ r.touched # {} THEN Reopened(head) ELSE {}
    PROVE  /\ due' \subseteq Calls /\ window' \in Seq(Sigs) /\ seen' \in Seq(Sigs \X BOOLEAN \X Reasons)
           /\ DueIsForgotten'
<1> DEFINE edited == head.tool \in MutationTools /\ r.ok
           entry == <<Signature(head), r.ok, r.why>>
<1>1. window \in Seq(Sigs) /\ seen \in Seq(Sigs \X BOOLEAN \X Reasons) /\ due \subseteq Calls
  BY DEF GuardSets
<1>2. Signature(head) \in Sigs /\ entry \in Sigs \X BOOLEAN \X Reasons
  <2>1. Signature(head) \in Sigs
    BY CallParts
  <2>2. r.ok \in BOOLEAN /\ r.why \in Reasons
    BY DEF RepliesTo, Results
  <2> QED BY <2>1, <2>2, Zenon
<1>3. /\ window' = IF edited THEN <<>> ELSE Windowed(window, Signature(head))
      /\ seen' = Windowed(IF edited THEN <<>> ELSE seen, entry)
  BY DEF GuardRecords
<1>e. <<>> \in Seq(Sigs) /\ <<>> \in Seq(Sigs \X BOOLEAN \X Reasons)
  OBVIOUS
<1> HIDE DEF head
<1>4. window' \in Seq(Sigs) /\ seen' \in Seq(Sigs \X BOOLEAN \X Reasons)
  <2>1. CASE edited
    <3>1. window' = <<>> /\ seen' = Windowed(<<>>, entry)
      BY <1>3, <2>1
    <3> HIDE DEF entry
    <3> QED BY <1>2, <1>e, <3>1, WindowedApplied
  <2>2. CASE ~edited
    <3>1. window' = Windowed(window, Signature(head)) /\ seen' = Windowed(seen, entry)
      BY <1>3, <2>2
    <3> HIDE DEF entry
    <3> QED BY <1>1, <1>2, <3>1, WindowedApplied
  <2> QED BY <2>1, <2>2
<1>5. \A i \in DOMAIN window' : ~edited /\ ((window'[i] = Signature(head)) \/ (\E j \in DOMAIN window : window'[i] = window[j]))
  <2>1. CASE edited
    BY <1>3, <2>1
  <2>2. CASE ~edited
    <3>1. window' = Windowed(window, Signature(head))
      BY <1>3, <2>2
    <3> QED BY <1>1, <1>2, <2>2, <3>1, WindowEntries
  <2> QED BY <2>1, <2>2
<1>6. \A i \in DOMAIN seen' : (seen'[i] = entry) \/ (~edited /\ \E j \in DOMAIN seen : seen'[i] = seen[j])
  <2>1. CASE edited
    <3>1. seen' = Windowed(<<>>, entry)
      BY <1>3, <2>1
    <3>2. DOMAIN <<>> = {}
      OBVIOUS
    <3> HIDE DEF entry
    <3>3. \A i \in DOMAIN Windowed(<<>>, entry) :
            (Windowed(<<>>, entry)[i] = entry) \/ (\E j \in DOMAIN <<>> : Windowed(<<>>, entry)[i] = <<>>[j])
      <4> DEFINE T == Sigs \X BOOLEAN \X Reasons
                 none == <<>>
      <4>1. none \in Seq(T) /\ entry \in T
        BY <1>2, <1>e
      <4> HIDE DEF T, none
      <4>2. \A i \in DOMAIN Windowed(none, entry) :
              (Windowed(none, entry)[i] = entry) \/ (\E j \in DOMAIN none : Windowed(none, entry)[i] = none[j])
        BY <4>1, WindowEntries
      <4> QED BY <4>2 DEF none
    <3> QED BY <3>1, <3>2, <3>3
  <2>2. CASE ~edited
    <3>1. seen' = Windowed(seen, entry)
      BY <1>3, <2>2
    <3> HIDE DEF entry
    <3>2. \A i \in DOMAIN Windowed(seen, entry) :
            (Windowed(seen, entry)[i] = entry) \/ (\E j \in DOMAIN seen : Windowed(seen, entry)[i] = seen[j])
      BY <1>1, <1>2, WindowEntries
    <3> QED BY <2>2, <3>1, <3>2
  <2> QED BY <2>1, <2>2
<1>7. DOMAIN budget' \subseteq IF edited THEN {} ELSE DOMAIN budget \cup {head}
  <2>1. DOMAIN Counted(head) \subseteq DOMAIN budget \cup {head}
    BY DEF Counted, Put
  <2>2. DOMAIN <<>> = {}
    OBVIOUS
  <2> QED BY <2>1, <2>2
<1> HIDE DEF edited
<1>8. ASSUME NEW c \in due, Signature(c) # Signature(head) PROVE Forgotten(c)'
  <2>1. Forgotten(c) /\ c \in Calls
    BY <1>1 DEF DueIsForgotten
  <2>2. c # head /\ (c.tool # head.tool \/ c.file # head.file)
    BY <1>8 DEF Signature
  <2>3. c \notin DOMAIN cache' /\ c \notin DOMAIN budget'
    BY <1>7, <2>1, <2>2 DEF Forgotten
  <2>4. \A i \in DOMAIN window' : window'[i] # Signature(c)
    BY <1>5, <1>8, <2>1 DEF Forgotten
  <2>5. \A i \in DOMAIN seen' : seen'[i][1] = Signature(c) => c.tool = "patch_file" /\ seen'[i][2] = TRUE
    <3>1. entry[1] = Signature(head)
      OBVIOUS
    <3> HIDE DEF entry
    <3> QED BY <1>6, <1>8, <2>1, <3>1 DEF Forgotten
  <2>6. ASSUME c.tool = "patch_file" PROVE c.file \notin ambiguous' /\ c \notin failures'
    <3>1. c.file \notin ambiguous /\ c \notin failures
      BY <2>1, <2>6 DEF Forgotten, NeedsStrategy
    <3>2. CASE head.tool \in {"write_file", "patch_file"} /\ r.ok
      <4>1. ambiguous' = ambiguous \ {head.file} /\ failures' = {x \in failures : x.file # head.file}
        BY <3>2 DEF PatchesRecorded
      <4> QED BY <3>1, <4>1
    <3>3. CASE ~(head.tool \in {"write_file", "patch_file"} /\ r.ok)
      <4>1. /\ ambiguous' = IF r.why = "patch_ambiguous" THEN ambiguous \cup {head.file} ELSE ambiguous
            /\ failures' = IF r.why \in {"patch_ambiguous", "patch_not_found"} THEN failures \cup {head} ELSE failures
        BY <3>3 DEF PatchesRecorded
      <4>2. r.why \in {"patch_ambiguous", "patch_not_found"} => head.tool = "patch_file"
        BY DEF RepliesTo
      <4> QED BY <2>2, <2>6, <3>1, <4>1, <4>2
    <3> QED BY <3>2, <3>3
  <2>7. ~NeedsStrategy(c)'
    BY <2>6, Zenon DEF NeedsStrategy
  <2>8. c.tool \in ReadOnlyTools \cup {"patch_file"}
    BY <2>1 DEF Forgotten
  <2> QED BY <2>3, <2>4, <2>5, <2>7, <2>8, Zenon DEF Forgotten, Signature, ReadOnlyTools, ObservationTools
<1>9. ASSUME edited, r.touched # {}, NEW c \in Reopened(head) PROVE Forgotten(c)' /\ c \in Calls
  <2>1. r.touched = {head.file} /\ head.file \in Files
    BY <1>9 DEF RepliesTo
  <2>2. \/ c = Read(head.file) \/ c = Search \/ c = Tests
        \/ head.tool # "delete_path" /\ \E x \in Texts : c = Call("patch_file", head.file, x)
    BY <1>9 DEF Reopened
  <2>3. /\ c \in Calls
        /\ \/ c.tool \in ObservationTools /\ c.file \in {head.file, NoFile}
           \/ c.tool = "run_tests"
           \/ c.tool = "patch_file" /\ c.file = head.file /\ head.tool # "delete_path"
    <3>1. c \in Calls
      BY <2>1, <2>2, CallsMade
    <3>2. \/ c.tool = "read_file" /\ c.file = head.file
          \/ c.tool = "search_files" /\ c.file = NoFile
          \/ c.tool = "run_tests"
          \/ c.tool = "patch_file" /\ c.file = head.file /\ head.tool # "delete_path"
      BY <2>2 DEF Call, Read, Search, Tests
    <3> QED BY <3>1, <3>2 DEF ObservationTools
  <2>4. c.tool \in ReadOnlyTools \cup {"patch_file"}
    BY <2>3 DEF ReadOnlyTools
  <2>5. c \notin DOMAIN cache'
    <3>1. ASSUME c \in DOMAIN cache' PROVE FALSE
      <4>1. c.tool \in ObservationTools /\ c.file \notin {head.file, NoFile}
        BY <1>9, <3>1 DEF edited
      <4> QED BY <2>3, <4>1 DEF ObservationTools
    <3> QED BY <3>1
  <2>6. c \notin DOMAIN budget' /\ \A i \in DOMAIN window' : window'[i] # Signature(c)
    BY <1>5, <1>7, <1>9
  <2>7. \A i \in DOMAIN seen' : seen'[i][1] = Signature(c) => c.tool = "patch_file" /\ seen'[i][2] = TRUE
    <3>1. ASSUME NEW i \in DOMAIN seen', seen'[i][1] = Signature(c)
          PROVE  c.tool = "patch_file" /\ seen'[i][2] = TRUE
      <4>1. seen'[i] = entry
        BY <1>6, <1>9, <3>1
      <4>2. seen'[i][1] = Signature(head)
        BY <4>1
      <4>3. seen'[i][2] = TRUE
        <5>1. seen'[i][2] = r.ok
          BY <4>1
        <5>2. r.ok \in BOOLEAN
          BY DEF RepliesTo, Results
        <5>3. r.ok
          BY <1>9, Zenon DEF edited
        <5>4. r.ok = TRUE
          BY <5>2, <5>3, Zenon
        <5> QED BY <5>1, <5>4, Zenon
      <4>4. c.tool = head.tool /\ head.tool \in MutationTools
        <5>1. Signature(c) = Signature(head)
          BY <3>1, <4>2
        <5>2. head.tool \in MutationTools
          BY <1>9, Zenon DEF edited
        <5> QED BY <2>3, <5>1, <5>2, SameSignature
      <4> QED BY <2>4, <4>3, <4>4 DEF ReadOnlyTools, ObservationTools, MutationTools
    <3> QED BY <3>1
  <2>8. ASSUME c.tool = "patch_file" PROVE c.file \notin ambiguous' /\ c \notin failures'
    <3>1. c.file = head.file /\ head.tool \in {"write_file", "patch_file"} /\ r.ok
      BY <1>9, <2>3, <2>8 DEF edited, MutationTools, ObservationTools
    <3>2. ambiguous' = ambiguous \ {head.file} /\ failures' = {x \in failures : x.file # head.file}
      BY <3>1 DEF PatchesRecorded
    <3> QED BY <3>1, <3>2
  <2>9. ~NeedsStrategy(c)'
    BY <2>8, Zenon DEF NeedsStrategy
  <2> QED BY <2>3, <2>4, <2>5, <2>6, <2>7, <2>9, Zenon DEF Forgotten, Signature, ReadOnlyTools, ObservationTools
<1>10. \A c \in due' : Forgotten(c)' /\ c \in Calls
  <2>1. \A c \in due' : \/ c \in due /\ Signature(c) # Signature(head)
                        \/ edited /\ r.touched # {} /\ c \in Reopened(head)
    BY DEF edited
  <2> QED BY <1>1, <1>8, <1>9, <2>1
<1> QED BY <1>4, <1>10 DEF DueIsForgotten

LEMMA BelowTheLimit ==
    \A n \in Nat, l \in {2, 3} : n <= 1 => ~(n >= l)
OBVIOUS

LEMMA ExecuteKeeps ==
    ASSUME GuardInv, Execute
    PROVE  GuardInv' /\ ReopensCalls
<1>e. DOMAIN <<>> = {} /\ <<>> \in Seq(Sigs \X BOOLEAN \X Reasons)
  OBVIOUS
<1>1. Passed /\ batch # <<>> /\ UNCHANGED calls
  BY DEF Execute, Passed
<1> DEFINE Runs(r) ==
             /\ disk' = r.after
             /\ edits' = IF \E f \in Files : r.after[f] > edits THEN edits + 1 ELSE edits
             /\ PatchesRecorded(head, r)
             /\ cache' = Stored(Invalidated(head, r), head, r)
             /\ budget' = IF head.tool \in MutationTools THEN <<>> ELSE Counted(head)
             /\ GuardRecords(head, r)
             /\ AnswerCall(IF Repeats(head, r) THEN "ran in vain" ELSE "ran")
             /\ due' = {c \in due : Signature(c) # Signature(head)}
                       \cup IF head.tool \in MutationTools /\ r.ok /\ r.touched # {} THEN Reopened(head) ELSE {}
             /\ blind' = IF head.tool \in MutationTools /\ r.ok THEN blind \ r.touched
                         ELSE IF head.tool = "apply_edits" THEN blind \cup r.touched ELSE blind
<1>2. PICK r \in IF prefetched # <<>> THEN {Head(prefetched)} ELSE Outcomes(head) : Runs(r)
  BY Zenon DEF Execute
<1>a. disk' = r.after /\ edits' = IF \E f \in Files : r.after[f] > edits THEN edits + 1 ELSE edits
  BY <1>2
<1>b. seen' = Windowed(IF head.tool \in MutationTools /\ r.ok THEN <<>> ELSE seen, <<Signature(head), r.ok, r.why>>)
  BY <1>2 DEF GuardRecords
<1>c. AnswerCall(IF Repeats(head, r) THEN "ran in vain" ELSE "ran")
  BY <1>2
<1>3. GuardSets /\ FetchedIsCurrent /\ CacheIsCurrent /\ DueIsForgotten
  BY DEF GuardInv
<1>4. head \in Calls /\ RepliesTo(head, r) /\ (prefetched # <<>> => head.tool \in ReadOnlyTools)
  BY <1>1, <1>3, FetchedHead
<1>5. /\ CacheIsCurrent' /\ DOMAIN cache' \subseteq DOMAIN cache \cup {head}
      /\ DOMAIN cache' \subseteq {c \in Calls : c.tool \in ObservationTools}
      /\ head.tool \in MutationTools /\ r.ok =>
            /\ head \notin DOMAIN cache'
            /\ \A k \in DOMAIN cache' : r.touched # {} => k.file \notin {head.file, NoFile}
  <2> HIDE DEF head
  <2> QED BY <1>2, <1>3, <1>4, RunKeepsCacheCurrent DEF head
<1>6. /\ due' \subseteq Calls /\ window' \in Seq(Sigs) /\ seen' \in Seq(Sigs \X BOOLEAN \X Reasons)
      /\ DueIsForgotten'
  BY <1>2, <1>3, <1>4, <1>5, RunForgets
<1>7. disk \in [Files -> Nat] /\ edits \in Nat /\ \A f \in Files : disk[f] <= edits
  BY <1>3 DEF GuardSets, Disks
<1> HIDE DEF Runs, head
<1>8. disk' \in Disks /\ edits' \in Nat /\ \A f \in Files : disk'[f] <= edits'
  <2>1. CASE r.touched = {}
    <3>1. r.after = disk
      BY <1>4, <2>1 DEF RepliesTo
    <3>2. edits' = edits
      BY <1>a, <1>7, <3>1
    <3> QED BY <1>a, <1>7, <3>1, <3>2 DEF Disks
  <2>2. CASE r.touched # {}
    <3>1. /\ head.file \in Files /\ r.after = [disk EXCEPT ![head.file] = r.after[head.file]]
          /\ r.after[head.file] \in {0, edits + 1}
      BY <1>4, <2>2 DEF RepliesTo
    <3>2. r.after \in [Files -> Nat] /\ \A f \in Files : f # head.file => r.after[f] = disk[f]
      <4> DEFINE v == r.after[head.file]
      <4>1. v \in Nat
        BY <1>7, <3>1
      <4>2. r.after = [disk EXCEPT ![head.file] = v]
        BY <3>1
      <4> HIDE DEF v
      <4> QED BY <1>7, <3>1, <4>1, <4>2
    <3>3. CASE r.after[head.file] = 0
      <4>1. edits' \in {edits, edits + 1}
        BY <1>a
      <4> QED BY <1>a, <1>7, <3>1, <3>2, <3>3, <4>1 DEF Disks
    <3>4. CASE r.after[head.file] = edits + 1
      <4>1. edits' = edits + 1
        BY <1>a, <1>7, <3>1, <3>4
      <4> QED BY <1>a, <1>7, <3>1, <3>2, <3>4, <4>1 DEF Disks
    <3> QED BY <3>1, <3>3, <3>4
  <2> QED BY <2>1, <2>2
<1>9. prefetched # <<>> => UNCHANGED <<disk, edits>>
  <2>1. ASSUME prefetched # <<>> PROVE r.after = disk
    BY <1>4, <2>1 DEF RepliesTo
  <2>2. r.after = disk => edits' = edits
    BY <1>a, <1>7
  <2> QED BY <1>a, <2>1, <2>2
<1>10. PICK how \in {"ran", "ran in vain"} : AnswerCall(how) /\ how = IF Repeats(head, r) THEN "ran in vain" ELSE "ran"
  BY <1>c
<1>11. batch' \in Seq(Calls) /\ prefetched' \in Seq(Results) /\ FetchedIsCurrent'
  BY <1>1, <1>3, <1>9, <1>10, FetchedStays
<1>12. GuardSets'
  BY <1>5, <1>6, <1>8, <1>11 DEF GuardSets
<1>13. GuardInv'
  BY <1>5, <1>6, <1>11, <1>12 DEF GuardInv
<1>14. ASSUME head \in due PROVE ~Repeats(head, r)
  <2> DEFINE entry == <<Signature(head), r.ok, r.why>>
             old == IF head.tool \in MutationTools /\ r.ok THEN <<>> ELSE seen
             T == Sigs \X BOOLEAN \X Reasons
  <2>1. entry \in T /\ old \in Seq(T)
    <3>1. Signature(head) \in Sigs
      BY <1>4, CallParts
    <3>2. r.ok \in BOOLEAN /\ r.why \in Reasons
      BY <1>4 DEF RepliesTo, Results
    <3>3. entry \in T
      BY <3>1, <3>2, Zenon
    <3>4. seen \in Seq(T)
      BY <1>3, Zenon DEF GuardSets
    <3> QED BY <1>e, <3>3, <3>4, Zenon
  <2>2. \A i \in DOMAIN old : old[i] # entry
    <3>1. ASSUME NEW i \in DOMAIN old, old[i] = entry PROVE FALSE
      <4>1. old = seen /\ ~(head.tool \in MutationTools /\ r.ok)
        BY <1>e, <3>1, Zenon
      <4>2. seen[i][1] = Signature(head) /\ seen[i][2] = r.ok
        <5>1. entry[1] = Signature(head) /\ entry[2] = r.ok
          OBVIOUS
        <5>2. seen[i] = entry
          BY <3>1, <4>1, Zenon
        <5> HIDE DEF entry
        <5> QED BY <5>1, <5>2, Zenon
      <4>3. head.tool = "patch_file" /\ seen[i][2] = TRUE
        BY <1>3, <1>14, <3>1, <4>1, <4>2 DEF DueIsForgotten, Forgotten
      <4>4. r.ok
        BY <4>2, <4>3, Zenon
      <4> QED BY <4>1, <4>3, <4>4 DEF MutationTools
    <3> QED BY <3>1
  <2>3. seen' = Windowed(old, entry)
    BY <1>b
  <2>4. Repeats(head, r) = (Occurrences(Windowed(old, entry), entry) >= ObservationLimit(head, r.ok))
    BY <2>3 DEF Repeats
  <2>5. ObservationLimit(head, r.ok) \in {2, 3}
    BY DEF ObservationLimit
  <2> HIDE DEF entry, old, T
  <2>6. Occurrences(Windowed(old, entry), entry) \in Nat /\ Occurrences(Windowed(old, entry), entry) <= 1
    BY <2>1, <2>2, OccursOnce
  <2>7. ~(Occurrences(Windowed(old, entry), entry) >= ObservationLimit(head, r.ok))
    <3> DEFINE n == Occurrences(Windowed(old, entry), entry)
               l == ObservationLimit(head, r.ok)
    <3> HIDE DEF n, l
    <3>1. n \in Nat /\ n <= 1 /\ l \in {2, 3}
      BY <2>5, <2>6 DEF n, l
    <3>2. ~(n >= l)
      BY <3>1, BelowTheLimit, Zenon
    <3> QED BY <3>2 DEF n, l
  <2> QED BY <2>4, <2>7, Zenon
<1>15. last'.call = head /\ last'.how = how
  BY <1>10 DEF AnswerCall
<1>16. ReopensCalls
  BY <1>10, <1>14, <1>15 DEF ReopensCalls
<1> QED BY <1>13, <1>16

LEMMA ReplyKeeps ==
    ASSUME GuardInv, NEW n \in 1..BatchLimit, NEW cs \in [1..n -> Calls], Reply(cs)
    PROVE  GuardInv' /\ ReopensCalls
<1>1. /\ batch' = cs /\ last' = Nothing
      /\ UNCHANGED <<disk, cache, budget, window, seen, failures, ambiguous, edits, blind, due>>
      /\ \/ prefetched' = <<>>
         \/ Prefetchable(cs) /\ \E rs \in [DOMAIN cs -> UNION {Outcomes(c) : c \in Range(cs)}] :
               (\A i \in DOMAIN cs : rs[i] \in Outcomes(cs[i])) /\ prefetched' = rs
  BY Zenon DEF Reply
<1>2. GuardSets /\ CacheIsCurrent /\ DueIsForgotten
  BY DEF GuardInv
<1>3. n \in Nat /\ DOMAIN cs = 1..n /\ cs \in Seq(Calls) /\ Len(cs) = n
  BY GuardAssumption
<1>4. prefetched' \in Seq(Results) /\ FetchedIsCurrent'
  <2>1. CASE prefetched' = <<>>
    <3>1. <<>> \in Seq(Results)
      OBVIOUS
    <3> QED BY <2>1, <3>1 DEF FetchedIsCurrent
  <2>2. CASE Prefetchable(cs) /\ \E rs \in [DOMAIN cs -> UNION {Outcomes(c) : c \in Range(cs)}] :
                (\A i \in DOMAIN cs : rs[i] \in Outcomes(cs[i])) /\ prefetched' = rs
    <3> DEFINE All == UNION {Outcomes(c) : c \in Range(cs)}
    <3> HIDE DEF All
    <3>1. PICK rs \in [DOMAIN cs -> All] : (\A i \in DOMAIN cs : rs[i] \in Outcomes(cs[i])) /\ prefetched' = rs
      BY <2>2 DEF All
    <3>2. ASSUME NEW i \in DOMAIN cs
          PROVE  /\ rs[i] \in Results /\ cs[i].tool \in ReadOnlyTools
                 /\ rs[i].shows = disk /\ rs[i].after = disk /\ rs[i].touched = {}
                 /\ rs[i].why \notin {"patch_ambiguous", "patch_not_found"}
      <4>1. cs[i] \in Calls /\ rs[i] \in Outcomes(cs[i])
        BY <1>3, <3>1
      <4>2. RepliesTo(cs[i], rs[i])
        BY <1>2, <4>1, OutcomeParts
      <4>3. cs[i].tool \in ReadOnlyTools
        BY <2>2 DEF Prefetchable
      <4>4. cs[i].tool # "patch_file"
        BY <4>3 DEF ReadOnlyTools, ObservationTools
      <4> QED BY <4>2, <4>3, <4>4 DEF RepliesTo
    <3>3. rs \in [1..n -> Results]
      BY <1>3, <3>1, <3>2
    <3>4. rs \in Seq(Results) /\ Len(rs) = n
      BY <1>3, <3>3
    <3>5. FetchedIsCurrent'
      <4>1. Len(prefetched') = Len(batch') /\ DOMAIN batch' = DOMAIN cs
        BY <1>1, <1>3, <3>1, <3>4
      <4>2. ASSUME NEW i \in DOMAIN batch'
            PROVE  /\ batch'[i].tool \in ReadOnlyTools'
                   /\ prefetched'[i].shows = disk' /\ prefetched'[i].after = disk' /\ prefetched'[i].touched = {}
                   /\ prefetched'[i].why \notin {"patch_ambiguous", "patch_not_found"}
        <5>1. batch'[i] = cs[i] /\ prefetched'[i] = rs[i] /\ disk' = disk /\ i \in DOMAIN cs
          BY <1>1, <3>1, <4>1
        <5>2. ReadOnlyTools' = ReadOnlyTools
          BY DEF ReadOnlyTools, ObservationTools
        <5> QED BY <3>2, <5>1, <5>2
      <4> QED BY <4>1, <4>2 DEF FetchedIsCurrent
    <3> QED BY <3>1, <3>4, <3>5
  <2> QED BY <1>1, <2>1, <2>2
<1>5. GuardSets'
  BY <1>1, <1>2, <1>3, <1>4 DEF GuardSets
<1>6. CacheIsCurrent'
  BY <1>1, <1>2 DEF CacheIsCurrent
<1>7. DueIsForgotten'
  BY <1>1, <1>2, Zenon DEF DueIsForgotten, Forgotten, NeedsStrategy, Signature, ReadOnlyTools, ObservationTools
<1>8. ReopensCalls
  BY <1>1 DEF ReopensCalls, Nothing
<1> QED BY <1>4, <1>5, <1>6, <1>7, <1>8 DEF GuardInv

LEMMA NextTurnKeeps ==
    ASSUME GuardInv, NextTurn
    PROVE  GuardInv' /\ ReopensCalls
<1>1. /\ window' = <<>> /\ seen' = <<>> /\ budget' = <<>> /\ failures' = {} /\ ambiguous' = {}
      /\ UNCHANGED <<disk, cache, batch, prefetched, calls, edits, blind, due>>
  BY DEF NextTurn
<1>2. GuardSets /\ FetchedIsCurrent /\ CacheIsCurrent /\ DueIsForgotten
  BY DEF GuardInv
<1>3. /\ <<>> \in Seq(Sigs) /\ <<>> \in Seq(Sigs \X BOOLEAN \X Reasons) /\ DOMAIN <<>> = {}
  OBVIOUS
<1>4. GuardSets'
  BY <1>1, <1>2, <1>3 DEF GuardSets
<1>5. FetchedIsCurrent'
  BY <1>1, <1>2 DEF FetchedIsCurrent, ReadOnlyTools, ObservationTools
<1>6. CacheIsCurrent'
  BY <1>1, <1>2 DEF CacheIsCurrent
<1>7. ASSUME NEW c \in due PROVE Forgotten(c)'
  <2>1. Forgotten(c)
    BY <1>2 DEF DueIsForgotten
  <2>2. c.tool \in ReadOnlyTools \cup {"patch_file"} /\ c \notin DOMAIN cache' /\ c \notin DOMAIN budget'
    BY <1>1, <1>3, <2>1 DEF Forgotten
  <2>3. ~NeedsStrategy(c)'
    BY <1>1 DEF NeedsStrategy
  <2>4. (\A i \in DOMAIN window' : FALSE) /\ (\A i \in DOMAIN seen' : FALSE)
    BY <1>1, <1>3
  <2> QED BY <2>2, <2>3, <2>4, Zenon DEF Forgotten, ReadOnlyTools, ObservationTools
<1>8. DueIsForgotten'
  BY <1>1, <1>7 DEF DueIsForgotten
<1>9. ReopensCalls
  BY <1>1 DEF ReopensCalls
<1> QED BY <1>4, <1>5, <1>6, <1>8, <1>9 DEF GuardInv

LEMMA OthersEditKeeps ==
    ASSUME GuardInv, NEW f \in Files, OthersEdit(f)
    PROVE  GuardInv' /\ ReopensCalls
<1>1. /\ batch = <<>> /\ disk' = [disk EXCEPT ![f] = edits + 1] /\ edits' = edits + 1 /\ blind' = blind \cup {f}
      /\ UNCHANGED <<cache, budget, window, seen, failures, ambiguous, batch, prefetched, calls, due>>
  BY DEF OthersEdit
<1>2. GuardSets /\ FetchedIsCurrent /\ CacheIsCurrent /\ DueIsForgotten
  BY DEF GuardInv
<1>3. disk \in [Files -> Nat] /\ edits \in Nat /\ \A g \in Files : disk[g] <= edits
  BY <1>2 DEF GuardSets, Disks
<1>4. disk' \in Disks /\ edits' \in Nat /\ \A g \in Files : disk'[g] <= edits'
  BY <1>1, <1>3 DEF Disks
<1>5. GuardSets'
  BY <1>1, <1>2, <1>4 DEF GuardSets
<1>6. FetchedIsCurrent'
  <2>1. ASSUME prefetched # <<>> PROVE Len(prefetched) = 0 /\ prefetched \in Seq(Results)
    BY <1>1, <1>2, <2>1 DEF FetchedIsCurrent, GuardSets
  <2>2. prefetched = <<>>
    BY <2>1
  <2> QED BY <1>1, <2>2 DEF FetchedIsCurrent
<1>7. CacheIsCurrent'
  BY <1>1, <1>2, <1>3 DEF CacheIsCurrent
<1>8. DueIsForgotten'
  BY <1>1, <1>2, Zenon DEF DueIsForgotten, Forgotten, NeedsStrategy, Signature, ReadOnlyTools, ObservationTools
<1>9. ReopensCalls
  BY <1>1 DEF ReopensCalls
<1> QED BY <1>5, <1>6, <1>7, <1>8, <1>9 DEF GuardInv

LEMMA GuardStep ==
    ASSUME GuardInv, [GuardNext]_guardVars
    PROVE  GuardInv' /\ ReopensCalls
<1>1. CASE \E n \in 1..BatchLimit : \E cs \in [1..n -> Calls] : Reply(cs)
  BY <1>1, ReplyKeeps
<1>2. CASE Deny \/ Reuse \/ AskStrategy
  BY <1>2, DenyKeeps
<1>3. CASE SuppressOverBudget
  BY <1>3, SuppressOverBudgetKeeps
<1>4. CASE SuppressLoop
  BY <1>4, SuppressLoopKeeps
<1>5. CASE Execute
  BY <1>5, ExecuteKeeps
<1>6. CASE NextTurn
  BY <1>6, NextTurnKeeps
<1>7. CASE \E f \in Files : OthersEdit(f)
  BY <1>7, OthersEditKeeps
<1>8. CASE UNCHANGED guardVars
  <2>1. UNCHANGED <<disk, cache, budget, window, seen, failures, ambiguous, batch, prefetched, edits, blind, due>>
    BY <1>8 DEF guardVars
  <2>2. GuardSets /\ FetchedIsCurrent /\ CacheIsCurrent /\ DueIsForgotten
    BY DEF GuardInv
  <2>3. GuardSets'
    BY <2>1, <2>2 DEF GuardSets
  <2>4. FetchedIsCurrent'
    BY <2>1, <2>2 DEF FetchedIsCurrent, ReadOnlyTools, ObservationTools
  <2>5. CacheIsCurrent'
    BY <2>1, <2>2 DEF CacheIsCurrent
  <2>6. DueIsForgotten'
    BY <2>1, <2>2, Zenon DEF DueIsForgotten, Forgotten, NeedsStrategy, Signature, ReadOnlyTools, ObservationTools
  <2> QED BY <2>1, <2>3, <2>4, <2>5, <2>6 DEF GuardInv, ReopensCalls
<1> QED BY <1>1, <1>2, <1>3, <1>4, <1>5, <1>6, <1>7, <1>8, Zenon DEF GuardNext

LEMMA GuardStart == GuardInit => GuardInv
<1> SUFFICES ASSUME GuardInit PROVE GuardInv
  OBVIOUS
<1>1. /\ disk = [f \in Files |-> 0] /\ edits = 0 /\ cache = <<>> /\ window = <<>> /\ seen = <<>>
      /\ batch = <<>> /\ prefetched = <<>> /\ due = {}
  BY DEF GuardInit
<1>2. /\ <<>> \in Seq(Sigs) /\ <<>> \in Seq(Sigs \X BOOLEAN \X Reasons) /\ <<>> \in Seq(Calls)
      /\ <<>> \in Seq(Results) /\ DOMAIN <<>> = {}
  OBVIOUS
<1>3. disk \in Disks /\ edits \in Nat /\ \A f \in Files : disk[f] <= edits
  BY <1>1 DEF Disks
<1>4. GuardSets
  BY <1>1, <1>2, <1>3 DEF GuardSets
<1>5. FetchedIsCurrent /\ DueIsForgotten
  BY <1>1 DEF FetchedIsCurrent, DueIsForgotten
<1>6. CacheIsCurrent
  BY <1>1, <1>2 DEF CacheIsCurrent
<1> QED BY <1>4, <1>5, <1>6 DEF GuardInv

\* An observation that is given again in place of a run is current, whatever the calls,
\* the files and the edits (ObservationCache.invalidate_from_result).
THEOREM CacheIsCurrentCorrect == GuardSpec => []CacheIsCurrent
<1>1. GuardInit => GuardInv
  BY GuardStart
<1>2. GuardInv /\ [GuardNext]_guardVars => GuardInv'
  BY GuardStep
<1>3. GuardInv => CacheIsCurrent
  BY DEF GuardInv
<1> QED BY <1>1, <1>2, <1>3, PTL DEF GuardSpec

\* After an edit by write_file, patch_file or delete_path no guard holds back a call that the
\* edit has made worth repeating (EditsReopenCalls; ToolLoopGuard.reset_after_mutation).
THEOREM EditsReopenCallsCorrect == GuardSpec => EditsReopenCalls
<1>1. GuardInit => GuardInv
  BY GuardStart
<1>2. GuardInv /\ [GuardNext]_guardVars => GuardInv' /\ [ReopensCalls]_guardVars
  BY GuardStep
<1> QED BY <1>1, <1>2, PTL DEF GuardSpec, EditsReopenCalls

-----------------------------------------------------------------------------
\* Induction, said of a set of numbers: it has them all.
LEMMA AllNumbers ==
    ASSUME NEW K, 0 \in K, \A n \in Nat : n \in K => n + 1 \in K
    PROVE  Nat \subseteq K
<1> DEFINE S == Nat \ K
<1> SUFFICES ASSUME S # {} PROVE FALSE
  OBVIOUS
<1>1. IsWellFoundedOn(OpToRel(<, Nat), Nat)
  BY NatLessThanWellFounded
<1>2. PICK x \in S : \A y \in S : ~(<<y, x>> \in OpToRel(<, Nat))
  BY <1>1, WFMin
<1>3. \A y \in S : ~(y < x)
  BY <1>2, Zenon DEF OpToRel
<1>4. x # 0 /\ x - 1 \in Nat /\ x - 1 < x
  BY SMT
<1>5. x - 1 \in K
  BY <1>3, <1>4
<1>6. x \in K
  BY <1>4, <1>5, SMT
<1> QED BY <1>6

-----------------------------------------------------------------------------
(* The gates of the final answer.                                          *)

\* A text has four fields; its notes are names of gates.
GateNames == {Order[i] : i \in 1..15}
IsText(t) ==
    /\ t = [phrases |-> t.phrases, lines |-> t.lines, notes |-> t.notes, caveat |-> t.caveat]
    /\ t.notes \in Seq(GateNames)

LEMMA GatesInOrder ==
    /\ Len(Order) = 15
    /\ Order[1] = "boundary" /\ Order[2] = "refusal" /\ Order[3] = "denied" /\ Order[4] = "safe"
    /\ Order[5] = "passed" /\ Order[6] = "failed" /\ Order[7] = "missing" /\ Order[8] = "unverified"
BY SMT DEF Order

\* What the gates add that the proof is about.
LEMMA FailedGate ==
    ASSUME NEW t, verdict = "failed"
    PROVE  /\ {"geom-jeung", "sil-pae"} \subseteq t.phrases \/ Gate("failed", t) # NoNote
           /\ Gate("failed", t).adds \subseteq {"command", "geom-jeung", "sil-pae"}
<1>1. Gate("failed", t) =
        Note(verdict = "failed", Says(t, {"geom-jeung", "sil-pae"}) /\ ~Has("symbols"),
             {"command"} \cup IF Ko THEN {"geom-jeung", "sil-pae"} ELSE {}, IF Has("symbols") THEN 3 ELSE 2)
  BY Zenon DEF Gate
<1> QED BY <1>1 DEF Note, NoNote, Says

LEMMA MissingGate ==
    ASSUME NEW t, lacking \/ ValidationLacking
    PROVE  "missing" \in t.phrases \/ (Gate("missing", t) # NoNote /\ "missing" \in Gate("missing", t).adds)
<1>1. Gate("missing", t) = Note(lacking \/ ValidationLacking, Says(t, {"missing"}), {"missing"}, 1)
  BY Zenon DEF Gate
<1> QED BY <1>1 DEF Note, NoNote, Says

LEMMA UnverifiedGate ==
    ASSUME NEW t, route = "modify", changed = "code", verdict = "never"
    PROVE  "unverified" \in t.phrases
           \/ (Gate("unverified", t) # NoNote /\ "unverified" \in Gate("unverified", t).adds)
<1>1. Gate("unverified", t) =
        Note(route = "modify" /\ changed = "code" /\ ~Commands, Says(t, {"unverified"}),
             {"unverified"} \cup IF Ko THEN {"geom-jeung"} ELSE {}, 1)
  BY Zenon DEF Gate
<1> QED BY <1>1 DEF Note, NoNote, Says, Commands

\* The gates before that of a failed validation do not speak of it.
Telling == {"geom-jeung", "sil-pae"}
LEMMA EarlierGates ==
    ASSUME NEW t, verdict = "failed", NEW i \in 1..5
    PROVE  Gate(Order[i], t).adds \cap Telling = {}
<1>1. Gate("boundary", t).adds \cap Telling = {}
  <2>1. Gate("boundary", t) = Note(Has("boundary"), Says(t, {"cha-dan", "workspace"}),
                                   IF Ko THEN {"cha-dan", "workspace", "an-jeon"} ELSE {"blocked"}, 1)
    BY Zenon DEF Gate
  <2> QED BY <2>1 DEF Note, NoNote, Telling
<1>2. Gate("refusal", t).adds \cap Telling = {}
  <2>1. Gate("refusal", t) = Note(Has("risky") /\ ~FileChanged /\ ~Commands, Says(t, {"seung-in", "wi-heom"}),
                                  IF Ko THEN {"seung-in", "wi-heom"} ELSE {}, 1)
    BY Zenon DEF Gate
  <2> QED BY <2>1 DEF Note, NoNote, Telling
<1>3. Gate("denied", t).adds \cap Telling = {}
  <2>1. Gate("denied", t) = Note(Has("denied"), SaysAny(t, IF Ko THEN {"cha-dan"} ELSE {"blocked"}),
                                 IF Ko THEN {"cha-dan", "denied-tool"} ELSE {"blocked"}, 1)
    BY Zenon DEF Gate
  <2> QED BY <2>1 DEF Note, NoNote, Telling
<1>4. Gate("safe", t).adds \cap Telling = {}
  <2>1. Gate("safe", t) = Note(Has("safeAsked"), Says(t, {"an-jeon"}), IF Ko THEN {"an-jeon"} ELSE {}, 1)
    BY Zenon DEF Gate
  <2> QED BY <2>1 DEF Note, NoNote, Telling
<1>5. Gate("passed", t).adds \cap Telling = {}
  <2>1. Gate("passed", t) = Note(verdict = "passed", Says(t, {"tong-gwa", "command"}),
                                 {"command"} \cup IF Ko THEN {"geom-jeung", "tong-gwa"} ELSE {}, 2)
    BY Zenon DEF Gate
  <2>2. verdict # "passed"
    OBVIOUS
  <2> QED BY <2>1, <2>2 DEF Note, NoNote, Telling
<1>6. i = 1 \/ i = 2 \/ i = 3 \/ i = 4 \/ i = 5
  BY SMT
<1> QED BY <1>1, <1>2, <1>3, <1>4, <1>5, <1>6, GatesInOrder, Zenon

\* One gate.
LEMMA AppendedNote ==
    ASSUME NEW T, NEW s \in Seq(T), NEW v \in T
    PROVE  Append(s, v) \in Seq(T) /\ Range(s) \subseteq Range(Append(s, v)) /\ v \in Range(Append(s, v))
<1>1. /\ Append(s, v) \in Seq(T) /\ Len(Append(s, v)) = Len(s) + 1 /\ Append(s, v)[Len(s) + 1] = v
      /\ \A j \in 1..Len(s) : Append(s, v)[j] = s[j]
  OBVIOUS
<1>2. /\ DOMAIN s = 1..Len(s) /\ DOMAIN Append(s, v) = 1..(Len(s) + 1)
      /\ 1..Len(s) \subseteq 1..(Len(s) + 1) /\ Len(s) + 1 \in 1..(Len(s) + 1)
  BY <1>1
<1> QED BY <1>1, <1>2, Zenon DEF Range

LEMMA NotedText ==
    ASSUME NEW t, IsText(t), NEW i \in 1..15
    PROVE  /\ IsText(Noted(t, i)) /\ Noted(t, i).caveat = t.caveat
           /\ t.phrases \subseteq Noted(t, i).phrases /\ Range(t.notes) \subseteq Range(Noted(t, i).notes)
           /\ Noted(t, i).phrases \subseteq t.phrases \cup Gate(Order[i], t).adds
           /\ Gate(Order[i], t) # NoNote => /\ Gate(Order[i], t).adds \subseteq Noted(t, i).phrases
                                           /\ Order[i] \in Range(Noted(t, i).notes)
<1> DEFINE g == Gate(Order[i], t)
           whole == [phrases |-> t.phrases \cup g.adds, lines |-> t.lines + g.lines,
                     notes |-> Append(t.notes, Order[i]), caveat |-> t.caveat]
<1>1. Noted(t, i) = IF g = NoNote THEN t ELSE whole
  BY Zenon DEF Noted
<1> HIDE DEF g
<1>2. /\ whole.phrases = t.phrases \cup g.adds /\ whole.lines = t.lines + g.lines
      /\ whole.notes = Append(t.notes, Order[i]) /\ whole.caveat = t.caveat
  BY Zenon
<1>3. /\ Append(t.notes, Order[i]) \in Seq(GateNames)
      /\ Range(t.notes) \subseteq Range(Append(t.notes, Order[i]))
      /\ Order[i] \in Range(Append(t.notes, Order[i]))
  <2>1. t.notes \in Seq(GateNames) /\ Order[i] \in GateNames
    BY Zenon DEF IsText, GateNames
  <2> QED BY <2>1, AppendedNote, Zenon
<1>4. IsText(whole)
  BY <1>2, <1>3, Zenon DEF IsText
<1> HIDE DEF whole
<1>5. CASE g = NoNote
  BY <1>1, <1>5, Zenon DEF g
<1>6. CASE g # NoNote
  <2>1. Noted(t, i) = whole
    BY <1>1, <1>6, Zenon
  <2>2. t.phrases \subseteq whole.phrases /\ g.adds \subseteq whole.phrases
    BY <1>2, Zenon
  <2> QED BY <1>2, <1>3, <1>4, <1>6, <2>1, <2>2, Zenon DEF g
<1> QED BY <1>5, <1>6, Zenon

-----------------------------------------------------------------------------
(* The gates one after another.                                            *)

GatesUpTo(t, f, n) == f = [i \in 0..n |-> IF i = 0 THEN Formatted(t) ELSE Noted(f[i - 1], i)]

LEMMA GatesExist == ASSUME NEW t, NEW n \in Nat PROVE \E f : GatesUpTo(t, f, n)
<1> DEFINE K == {k \in Nat : \E f : GatesUpTo(t, f, k)}
<1>1. 0 \in K
  <2> DEFINE f == [m \in 0..0 |-> Formatted(t)]
  <2>1. \A m \in 0..0 : m = 0
    BY SMT
  <2>2. GatesUpTo(t, f, 0)
    BY <2>1, Zenon DEF GatesUpTo
  <2> QED BY <2>2
<1>2. ASSUME NEW k \in Nat, k \in K PROVE k + 1 \in K
  <2>1. PICK f : GatesUpTo(t, f, k)
    BY <1>2
  <2> DEFINE h == [m \in 0..(k + 1) |-> IF m = k + 1 THEN Noted(f[k], k + 1) ELSE f[m]]
  <2>2. /\ \A m \in 0..(k + 1) : m = k + 1 \/ m \in 0..k
        /\ \A m \in 0..k : m # k + 1 /\ m \in 0..(k + 1)
        /\ \A m \in 0..(k + 1) : m # 0 => m - 1 \in 0..k
        /\ (k + 1) - 1 = k /\ k + 1 # 0 /\ k + 1 \in Nat
    BY SMT
  <2>3. \A m \in 0..k : f[m] = IF m = 0 THEN Formatted(t) ELSE Noted(f[m - 1], m)
    BY <2>1, Zenon DEF GatesUpTo
  <2>4. \A m \in 0..k : h[m] = f[m]
    BY <2>2, Zenon
  <2>5. \A m \in 0..(k + 1) : h[m] = IF m = 0 THEN Formatted(t) ELSE Noted(h[m - 1], m)
    <3> TAKE m \in 0..(k + 1)
    <3>1. CASE m = k + 1
      BY <3>1, <2>2, <2>4, Zenon
    <3>2. CASE m \in 0..k
      BY <3>2, <2>2, <2>3, <2>4, Zenon
    <3> QED BY <3>1, <3>2, <2>2
  <2>6. GatesUpTo(t, h, k + 1)
    BY <2>5, Zenon DEF GatesUpTo
  <2> QED BY <2>2, <2>6, Zenon
<1> HIDE DEF K
<1>3. Nat \subseteq K
  BY <1>1, <1>2, AllNumbers
<1> QED BY <1>3 DEF K

\* What has been told after n gates, when the text was t.
ToldAfter(u, t, n) ==
    /\ IsText(u) /\ u.caveat = Formatted(t).caveat
    /\ verdict = "failed" =>
         /\ n < 6 => u.phrases \cap Telling \subseteq t.phrases
         /\ n >= 6 => "failed" \in Range(u.notes) \/ Telling \subseteq t.phrases
    /\ n >= 7 /\ (lacking \/ ValidationLacking) => "missing" \in u.phrases
    /\ n >= 8 /\ route = "modify" /\ changed = "code" /\ verdict = "never" => "unverified" \in u.phrases

LEMMA GateTells ==
    ASSUME NEW t, NEW u, NEW n \in 0..14, ToldAfter(u, t, n)
    PROVE  ToldAfter(Noted(u, n + 1), t, n + 1)
<1> DEFINE i == n + 1
           v == Noted(u, i)
           g == Gate(Order[i], u)
<1>1. i \in 1..15 /\ (i = 6 \/ i = 7 \/ i = 8 \/ i < 6 \/ i > 8) /\ n < i
  BY SMT
<1>2. IsText(u)
  BY DEF ToldAfter
<1>3. /\ IsText(v) /\ v.caveat = u.caveat
      /\ u.phrases \subseteq v.phrases /\ Range(u.notes) \subseteq Range(v.notes)
      /\ v.phrases \subseteq u.phrases \cup g.adds
      /\ g # NoNote => g.adds \subseteq v.phrases /\ Order[i] \in Range(v.notes)
  BY <1>1, <1>2, NotedText
<1> HIDE DEF v, g
<1>4. v.caveat = Formatted(t).caveat
  BY <1>3, Zenon DEF ToldAfter
<1>5. ASSUME verdict = "failed", i < 6 PROVE v.phrases \cap Telling \subseteq t.phrases
  <2>1. i \in 1..5 /\ n < 6
    BY <1>5, SMT
  <2>2. g.adds \cap Telling = {}
    BY <1>5, <2>1, EarlierGates DEF g
  <2>3. u.phrases \cap Telling \subseteq t.phrases
    BY <1>5, <2>1, Zenon DEF ToldAfter
  <2> QED BY <1>3, <2>2, <2>3, Zenon
<1>6. ASSUME verdict = "failed", i >= 6 PROVE "failed" \in Range(v.notes) \/ Telling \subseteq t.phrases
  <2>1. CASE i = 6
    <3>1. u.phrases \cap Telling \subseteq t.phrases
      <4>1. n < 6
        BY <2>1, SMT
      <4> QED BY <1>6, <4>1, Zenon DEF ToldAfter
    <3>2. Telling \subseteq u.phrases \/ g # NoNote
      BY <1>6, <2>1, FailedGate, GatesInOrder DEF g, Telling
    <3> QED BY <1>3, <2>1, <3>1, <3>2, GatesInOrder, Zenon
  <2>2. CASE i > 6
    <3>1. n >= 6
      BY <2>2, SMT
    <3> QED BY <1>3, <1>6, <3>1, Zenon DEF ToldAfter
  <2> QED BY <1>6, <2>1, <2>2, SMT
<1>7. ASSUME i >= 7, lacking \/ ValidationLacking PROVE "missing" \in v.phrases
  <2>1. CASE i = 7
    BY <1>3, <1>7, <2>1, MissingGate, GatesInOrder, Zenon DEF g
  <2>2. CASE i > 7
    <3>1. n >= 7
      BY <2>2, SMT
    <3> QED BY <1>3, <1>7, <3>1, Zenon DEF ToldAfter
  <2> QED BY <1>7, <2>1, <2>2, SMT
<1>8. ASSUME i >= 8, route = "modify", changed = "code", verdict = "never" PROVE "unverified" \in v.phrases
  <2>1. CASE i = 8
    BY <1>3, <1>8, <2>1, UnverifiedGate, GatesInOrder, Zenon DEF g
  <2>2. CASE i > 8
    <3>1. n >= 8
      BY <2>2, SMT
    <3> QED BY <1>3, <1>8, <3>1, Zenon DEF ToldAfter
  <2> QED BY <1>8, <2>1, <2>2, SMT
<1> HIDE DEF i
<1>9. ToldAfter(v, t, i)
  BY <1>3, <1>4, <1>5, <1>6, <1>7, <1>8, Zenon DEF ToldAfter
<1> QED BY <1>9 DEF v, i

LEMMA OtherCaveat ==
    ASSUME NEW t, IsText(t), NEW c
    PROVE  [t EXCEPT !.caveat = c] = [phrases |-> t.phrases, lines |-> t.lines, notes |-> t.notes, caveat |-> c]
<1>1. DOMAIN t = {"phrases", "lines", "notes", "caveat"}
  BY DEF IsText
<1> QED BY <1>1, SMT

LEMMA FormattedText ==
    ASSUME NEW t, IsText(t)
    PROVE  /\ IsText(Formatted(t)) /\ Formatted(t).phrases = t.phrases
           /\ ~Has("json") => Formatted(t).caveat = t.caveat
<1> DEFINE plain == [phrases |-> t.phrases, lines |-> t.lines, notes |-> t.notes, caveat |-> FALSE]
<1>1. CASE Formatted(t) = t
  BY <1>1, Zenon
<1>2. CASE Formatted(t) = [t EXCEPT !.caveat = FALSE] /\ Has("json")
  <2>1. [t EXCEPT !.caveat = FALSE] = plain
    BY OtherCaveat, Zenon
  <2>2. plain.phrases = t.phrases /\ plain.lines = t.lines /\ plain.notes = t.notes /\ plain.caveat = FALSE
    BY Zenon
  <2> HIDE DEF plain
  <2>3. IsText(plain)
    BY <2>2, Zenon DEF IsText, plain
  <2> QED BY <1>2, <2>1, <2>2, <2>3, Zenon
<1> QED BY <1>1, <1>2, Zenon DEF Formatted

LEMMA PolicyTells == ASSUME NEW t, IsText(t) PROVE ToldAfter(Gated(t), t, 15)
<1> DEFINE f == CHOOSE f : GatesUpTo(t, f, 15)
           K == {k \in Nat : k <= 15 => ToldAfter(f[k], t, k)}
<1>1. GatesUpTo(t, f, 15)
  BY GatesExist, Zenon
<1>2. Gated(t) = f[15]
  BY GatesInOrder, Zenon DEF Gated, GatesUpTo
<1> HIDE DEF f
<1>3. \A i \in 0..15 : f[i] = IF i = 0 THEN Formatted(t) ELSE Noted(f[i - 1], i)
  BY <1>1, Zenon DEF GatesUpTo
<1>4. 0 \in K
  <2>1. 0 \in 0..15 /\ 0 < 6 /\ ~(0 >= 6) /\ ~(0 >= 7) /\ ~(0 >= 8) /\ 0 \in Nat
    BY SMT
  <2>2. f[0] = Formatted(t)
    BY <1>3, <2>1, Zenon
  <2>3. ToldAfter(f[0], t, 0)
    BY <2>1, <2>2, FormattedText, Zenon DEF ToldAfter
  <2> QED BY <2>1, <2>3, Zenon
<1>5. ASSUME NEW k \in Nat, k \in K PROVE k + 1 \in K
  <2> SUFFICES ASSUME k + 1 <= 15 PROVE ToldAfter(f[k + 1], t, k + 1)
    OBVIOUS
  <2>1. k <= 15 /\ k \in 0..14 /\ k + 1 \in 0..15 /\ k + 1 # 0 /\ (k + 1) - 1 = k
    BY SMT
  <2>2. ToldAfter(f[k], t, k)
    BY <1>5, <2>1
  <2>3. f[k + 1] = Noted(f[k], k + 1)
    BY <1>3, <2>1, Zenon
  <2> QED BY <2>1, <2>2, <2>3, GateTells, Zenon
<1> HIDE DEF K
<1>6. Nat \subseteq K
  BY <1>4, <1>5, AllNumbers
<1>7. 15 \in K /\ 15 <= 15
  BY <1>6, SMT
<1>8. ToldAfter(f[15], t, 15)
  BY <1>7, Zenon DEF K
<1> QED BY <1>2, <1>8, Zenon

-----------------------------------------------------------------------------
(* From the rounds to the answer.                                          *)

\* A turn that failed has no answer ready, so that its text has the caveat; and the
\* gates have only the model's own words to take for theirs.
FinalInv ==
    /\ stage \in {"start", "rounds", "finalize", "answer", "policy", "done"}
    /\ stage = "finalize" => outcome.status \in Statuses
    /\ stage \in {"answer", "policy", "done"} => status \in Statuses /\ (status = "failed" => ~ready)
    /\ stage = "policy" => /\ IsText(text) /\ text.phrases \subseteq own
                           /\ status = "failed" => text.caveat
    /\ stage = "done" => AnswerIsHonest

LEMMA FinalStart == FinalInit => FinalInv
BY Zenon DEF FinalInit, FinalInv

LEMMA RoundsEndInv == ASSUME FinalInv, RoundsEnd PROVE FinalInv'
<1>1. stage' = "finalize" /\ outcome' \in [status : Statuses, lines : Sizes]
  BY DEF RoundsEnd, Statuses
<1>2. outcome'.status \in Statuses
  BY <1>1
<1> QED BY <1>1, <1>2, Zenon DEF FinalInv

LEMMA FinalizeInv == ASSUME FinalInv, Finalize PROVE FinalInv'
<1> DEFINE noChange == outcome.status = "success" /\ Mutation /\ changed = "none"
                       /\ ~(Has("openScope") /\ outcome.lines > 1)
           s1 == IF noChange THEN "failed" ELSE outcome.status
           incomplete == s1 = "success" /\ (lacking \/ ValidationLacking) /\ ~Reportable
           s2 == IF incomplete THEN "failed" ELSE s1
           s3 == IF s2 = "failed" /\ Has("recoverable") THEN "partial" ELSE s2
           lowered == s3 \in {"success", "partial"} /\ ValidationLacking
           s4 == IF verdict = "failed" /\ FileChanged /\ outcome.lines > 0 THEN "partial" ELSE "failed"
<1>1. /\ stage' = "answer" /\ outcome.status \in Statuses
      /\ status' = IF lowered THEN s4 ELSE s3
      /\ ready' = IF lowered THEN ReadyAfter(s4) ELSE BuiltReady /\ ~noChange /\ ~incomplete /\ s2 = s3
  BY Zenon DEF Finalize, FinalInv
<1>2. BuiltReady => outcome.status = "success"
  BY DEF BuiltReady
<1>3. ~ReadyAfter("failed") /\ (s4 = "partial" \/ s4 = "failed")
  BY Zenon DEF ReadyAfter
<1>4. s1 \in Statuses /\ (s1 = "failed" => noChange \/ outcome.status = "failed")
  BY <1>1, Zenon DEF Statuses
<1>5. s2 \in Statuses /\ (s2 = "failed" => incomplete \/ s1 = "failed")
  BY <1>4, Zenon DEF Statuses
<1>6. s3 \in Statuses /\ (s3 = "failed" => s2 = "failed")
  BY <1>5, Zenon DEF Statuses
<1> HIDE DEF noChange, s1, incomplete, s2, s3, lowered, s4
<1>7. CASE lowered
  BY <1>1, <1>3, <1>7, Zenon DEF FinalInv, Statuses
<1>8. CASE ~lowered
  <2>1. status' = s3 /\ (ready' <=> BuiltReady /\ ~noChange /\ ~incomplete /\ s2 = s3)
    BY <1>1, <1>8, Zenon
  <2>2. s3 = "failed" => ~ready'
    BY <1>2, <1>4, <1>5, <1>6, <2>1, Zenon
  <2> QED BY <1>1, <1>6, <2>1, <2>2, Zenon DEF FinalInv
<1> QED BY <1>7, <1>8

LEMMA AnswerInv == ASSUME FinalInv, Answer PROVE FinalInv'
<1>1. /\ stage' = "policy" /\ status \in Statuses /\ (status = "failed" => ~ready)
      /\ UNCHANGED <<Facts, status, ready>>
  BY Zenon DEF Answer, FinalInv
<1>2. <<>> \in Seq(GateNames)
  OBVIOUS
<1>3. CASE ready \/ status = "partial"
  <2>1. text' = [phrases |-> own, lines |-> outcome.lines, notes |-> <<>>, caveat |-> FALSE]
    BY <1>1, <1>3, Zenon DEF Answer
  <2>2. text'.phrases = own /\ IsText(text')
    BY <1>2, <2>1, Zenon DEF IsText
  <2> QED BY <1>1, <1>3, <2>2, Zenon DEF FinalInv, Facts
<1>4. CASE ~ready /\ status = "failed"
  <2>1. text' = [phrases |-> own, lines |-> outcome.lines + 1, notes |-> <<>>, caveat |-> TRUE]
    BY <1>1, <1>4, Zenon DEF Answer
  <2>2. text'.phrases = own /\ IsText(text') /\ text'.caveat
    BY <1>2, <2>1, Zenon DEF IsText
  <2> QED BY <1>1, <1>4, <2>2, Zenon DEF FinalInv, Facts
<1>5. CASE ~ready /\ status = "success"
  <2>1. text' = Blank
    BY <1>1, <1>5, Zenon DEF Answer
  <2>2. text'.phrases = {} /\ IsText(text')
    BY <1>2, <2>1, Zenon DEF IsText, Blank
  <2> QED BY <1>1, <1>5, <2>2, Zenon DEF FinalInv, Facts
<1> QED BY <1>1, <1>3, <1>4, <1>5, Zenon DEF Statuses

LEMMA PolicyInv == ASSUME FinalInv, Policy PROVE FinalInv'
<1>1. /\ stage' = "done" /\ text' = Gated(text) /\ UNCHANGED <<Facts, status, ready>>
      /\ status \in Statuses /\ (status = "failed" => ~ready /\ text.caveat)
      /\ IsText(text) /\ text.phrases \subseteq own
  BY Zenon DEF Policy, FinalInv
<1>2. ToldAfter(Gated(text), text, 15)
  BY <1>1, PolicyTells
<1>3. 15 >= 6 /\ 15 >= 7 /\ 15 >= 8
  BY SMT
<1>4. status = "failed" /\ ~Has("json") => Gated(text).caveat
  BY <1>1, <1>2, FormattedText, Zenon DEF ToldAfter
<1>5. /\ lacking \/ ValidationLacking => "missing" \in Gated(text).phrases
      /\ route = "modify" /\ changed = "code" /\ verdict = "never" => "unverified" \in Gated(text).phrases
  BY <1>2, <1>3, Zenon DEF ToldAfter
<1>6. verdict = "failed" => "failed" \in Range(Gated(text).notes) \/ {"geom-jeung", "sil-pae"} \subseteq own
  BY <1>1, <1>2, <1>3, Zenon DEF ToldAfter, Telling
<1>7. AnswerIsHonest'
  BY <1>1, <1>4, <1>5, <1>6, Zenon DEF AnswerIsHonest, Facts, ValidationLacking, Has
<1> QED BY <1>1, <1>7, Zenon DEF FinalInv

LEMMA FinalStep == FinalInv /\ [FinalNext]_finalVars => FinalInv'
<1> SUFFICES ASSUME FinalInv, [FinalNext]_finalVars PROVE FinalInv'
  OBVIOUS
<1>1. CASE Begins
  BY <1>1, Zenon DEF Begins, FinalInv
<1>2. CASE RoundsEnd
  BY <1>2, RoundsEndInv
<1>3. CASE Finalize
  BY <1>3, FinalizeInv
<1>4. CASE Answer
  BY <1>4, AnswerInv
<1>5. CASE Policy
  BY <1>5, PolicyInv
<1>6. CASE UNCHANGED finalVars
  BY <1>6, Zenon DEF finalVars, FinalInv, AnswerIsHonest, Has, ValidationLacking, IsText
<1> QED BY <1>1, <1>2, <1>3, <1>4, <1>5, <1>6, Zenon DEF FinalNext

\* A turn that failed says so unless JSON or a table was asked for, what is lacking is
\* called missing, code that was never validated on a route without validation unverified,
\* and a failed validation is told, whatever the model wrote and the other gates added
\* (AnswerIsHonest; finalize_completion, final_answer_for_result, apply_final_answer_policy).
THEOREM AnswerIsHonestCorrect == FinalSpec => []AnswerIsHonest
<1>1. FinalInit => FinalInv
  BY FinalStart
<1>2. FinalInv /\ [FinalNext]_finalVars => FinalInv'
  BY FinalStep
<1>3. FinalInv => AnswerIsHonest
  BY Zenon DEF FinalInv, AnswerIsHonest
<1> QED BY <1>1, <1>2, <1>3, PTL DEF FinalSpec

-----------------------------------------------------------------------------
(* The messages of a turn: the results of every call follow it.            *)

Roles == {"system", "user", "assistant", "tool"}
Wordings == {"rules", "context", "prompt", "typed-1", "typed-2", "digest", "summary", "observations",
             "final", "bridge", "plan-it", "call", "result", "text", "retry"}
Messages == [role : Roles, says : Wordings, size : {1, Long, RecentSize, SummarySize}, calls : Nat]

\* Every call is followed by its results, of which n are still to come to the last one.
Paired(ms, n) ==
    /\ \A i \in DOMAIN ms : ms[i].calls > 0 =>
          /\ i + ms[i].calls <= Len(ms) + n
          /\ \A k \in DOMAIN ms : i < k /\ k <= i + ms[i].calls => ms[k].role = "tool"
    /\ \A k \in DOMAIN ms : ms[k].role = "tool" => \E j \in 1..(k - 1) : ms[j].calls >= k - j
    /\ n > 0 => \E j \in DOMAIN ms : j + ms[j].calls = Len(ms) + n

OnlyAssistantsCall(ms) == \A i \in DOMAIN ms : ms[i].calls > 0 => ms[i].role = "assistant"

Conversation(ms) ==
    ms \in Seq(Messages) /\ Paired(ms, 0) /\ UserAt(ms) # {} /\ OnlyAssistantsCall(ms)

\* What the user typed is among the messages, in their words.
Heard(ms, ts) ==
    /\ ts \subseteq Range(Typed)
    /\ \A t \in ts : \E i \in DOMAIN ms : ms[i].says = t
    /\ \A i \in DOMAIN ms : ms[i].says \in Range(Typed) => ms[i].role = "user"

LEMMA MessageParts ==
    ASSUME NEW m \in Messages
    PROVE  /\ m = [role |-> m.role, says |-> m.says, size |-> m.size, calls |-> m.calls]
           /\ m.role \in Roles /\ m.calls \in Nat
BY DEF Messages

LEMMA MessageOf ==
    ASSUME NEW role \in Roles, NEW says \in Wordings, NEW size \in {1, Long, RecentSize, SummarySize},
           NEW count \in Nat
    PROVE  /\ Message(role, says, size, count) \in Messages
           /\ Message(role, says, size, count).role = role
           /\ Message(role, says, size, count).says = says
           /\ Message(role, says, size, count).calls = count
BY DEF Message, Messages

LEMMA MessagesAt ==
    ASSUME NEW ms \in Seq(Messages)
    PROVE  /\ Len(ms) \in Nat /\ DOMAIN ms = 1..Len(ms)
           /\ \A i \in DOMAIN ms : ms[i] \in Messages /\ ms[i].calls \in Nat
<1>1. Len(ms) \in Nat /\ DOMAIN ms = 1..Len(ms) /\ \A i \in DOMAIN ms : ms[i] \in Messages
  OBVIOUS
<1> QED BY <1>1, MessageParts

\* The greatest and the least number of a set.
LEMMA GreatestIs ==
    ASSUME NEW S, S \subseteq Int, NEW x \in S, \A y \in S : x >= y
    PROVE  Max(S) = x
<1>1. Max(S) \in S /\ \A y \in S : Max(S) >= y
  BY Zenon DEF Max
<1> DEFINE m == Max(S)
<1>2. m \in Int /\ x \in Int /\ m >= x /\ x >= m
  BY <1>1
<1> HIDE DEF m
<1>3. m = x
  BY <1>2
<1> QED BY <1>3 DEF m

LEMMA LeastIs ==
    ASSUME NEW S, S \subseteq Int, NEW x \in S, \A y \in S : x <= y
    PROVE  Min(S) = x
<1>1. Min(S) \in S /\ \A y \in S : Min(S) <= y
  BY Zenon DEF Min
<1> DEFINE m == Min(S)
<1>2. m \in Int /\ x \in Int /\ m <= x /\ x <= m
  BY <1>1
<1> HIDE DEF m
<1>3. m = x
  BY <1>2
<1> QED BY <1>3 DEF m

LEMMA LeastIn ==
    ASSUME NEW S, S # {}, S \subseteq Nat
    PROVE  Min(S) \in S /\ \A y \in S : Min(S) <= y
<1>1. IsWellFoundedOn(OpToRel(<, Nat), Nat)
  BY NatLessThanWellFounded
<1>2. PICK x \in S : \A y \in S : ~(<<y, x>> \in OpToRel(<, Nat))
  BY <1>1, WFMin
<1>3. \A y \in S : ~(y < x)
  BY <1>2, Zenon DEF OpToRel
<1>4. \A y \in S : x <= y
  BY <1>3, SMT
<1> QED BY <1>4 DEF Min

LEMMA GreatestIn ==
    ASSUME NEW S, S # {}, NEW n \in Nat, S \subseteq 1..n
    PROVE  Max(S) \in S /\ \A y \in S : y <= Max(S)
<1> DEFINE T == {n - s : s \in S}
<1>1. T # {} /\ T \subseteq Nat
  <2>1. \A s \in S : n - s \in T /\ n - s \in Nat
    BY SMT
  <2> QED BY <2>1
<1>2. Min(T) \in T /\ \A y \in T : Min(T) <= y
  BY <1>1, LeastIn
<1>3. PICK x \in S : Min(T) = n - x
  BY <1>2
<1>4. \A y \in S : n - x <= n - y
  <2> TAKE y \in S
  <2>1. n - y \in T
    OBVIOUS
  <2> QED BY <1>2, <1>3, <2>1
<1>5. x \in Nat /\ S \subseteq Int /\ \A y \in S : x >= y
  BY <1>4
<1>6. Max(S) = x
  BY <1>5, GreatestIs
<1> QED BY <1>5, <1>6

-----------------------------------------------------------------------------
(* The blocks of a conversation.                                           *)

\* The message i is in the block that begins with s.
InBlock(b, s, i) ==
    s \in DOMAIN b /\ i \in DOMAIN b /\ s <= i /\ b[s].role # "tool" /\ i <= s + b[s].calls

LEMMA BlockExists ==
    ASSUME NEW b, Conversation(b), NEW i \in DOMAIN b
    PROVE  \E s \in DOMAIN b : InBlock(b, s, i)
<1>1. b \in Seq(Messages) /\ Paired(b, 0) /\ OnlyAssistantsCall(b)
  BY DEF Conversation
<1>2. Len(b) \in Nat /\ DOMAIN b = 1..Len(b) /\ \A k \in DOMAIN b : b[k].calls \in Nat
  BY <1>1, MessagesAt
<1>3. CASE b[i].role # "tool"
  BY <1>2, <1>3 DEF InBlock
<1>4. CASE b[i].role = "tool"
  <2>1. PICK j \in 1..(i - 1) : b[j].calls >= i - j
    BY <1>1, <1>4 DEF Paired
  <2>2. j \in DOMAIN b /\ j <= i /\ b[j].calls > 0 /\ i <= j + b[j].calls
    BY <1>2, <2>1
  <2>3. b[j].role # "tool"
    BY <1>1, <2>2 DEF OnlyAssistantsCall
  <2> QED BY <2>2, <2>3 DEF InBlock
<1> QED BY <1>3, <1>4

LEMMA BlockStart ==
    ASSUME NEW b, Conversation(b), NEW s, NEW i, InBlock(b, s, i)
    PROVE  Start(b, i) = s
<1>1. b \in Seq(Messages) /\ Paired(b, 0)
  BY DEF Conversation
<1>2. Len(b) \in Nat /\ DOMAIN b = 1..Len(b) /\ \A k \in DOMAIN b : b[k].calls \in Nat
  BY <1>1, MessagesAt
<1>3. s \in DOMAIN b /\ i \in DOMAIN b /\ s <= i /\ b[s].role # "tool" /\ i <= s + b[s].calls
  BY DEF InBlock
<1> DEFINE nearest == {k \in 1..i : b[k].role # "tool"} \cup {1}
<1>4. CASE s = i
  BY <1>3, <1>4 DEF Start
<1>5. CASE s # i
  <2>1. b[s].calls > 0
    BY <1>2, <1>3, <1>5
  <2>2. \A k \in DOMAIN b : s < k /\ k <= i => b[k].role = "tool"
    BY <1>1, <1>2, <1>3, <2>1 DEF Paired
  <2>3. s \in nearest /\ nearest \subseteq Int
    BY <1>2, <1>3
  <2>4. \A k \in nearest : s >= k
    BY <1>2, <1>3, <2>2
  <2>5. Max(nearest) = s
    BY <2>3, <2>4, GreatestIs
  <2>6. b[i].role = "tool"
    BY <1>2, <1>3, <1>5, <2>2
  <2> QED BY <2>1, <2>5, <2>6 DEF Start
<1> QED BY <1>4, <1>5

LEMMA BlockEnd ==
    ASSUME NEW b, Conversation(b), NEW s, NEW i, InBlock(b, s, i)
    PROVE  End(b, i) = s + b[s].calls
<1>1. b \in Seq(Messages) /\ Paired(b, 0)
  BY DEF Conversation
<1>2. Len(b) \in Nat /\ DOMAIN b = 1..Len(b) /\ \A k \in DOMAIN b : b[k].calls \in Nat
  BY <1>1, MessagesAt
<1>3. s \in DOMAIN b /\ i \in DOMAIN b /\ s <= i /\ b[s].role # "tool" /\ i <= s + b[s].calls
  BY DEF InBlock
<1> DEFINE e == s + b[s].calls
           same == {k \in i..Len(b) : Start(b, k) = Start(b, i)}
<1>4. e \in DOMAIN b /\ i <= e
  <2>1. b[s].calls > 0 => e <= Len(b)
    BY <1>1, <1>2, <1>3 DEF Paired
  <2> QED BY <1>2, <1>3, <2>1
<1>5. InBlock(b, s, e)
  BY <1>2, <1>3, <1>4 DEF InBlock
<1>6. e \in same
  BY <1>2, <1>4, <1>5, BlockStart
<1>7. ASSUME NEW k \in same PROVE e >= k
  <2>1. k \in DOMAIN b
    BY <1>2, <1>3
  <2>2. PICK t \in DOMAIN b : InBlock(b, t, k)
    BY <2>1, BlockExists
  <2>3. t = s
    BY <2>2, BlockStart
  <2> QED BY <2>2, <2>3, <1>2 DEF InBlock
<1>8. same \subseteq Int
  BY <1>2, <1>3
<1> QED BY <1>6, <1>7, <1>8, GreatestIs DEF End

LEMMA StartItself ==
    ASSUME NEW b, Conversation(b), NEW i \in DOMAIN b, b[i].role # "tool"
    PROVE  InBlock(b, i, i) /\ Start(b, i) = i /\ End(b, i) = i + b[i].calls
<1>1. b \in Seq(Messages)
  BY DEF Conversation
<1>2. Len(b) \in Nat /\ DOMAIN b = 1..Len(b) /\ \A k \in DOMAIN b : b[k].calls \in Nat
  BY <1>1, MessagesAt
<1>3. InBlock(b, i, i)
  BY <1>2 DEF InBlock
<1> QED BY <1>3, BlockStart, BlockEnd

\* A block is kept as a whole.
LEMMA BlocksKept ==
    ASSUME NEW b, Conversation(b), NEW s, NEW i, NEW k, InBlock(b, s, i), InBlock(b, s, k), i \in Kept(b)
    PROVE  k \in Kept(b)
<1>1. Start(b, i) = Start(b, k) /\ End(b, i) = End(b, k) /\ k \in DOMAIN b
  BY BlockStart, BlockEnd DEF InBlock
<1> QED BY <1>1, Zenon DEF Kept

LEMMA UsersFound ==
    ASSUME NEW ms, Conversation(ms)
    PROVE  /\ Min(UserAt(ms)) \in UserAt(ms) /\ Max(UserAt(ms)) \in UserAt(ms)
           /\ \A u \in UserAt(ms) : Min(UserAt(ms)) <= u /\ u <= Max(UserAt(ms))
           /\ FirstUser(ms).role = "user" /\ LastUser(ms).role = "user"
<1>1. Len(ms) \in Nat /\ DOMAIN ms = 1..Len(ms)
  BY MessagesAt DEF Conversation
<1>2. UserAt(ms) # {} /\ UserAt(ms) \subseteq 1..Len(ms) /\ UserAt(ms) \subseteq Nat
  BY <1>1 DEF Conversation, UserAt
<1>3. /\ Min(UserAt(ms)) \in UserAt(ms) /\ \A u \in UserAt(ms) : Min(UserAt(ms)) <= u
  BY <1>2, LeastIn
<1>4. /\ Max(UserAt(ms)) \in UserAt(ms) /\ \A u \in UserAt(ms) : u <= Max(UserAt(ms))
  BY <1>1, <1>2, GreatestIn
<1>5. FirstUser(ms).role = "user" /\ LastUser(ms).role = "user"
  BY <1>3, <1>4, Zenon DEF UserAt, FirstUser, LastUser
<1> QED BY <1>3, <1>4, <1>5

LEMMA EndsKept ==
    ASSUME NEW b, Conversation(b)
    PROVE  Min(UserAt(b)) \in Kept(b) /\ Max(UserAt(b)) \in Kept(b)
<1>1. Min(UserAt(b)) \in DOMAIN b /\ Max(UserAt(b)) \in DOMAIN b
  BY UsersFound, Zenon DEF UserAt
<1> QED BY <1>1, Zenon DEF Kept

\* What is added to messages of which some results are still to come.
LEMMA AppendPaired ==
    ASSUME NEW ms \in Seq(Messages), NEW n \in Nat, NEW m \in Messages,
           Paired(ms, n), OnlyAssistantsCall(ms), m.calls > 0 => m.role = "assistant"
    PROVE  /\ Append(ms, m) \in Seq(Messages) /\ OnlyAssistantsCall(Append(ms, m))
           /\ n = 0 /\ m.role # "tool" => Paired(Append(ms, m), m.calls)
           /\ n > 0 /\ m.role = "tool" => Paired(Append(ms, m), n - 1)
<1> DEFINE all == Append(ms, m)
<1>1. /\ all \in Seq(Messages) /\ Len(ms) \in Nat /\ DOMAIN ms = 1..Len(ms)
      /\ Len(all) = Len(ms) + 1 /\ DOMAIN all = 1..(Len(ms) + 1) /\ all[Len(ms) + 1] = m
      /\ \A i \in DOMAIN ms : all[i] = ms[i]
      /\ \A i \in DOMAIN all : all[i].calls \in Nat
      /\ m.calls \in Nat
  <2>1. all \in Seq(Messages)
    OBVIOUS
  <2> QED BY <2>1, AppendProperties, MessagesAt, MessageParts
<1> HIDE DEF all
<1>2. \A i \in DOMAIN all : i \in DOMAIN ms \/ i = Len(ms) + 1
  BY <1>1
<1>3. OnlyAssistantsCall(all)
  BY <1>1, <1>2 DEF OnlyAssistantsCall
<1>4. ASSUME n = 0, m.role # "tool" PROVE Paired(all, m.calls)
  <2>1. ASSUME NEW i \in DOMAIN all, all[i].calls > 0
        PROVE  /\ i + all[i].calls <= Len(all) + m.calls
               /\ \A k \in DOMAIN all : i < k /\ k <= i + all[i].calls => all[k].role = "tool"
    <3>1. CASE i \in DOMAIN ms
      BY <1>1, <1>4, <2>1, <3>1 DEF Paired
    <3>2. CASE i = Len(ms) + 1
      BY <1>1, <3>2
    <3> QED BY <1>2, <3>1, <3>2
  <2>2. ASSUME NEW k \in DOMAIN all, all[k].role = "tool"
        PROVE  \E j \in 1..(k - 1) : all[j].calls >= k - j
    <3>1. k \in DOMAIN ms /\ ms[k].role = "tool"
      BY <1>1, <1>2, <1>4, <2>2
    <3>2. PICK j \in 1..(k - 1) : ms[j].calls >= k - j
      BY <3>1 DEF Paired
    <3> QED BY <1>1, <3>1, <3>2
  <2>3. \E j \in DOMAIN all : j + all[j].calls = Len(all) + m.calls
    BY <1>1
  <2> QED BY <2>1, <2>2, <2>3 DEF Paired
<1>5. ASSUME n > 0, m.role = "tool" PROVE Paired(all, n - 1)
  <2>1. PICK j \in DOMAIN ms : j + ms[j].calls = Len(ms) + n
    BY <1>5 DEF Paired
  <2>2. m.calls = 0
    BY <1>1, <1>5
  <2>3. ASSUME NEW i \in DOMAIN all, all[i].calls > 0
        PROVE  /\ i + all[i].calls <= Len(all) + (n - 1)
               /\ \A k \in DOMAIN all : i < k /\ k <= i + all[i].calls => all[k].role = "tool"
    <3>1. i \in DOMAIN ms /\ ms[i].calls = all[i].calls
      BY <1>1, <1>2, <2>2, <2>3
    <3> QED BY <1>1, <1>2, <1>5, <2>3, <3>1 DEF Paired
  <2>4. ASSUME NEW k \in DOMAIN all, all[k].role = "tool"
        PROVE  \E i \in 1..(k - 1) : all[i].calls >= k - i
    <3>1. CASE k \in DOMAIN ms
      <4>1. PICK i \in 1..(k - 1) : ms[i].calls >= k - i
        BY <1>1, <2>4, <3>1 DEF Paired
      <4> QED BY <1>1, <3>1, <4>1
    <3>2. CASE k = Len(ms) + 1
      BY <1>1, <1>5, <2>1, <3>2
    <3> QED BY <1>2, <3>1, <3>2
  <2>5. j \in DOMAIN all /\ j + all[j].calls = Len(all) + (n - 1)
    BY <1>1, <2>1
  <2> QED BY <2>3, <2>4, <2>5 DEF Paired
<1> QED BY <1>1, <1>3, <1>4, <1>5 DEF all

LEMMA CompactedKeeps ==
    ASSUME NEW m \in Messages
    PROVE  /\ Compacted(m) \in Messages /\ Compacted(m).role = m.role
           /\ Compacted(m).says = m.says /\ Compacted(m).calls = m.calls
           /\ m.role = "user" => Compacted(m) = m
<1> DEFINE less == [m EXCEPT !.size = RecentSize]
<1>1. /\ less \in Messages /\ less.role = m.role /\ less.says = m.says /\ less.calls = m.calls
  BY DEF Messages
<1> HIDE DEF less
<1>2. Compacted(m) = IF m.role = "user" \/ m.size <= RecentSize THEN m ELSE less
  BY Zenon DEF Compacted, less
<1> QED BY <1>1, <1>2, Zenon

LEMMA SummaryParts == Summary \in Messages /\ Summary.role = "assistant" /\ Summary.calls = 0
BY DEF Summary, Message, Messages, Roles, Wordings

-----------------------------------------------------------------------------
(* What is kept of a body.                                                 *)

\* The results that the last message leaves to come, when it is kept.
Due(b, k) == IF k \in Kept(b) THEN End(b, k) - k ELSE 0

LEMMA DueCount ==
    ASSUME NEW b, Conversation(b), NEW k \in 0..Len(b)
    PROVE  /\ Due(b, k) \in Nat
           /\ k = 0 \/ k = Len(b) => Due(b, k) = 0
           /\ k < Len(b) /\ (Due(b, k) > 0 \/ (k + 1 \in Kept(b) /\ b[k + 1].role = "tool")) =>
                 /\ k \in Kept(b) /\ Due(b, k) > 0 /\ Due(b, k + 1) = Due(b, k) - 1
                 /\ k + 1 \in Kept(b) /\ b[k + 1].role = "tool"
           /\ k < Len(b) /\ k + 1 \in Kept(b) /\ b[k + 1].role # "tool" => Due(b, k + 1) = b[k + 1].calls
<1>1. b \in Seq(Messages) /\ Paired(b, 0) /\ OnlyAssistantsCall(b)
  BY DEF Conversation
<1>2. Len(b) \in Nat /\ DOMAIN b = 1..Len(b) /\ \A i \in DOMAIN b : b[i].calls \in Nat
  BY <1>1, MessagesAt
<1>3. Kept(b) \subseteq DOMAIN b
  BY Zenon DEF Kept
<1>4. ASSUME NEW s, NEW i, InBlock(b, s, i)
      PROVE  /\ End(b, i) = s + b[s].calls /\ i <= End(b, i) /\ End(b, i) <= Len(b) /\ i \in Nat
             /\ s \in DOMAIN b /\ End(b, i) \in Nat
  <2>1. End(b, i) = s + b[s].calls
    BY <1>4, BlockEnd
  <2>2. s \in DOMAIN b /\ i \in DOMAIN b /\ i <= s + b[s].calls /\ s <= i
    BY <1>4 DEF InBlock
  <2>3. b[s].calls > 0 => s + b[s].calls <= Len(b)
    BY <1>1, <1>2, <2>2 DEF Paired
  <2> QED BY <1>2, <2>1, <2>2, <2>3
<1>5. ASSUME k \in Kept(b)
      PROVE  Due(b, k) \in Nat /\ (k = Len(b) => Due(b, k) = 0)
  <2>1. PICK s \in DOMAIN b : InBlock(b, s, k)
    BY <1>3, <1>5, BlockExists
  <2>2. /\ k <= End(b, k) /\ End(b, k) <= Len(b) /\ k \in Nat /\ End(b, k) \in Nat
    BY <1>4, <2>1
  <2>3. Due(b, k) = End(b, k) - k
    BY <1>5, Zenon DEF Due
  <2> QED BY <1>2, <2>2, <2>3
<1>6. k = 0 => k \notin Kept(b)
  BY <1>2, <1>3
<1>7. ASSUME k < Len(b), k \in Kept(b), Due(b, k) > 0
      PROVE  k + 1 \in Kept(b) /\ b[k + 1].role = "tool" /\ Due(b, k + 1) = Due(b, k) - 1
  <2>1. PICK s \in DOMAIN b : InBlock(b, s, k)
    BY <1>3, <1>7, BlockExists
  <2>2. End(b, k) > k /\ End(b, k) = s + b[s].calls
    BY <1>2, <1>4, <1>7, <2>1 DEF Due
  <2>3. InBlock(b, s, k + 1)
    BY <1>2, <1>7, <2>1, <2>2 DEF InBlock
  <2>4. k + 1 \in Kept(b)
    BY <1>7, <2>1, <2>3, BlocksKept
  <2>5. End(b, k + 1) = End(b, k)
    BY <2>2, <2>3, BlockEnd
  <2>6. b[k + 1].role = "tool"
    <3>1. s < k + 1 /\ k + 1 <= s + b[s].calls /\ b[s].calls > 0 /\ k + 1 \in DOMAIN b
      BY <1>2, <1>7, <2>1, <2>2 DEF InBlock
    <3> QED BY <1>1, <1>2, <3>1 DEF Paired
  <2>7. Due(b, k + 1) = End(b, k) - (k + 1) /\ Due(b, k) = End(b, k) - k
    BY <1>7, <2>4, <2>5, Zenon DEF Due
  <2>8. End(b, k) \in Nat
    BY <1>4, <2>1
  <2> QED BY <2>4, <2>6, <2>7, <2>8
<1>8. ASSUME k < Len(b), k + 1 \in Kept(b), b[k + 1].role = "tool"
      PROVE  k \in Kept(b) /\ Due(b, k) > 0
  <2>1. PICK s \in DOMAIN b : InBlock(b, s, k + 1)
    BY <1>3, <1>8, BlockExists
  <2>2. s # k + 1 /\ s <= k + 1 /\ s \in Nat \ {0} /\ k + 1 <= s + b[s].calls /\ b[s].role # "tool"
    BY <1>2, <1>8, <2>1 DEF InBlock
  <2>3. InBlock(b, s, k)
    BY <1>2, <1>8, <2>1, <2>2 DEF InBlock
  <2>4. k \in Kept(b)
    BY <1>8, <2>1, <2>3, BlocksKept
  <2>5. End(b, k) = End(b, k + 1) /\ k + 1 <= End(b, k + 1)
    BY <1>4, <2>1, <2>3, BlockEnd
  <2>6. End(b, k) \in Nat
    BY <1>4, <2>3
  <2> QED BY <2>4, <2>5, <2>6 DEF Due
<1>9. ASSUME k < Len(b), k + 1 \in Kept(b), b[k + 1].role # "tool"
      PROVE  Due(b, k + 1) = b[k + 1].calls
  <2>1. End(b, k + 1) = (k + 1) + b[k + 1].calls
    BY <1>3, <1>9, StartItself
  <2>2. b[k + 1].calls \in Nat
    BY <1>2, <1>3, <1>9
  <2> QED BY <1>9, <2>1, <2>2 DEF Due
<1>10. k \notin Kept(b) => Due(b, k) = 0
  BY DEF Due
<1> QED BY <1>5, <1>6, <1>7, <1>8, <1>9, <1>10

RebuiltUpTo(prefix, b, f, n) ==
    f = [k \in 0..n |-> IF k = 0 THEN prefix ELSE RebuildOn(b, f[k - 1], k)]

LEMMA RebuiltExists == ASSUME NEW prefix, NEW b, NEW n \in Nat PROVE \E f : RebuiltUpTo(prefix, b, f, n)
<1> DEFINE K == {k \in Nat : \E f : RebuiltUpTo(prefix, b, f, k)}
<1>1. 0 \in K
  <2> DEFINE f == [m \in 0..0 |-> prefix]
  <2>1. \A m \in 0..0 : m = 0
    BY SMT
  <2>2. RebuiltUpTo(prefix, b, f, 0)
    BY <2>1, Zenon DEF RebuiltUpTo
  <2> QED BY <2>2
<1>2. ASSUME NEW k \in Nat, k \in K PROVE k + 1 \in K
  <2>1. PICK f : RebuiltUpTo(prefix, b, f, k)
    BY <1>2
  <2> DEFINE h == [m \in 0..(k + 1) |-> IF m = k + 1 THEN RebuildOn(b, f[k], k + 1) ELSE f[m]]
  <2>2. /\ \A m \in 0..(k + 1) : m = k + 1 \/ m \in 0..k
        /\ \A m \in 0..k : m # k + 1 /\ m \in 0..(k + 1)
        /\ \A m \in 0..(k + 1) : m # 0 => m - 1 \in 0..k
        /\ (k + 1) - 1 = k /\ k + 1 # 0 /\ k + 1 \in Nat
    BY SMT
  <2>3. \A m \in 0..k : f[m] = IF m = 0 THEN prefix ELSE RebuildOn(b, f[m - 1], m)
    BY <2>1, Zenon DEF RebuiltUpTo
  <2>4. \A m \in 0..k : h[m] = f[m]
    BY <2>2, Zenon
  <2>5. \A m \in 0..(k + 1) : h[m] = IF m = 0 THEN prefix ELSE RebuildOn(b, h[m - 1], m)
    <3> TAKE m \in 0..(k + 1)
    <3>1. CASE m = k + 1
      BY <3>1, <2>2, <2>4, Zenon
    <3>2. CASE m \in 0..k
      BY <3>2, <2>2, <2>3, <2>4, Zenon
    <3> QED BY <3>1, <3>2, <2>2
  <2>6. RebuiltUpTo(prefix, b, h, k + 1)
    BY <2>5, Zenon DEF RebuiltUpTo
  <2> QED BY <2>2, <2>6, Zenon
<1> HIDE DEF K
<1>3. Nat \subseteq K
  BY <1>1, <1>2, AllNumbers
<1> QED BY <1>3 DEF K

\* What is rebuilt of the first k messages of a body.
RebuiltWell(b, r, k) ==
    /\ r \in Seq(Messages) /\ OnlyAssistantsCall(r) /\ Paired(r, Due(b, k))
    /\ \A i \in Kept(b) : i <= k => \E j \in DOMAIN r : r[j] = Compacted(b[i])

LEMMA RebuiltOn ==
    ASSUME NEW b, Conversation(b), NEW r, NEW k \in Nat, k < Len(b), RebuiltWell(b, r, k)
    PROVE  RebuiltWell(b, RebuildOn(b, r, k + 1), k + 1)
<1>1. b \in Seq(Messages) /\ OnlyAssistantsCall(b)
  BY DEF Conversation
<1>2. Len(b) \in Nat /\ DOMAIN b = 1..Len(b) /\ k + 1 \in DOMAIN b /\ k \in 0..Len(b)
  BY <1>1, MessagesAt
<1>3. /\ r \in Seq(Messages) /\ OnlyAssistantsCall(r) /\ Paired(r, Due(b, k))
      /\ \A i \in Kept(b) : i <= k => \E j \in DOMAIN r : r[j] = Compacted(b[i])
  BY DEF RebuiltWell
<1>4. Kept(b) \subseteq DOMAIN b
  BY Zenon DEF Kept
<1> DEFINE m == Compacted(b[k + 1])
           first == Min(UserAt(b))
<1>5. b[k + 1] \in Messages
  BY <1>1, <1>2, MessagesAt
<1>6. m \in Messages /\ m.role = b[k + 1].role /\ m.calls = b[k + 1].calls
  BY <1>5, CompactedKeeps
<1>7. m.calls > 0 => m.role = "assistant"
  BY <1>1, <1>2, <1>6 DEF OnlyAssistantsCall
<1>8. Due(b, k) \in Nat
  BY <1>2, DueCount
<1>9. first \in Kept(b) /\ first \in UserAt(b)
  BY EndsKept, UsersFound
<1> HIDE DEF m
<1>10. CASE k + 1 \notin Kept(b)
  <2>1. k + 1 # first
    BY <1>9, <1>10
  <2>2. RebuildOn(b, r, k + 1) = r \o <<>>
    BY <1>10, <2>1, Zenon DEF RebuildOn
  <2>3. RebuildOn(b, r, k + 1) = r
    BY <1>3, <2>2, ConcatEmptySeq
  <2>4. Due(b, k) = 0
    <3>1. Due(b, k) > 0 => k + 1 \in Kept(b)
      BY <1>2, DueCount
    <3> QED BY <1>8, <1>10, <3>1
  <2>5. Due(b, k + 1) = 0
    BY <1>10 DEF Due
  <2>6. \A i \in Kept(b) : i <= k + 1 => i <= k
    BY <1>2, <1>4, <1>10
  <2> QED BY <1>3, <2>3, <2>4, <2>5, <2>6 DEF RebuiltWell
<1>11. CASE k + 1 \in Kept(b)
  <2> DEFINE next == Append(r, m)
  <2>1. /\ next \in Seq(Messages) /\ OnlyAssistantsCall(next) /\ Paired(next, Due(b, k + 1))
    <3>1. CASE m.role = "tool"
      <4>1. Due(b, k) > 0 /\ Due(b, k + 1) = Due(b, k) - 1
        BY <1>2, <1>6, <1>11, <3>1, DueCount
      <4> QED BY <1>3, <1>6, <1>7, <1>8, <3>1, <4>1, AppendPaired
    <3>2. CASE m.role # "tool"
      <4>1. Due(b, k) = 0 /\ Due(b, k + 1) = m.calls
        <5>1. /\ Due(b, k) > 0 => b[k + 1].role = "tool"
              /\ Due(b, k + 1) = b[k + 1].calls
          BY <1>2, <1>6, <1>11, <3>2, DueCount
        <5> QED BY <1>6, <1>8, <3>2, <5>1
      <4> QED BY <1>3, <1>6, <1>7, <3>2, <4>1, AppendPaired
    <3> QED BY <3>1, <3>2
  <2>2. \A i \in Kept(b) : i <= k + 1 => \E j \in DOMAIN next : next[j] = Compacted(b[i])
    <3> SUFFICES ASSUME NEW i \in Kept(b), i <= k + 1 PROVE \E j \in DOMAIN next : next[j] = Compacted(b[i])
      OBVIOUS
    <3>1. /\ DOMAIN next = 1..(Len(r) + 1) /\ next[Len(r) + 1] = m /\ Len(r) \in Nat
          /\ DOMAIN r \subseteq DOMAIN next /\ \A j \in DOMAIN r : next[j] = r[j]
      BY <1>3, <1>6, AppendApplied
    <3>2. CASE i = k + 1
      BY <3>1, <3>2 DEF m
    <3>3. CASE i # k + 1
      <4>1. i <= k
        BY <1>2, <1>4, <3>3
      <4>2. PICK j \in DOMAIN r : r[j] = Compacted(b[i])
        BY <1>3, <4>1
      <4> QED BY <3>1, <4>2
    <3> QED BY <3>2, <3>3
  <2> HIDE DEF next
  <2>3. CASE k + 1 # first
    <3>1. RebuildOn(b, r, k + 1) = next \o <<>>
      BY <1>11, <2>3, Zenon DEF RebuildOn, next, m
    <3>2. RebuildOn(b, r, k + 1) = next
      BY <2>1, <3>1, ConcatEmptySeq
    <3> QED BY <2>1, <2>2, <3>2 DEF RebuiltWell
  <2>4. CASE k + 1 = first
    <3>1. RebuildOn(b, r, k + 1) = next \o <<Summary>>
      BY <1>11, <2>4, Zenon DEF RebuildOn, next, m
    <3>2. RebuildOn(b, r, k + 1) = Append(next, Summary)
      BY <2>1, <3>1, SummaryParts, AppendIsConcat
    <3>3. m.role = "user"
      BY <1>6, <1>9, <2>4 DEF UserAt
    <3>4. m.calls \in Nat /\ b[k + 1].calls = 0 /\ b[k + 1].role # "tool"
      BY <1>6, <1>7, <3>3, MessageParts
    <3>5. Due(b, k + 1) = 0
      BY <1>2, <1>11, <3>4, DueCount
    <3>6. /\ Append(next, Summary) \in Seq(Messages) /\ OnlyAssistantsCall(Append(next, Summary))
          /\ Paired(Append(next, Summary), Due(b, k + 1))
      BY <2>1, <3>5, SummaryParts, AppendPaired
    <3>7. /\ DOMAIN next \subseteq DOMAIN Append(next, Summary)
          /\ \A j \in DOMAIN next : Append(next, Summary)[j] = next[j]
      BY <2>1, SummaryParts, AppendApplied
    <3> QED BY <2>2, <3>2, <3>6, <3>7 DEF RebuiltWell
  <2> QED BY <2>3, <2>4
<1> QED BY <1>10, <1>11

LEMMA RebuiltWhole ==
    ASSUME NEW b, Conversation(b), NEW prefix \in Seq(Messages), OnlyAssistantsCall(prefix), Paired(prefix, 0)
    PROVE  RebuiltWell(b, Rebuilt(prefix, b), Len(b)) /\ Due(b, Len(b)) = 0
<1>1. Len(b) \in Nat /\ DOMAIN b = 1..Len(b)
  BY MessagesAt DEF Conversation
<1> DEFINE f == CHOOSE f : RebuiltUpTo(prefix, b, f, Len(b))
           K == {k \in Nat : k <= Len(b) => RebuiltWell(b, f[k], k)}
<1>2. RebuiltUpTo(prefix, b, f, Len(b))
  BY <1>1, RebuiltExists, Zenon
<1>3. Rebuilt(prefix, b) = f[Len(b)]
  BY Zenon DEF Rebuilt, RebuiltUpTo
<1> HIDE DEF f
<1>4. \A k \in 0..Len(b) : f[k] = IF k = 0 THEN prefix ELSE RebuildOn(b, f[k - 1], k)
  BY <1>2, Zenon DEF RebuiltUpTo
<1>5. 0 \in K
  <2>1. 0 \in 0..Len(b)
    BY <1>1
  <2>2. f[0] = prefix
    BY <1>4, <2>1, Zenon
  <2>3. Due(b, 0) = 0
    BY <2>1, DueCount
  <2>4. \A i \in Kept(b) : ~(i <= 0)
    <3>1. Kept(b) \subseteq DOMAIN b
      BY Zenon DEF Kept
    <3> QED BY <1>1, <3>1
  <2> QED BY <2>2, <2>3, <2>4 DEF RebuiltWell
<1>6. ASSUME NEW k \in Nat, k \in K PROVE k + 1 \in K
  <2> SUFFICES ASSUME k + 1 <= Len(b) PROVE RebuiltWell(b, f[k + 1], k + 1)
    OBVIOUS
  <2>1. k < Len(b) /\ k <= Len(b) /\ k + 1 \in 0..Len(b) /\ k + 1 # 0 /\ (k + 1) - 1 = k
    BY <1>1
  <2>2. RebuiltWell(b, f[k], k)
    BY <1>6, <2>1
  <2>3. f[k + 1] = RebuildOn(b, f[k], k + 1)
    BY <1>4, <2>1, Zenon
  <2> QED BY <2>1, <2>2, <2>3, RebuiltOn
<1> HIDE DEF K
<1>7. Nat \subseteq K
  BY <1>5, <1>6, AllNumbers
<1>8. Len(b) \in K /\ Len(b) <= Len(b) /\ Len(b) \in 0..Len(b)
  BY <1>1, <1>7
<1>9. RebuiltWell(b, f[Len(b)], Len(b))
  BY <1>8, Zenon DEF K
<1>10. Due(b, Len(b)) = 0
  BY <1>8, DueCount
<1> QED BY <1>3, <1>9, <1>10

-----------------------------------------------------------------------------
(* What is cut down.                                                       *)

CutsUpTo(ms, f, n) == f = [k \in 0..n |-> IF k = 0 THEN {} ELSE CutOn(ms, f[k - 1])]

LEMMA CutsExist == ASSUME NEW ms, NEW n \in Nat PROVE \E f : CutsUpTo(ms, f, n)
<1> DEFINE K == {k \in Nat : \E f : CutsUpTo(ms, f, k)}
<1>1. 0 \in K
  <2> DEFINE f == [m \in 0..0 |-> {}]
  <2>1. \A m \in 0..0 : m = 0
    BY SMT
  <2>2. CutsUpTo(ms, f, 0)
    BY <2>1, Zenon DEF CutsUpTo
  <2> QED BY <2>2
<1>2. ASSUME NEW k \in Nat, k \in K PROVE k + 1 \in K
  <2>1. PICK f : CutsUpTo(ms, f, k)
    BY <1>2
  <2> DEFINE h == [m \in 0..(k + 1) |-> IF m = k + 1 THEN CutOn(ms, f[k]) ELSE f[m]]
  <2>2. /\ \A m \in 0..(k + 1) : m = k + 1 \/ m \in 0..k
        /\ \A m \in 0..k : m # k + 1 /\ m \in 0..(k + 1)
        /\ \A m \in 0..(k + 1) : m # 0 => m - 1 \in 0..k
        /\ (k + 1) - 1 = k /\ k + 1 # 0 /\ k + 1 \in Nat
    BY SMT
  <2>3. \A m \in 0..k : f[m] = IF m = 0 THEN {} ELSE CutOn(ms, f[m - 1])
    BY <2>1, Zenon DEF CutsUpTo
  <2>4. \A m \in 0..k : h[m] = f[m]
    BY <2>2, Zenon
  <2>5. \A m \in 0..(k + 1) : h[m] = IF m = 0 THEN {} ELSE CutOn(ms, h[m - 1])
    <3> TAKE m \in 0..(k + 1)
    <3>1. CASE m = k + 1
      BY <3>1, <2>2, <2>4, Zenon
    <3>2. CASE m \in 0..k
      BY <3>2, <2>2, <2>3, <2>4, Zenon
    <3> QED BY <3>1, <3>2, <2>2
  <2>6. CutsUpTo(ms, h, k + 1)
    BY <2>5, Zenon DEF CutsUpTo
  <2> QED BY <2>2, <2>6, Zenon
<1> HIDE DEF K
<1>3. Nat \subseteq K
  BY <1>1, <1>2, AllNumbers
<1> QED BY <1>3 DEF K

\* No message of the user is cut down.
LEMMA CutsSpareUsers ==
    ASSUME NEW ms \in Seq(Messages), NEW gone, gone \cap UserAt(ms) = {}
    PROVE  CutOn(ms, gone) \cap UserAt(ms) = {}
<1>1. Len(ms) \in Nat /\ DOMAIN ms = 1..Len(ms)
  BY MessagesAt
<1> DEFINE systems == {i \in DOMAIN ms : ms[i].role = "system"}
           first == IF systems = {} THEN 0 ELSE Min(systems)
           others == (MayCut(ms) \ {first}) \ gone
<1>2. MayCut(ms) \subseteq Nat /\ MayCut(ms) \cap UserAt(ms) = {}
  <2>1. MayCut(ms) \subseteq DOMAIN ms /\ \A i \in MayCut(ms) : ms[i].role # "user"
    BY Zenon DEF MayCut
  <2>2. DOMAIN ms \subseteq Nat
    BY <1>1
  <2> QED BY <2>1, <2>2, Zenon DEF UserAt
<1>3. NextCut(ms, gone) = IF others # {} THEN Min(others) ELSE first
  BY Zenon DEF NextCut
<1> HIDE DEF first
<1>4. others # {} => NextCut(ms, gone) \in MayCut(ms)
  <2>1. others \subseteq Nat
    BY <1>2
  <2>2. others # {} => Min(others) \in others
    BY <2>1, LeastIn
  <2> HIDE DEF others
  <2>3. others \subseteq MayCut(ms)
    BY DEF others
  <2> QED BY <1>3, <2>2, <2>3
<1>5. MayCut(ms) \ gone # {} => NextCut(ms, gone) \in MayCut(ms)
  <2>1. ASSUME others = {}, MayCut(ms) \ gone # {} PROVE first \in MayCut(ms)
    BY <2>1
  <2> HIDE DEF others
  <2> QED BY <1>3, <1>4, <2>1, Zenon
<1>6. CutOn(ms, gone) = gone \/ (MayCut(ms) \ gone # {} /\ CutOn(ms, gone) = gone \cup {NextCut(ms, gone)})
  BY Zenon DEF CutOn
<1> QED BY <1>2, <1>5, <1>6

\* What a message keeps when messages are cut down.
SameButSizes(v, r) ==
    /\ v \in Seq(Messages) /\ Len(v) = Len(r) /\ DOMAIN v = DOMAIN r
    /\ \A i \in DOMAIN r : /\ v[i].role = r[i].role /\ v[i].says = r[i].says /\ v[i].calls = r[i].calls
                           /\ r[i].role = "user" => v[i] = r[i]

LEMMA BoundedKeeps == ASSUME NEW r \in Seq(Messages) PROVE SameButSizes(Bounded(r), r)
<1>1. Len(r) \in Nat /\ DOMAIN r = 1..Len(r) /\ \A i \in DOMAIN r : r[i] \in Messages
  BY MessagesAt
<1> DEFINE f == CHOOSE f : CutsUpTo(r, f, Len(r))
           K == {k \in Nat : k <= Len(r) => f[k] \cap UserAt(r) = {}}
<1>2. CutsUpTo(r, f, Len(r))
  BY <1>1, CutsExist, Zenon
<1>3. Bounded(r) = CutDown(r, f[Len(r)])
  BY Zenon DEF Bounded, CutsUpTo
<1> HIDE DEF f
<1>4. \A k \in 0..Len(r) : f[k] = IF k = 0 THEN {} ELSE CutOn(r, f[k - 1])
  BY <1>2, Zenon DEF CutsUpTo
<1>5. 0 \in K
  BY <1>1, <1>4
<1>6. ASSUME NEW k \in Nat, k \in K PROVE k + 1 \in K
  <2> SUFFICES ASSUME k + 1 <= Len(r) PROVE f[k + 1] \cap UserAt(r) = {}
    OBVIOUS
  <2>1. k <= Len(r) /\ k + 1 \in 0..Len(r) /\ k + 1 # 0 /\ (k + 1) - 1 = k
    BY <1>1
  <2>2. f[k] \cap UserAt(r) = {}
    BY <1>6, <2>1
  <2>3. f[k + 1] = CutOn(r, f[k])
    BY <1>4, <2>1, Zenon
  <2> QED BY <2>2, <2>3, CutsSpareUsers
<1> HIDE DEF K
<1>7. Nat \subseteq K
  BY <1>5, <1>6, AllNumbers
<1> DEFINE gone == f[Len(r)]
<1>8. gone \cap UserAt(r) = {}
  BY <1>1, <1>7 DEF K
<1> HIDE DEF gone
<1> DEFINE v == CutDown(r, gone)
<1>9. DOMAIN v = DOMAIN r /\ \A i \in DOMAIN r : v[i] = IF i \in gone THEN [r[i] EXCEPT !.size = 1] ELSE r[i]
  BY Zenon DEF CutDown
<1>10. v = [i \in 1..Len(r) |-> IF i \in gone THEN [r[i] EXCEPT !.size = 1] ELSE r[i]]
  BY <1>1, Zenon DEF CutDown
<1>11. \A i \in DOMAIN r : LET m == [r[i] EXCEPT !.size = 1]
                           IN /\ m \in Messages /\ m.role = r[i].role /\ m.says = r[i].says
                              /\ m.calls = r[i].calls
  BY <1>1 DEF Messages
<1>12. v \in Seq(Messages) /\ Len(v) = Len(r)
  <2>1. \A i \in 1..Len(r) : v[i] \in Messages
    BY <1>1, <1>9, <1>11, Zenon
  <2>2. v \in [1..Len(r) -> Messages]
    <3> DEFINE e(i) == IF i \in gone THEN [r[i] EXCEPT !.size = 1] ELSE r[i]
    <3>1. v = [i \in 1..Len(r) |-> e(i)] /\ \A i \in 1..Len(r) : v[i] = e(i)
      BY <1>1, <1>9, <1>10, Zenon
    <3> HIDE DEF e, v
    <3> QED BY <2>1, <3>1
  <2> HIDE DEF v
  <2> QED BY <1>1, <2>2
<1>13. \A i \in DOMAIN r : r[i].role = "user" => v[i] = r[i]
  BY <1>8, <1>9, Zenon DEF UserAt
<1>14. \A i \in DOMAIN r : v[i].role = r[i].role /\ v[i].says = r[i].says /\ v[i].calls = r[i].calls
  BY <1>9, <1>11, Zenon
<1> QED BY <1>3, <1>9, <1>12, <1>13, <1>14, Zenon DEF SameButSizes, gone

-----------------------------------------------------------------------------
(* The leading system messages and the body.                               *)

\* ms has d system messages before what b has.
After(ms, b, d) ==
    /\ ms \in Seq(Messages) /\ b \in Seq(Messages) /\ d \in Nat /\ Len(ms) = d + Len(b)
    /\ \A i \in DOMAIN b : ms[d + i] = b[i]
    /\ \A i \in 1..d : ms[i].role = "system" /\ ms[i].calls = 0 /\ ms[i].says \notin Range(Typed)

LEMMA AfterAt ==
    ASSUME NEW ms, NEW b, NEW d, After(ms, b, d)
    PROVE  /\ Len(b) \in Nat /\ DOMAIN b = 1..Len(b) /\ DOMAIN ms = 1..(d + Len(b)) /\ d \in Nat
           /\ \A i \in DOMAIN b : d + i \in DOMAIN ms /\ ms[d + i] = b[i] /\ b[i].calls \in Nat
           /\ \A i \in DOMAIN ms : \/ i \in 1..d /\ ms[i].role = "system" /\ ms[i].calls = 0
                                      /\ ms[i].says \notin Range(Typed)
                                   \/ i > d /\ i - d \in DOMAIN b /\ ms[i] = b[i - d]
<1>1. /\ ms \in Seq(Messages) /\ b \in Seq(Messages) /\ d \in Nat /\ Len(ms) = d + Len(b)
      /\ \A i \in DOMAIN b : ms[d + i] = b[i]
      /\ \A i \in 1..d : ms[i].role = "system" /\ ms[i].calls = 0 /\ ms[i].says \notin Range(Typed)
  BY DEF After
<1>2. /\ Len(b) \in Nat /\ DOMAIN b = 1..Len(b) /\ DOMAIN ms = 1..(d + Len(b))
      /\ \A i \in DOMAIN b : b[i].calls \in Nat
  BY <1>1, MessagesAt
<1>3. \A i \in DOMAIN b : d + i \in DOMAIN ms
  BY <1>1, <1>2
<1>4. ASSUME NEW i \in DOMAIN ms, i \notin 1..d PROVE i > d /\ i - d \in DOMAIN b /\ ms[i] = b[i - d]
  <2>1. i > d /\ i - d \in DOMAIN b /\ d + (i - d) = i
    BY <1>1, <1>2, <1>4
  <2>2. ms[d + (i - d)] = b[i - d]
    BY <1>1, <2>1
  <2> QED BY <2>1, <2>2
<1> QED BY <1>1, <1>2, <1>3, <1>4

LEMMA AfterPaired ==
    ASSUME NEW ms, NEW b, NEW d, After(ms, b, d)
    PROVE  Paired(ms, 0) <=> Paired(b, 0)
<1>1. /\ Len(b) \in Nat /\ DOMAIN b = 1..Len(b) /\ DOMAIN ms = 1..(d + Len(b)) /\ d \in Nat
      /\ \A i \in DOMAIN b : d + i \in DOMAIN ms /\ ms[d + i] = b[i] /\ b[i].calls \in Nat
      /\ \A i \in DOMAIN ms : \/ i \in 1..d /\ ms[i].role = "system" /\ ms[i].calls = 0
                              \/ i > d /\ i - d \in DOMAIN b /\ ms[i] = b[i - d]
      /\ Len(ms) = d + Len(b)
  <2>1. Len(ms) = d + Len(b)
    BY DEF After
  <2> QED BY <2>1, AfterAt
<1>2. ASSUME Paired(ms, 0) PROVE Paired(b, 0)
  <2>1. ASSUME NEW i \in DOMAIN b, b[i].calls > 0
        PROVE  /\ i + b[i].calls <= Len(b) + 0
               /\ \A k \in DOMAIN b : i < k /\ k <= i + b[i].calls => b[k].role = "tool"
    <3>1. /\ (d + i) + b[i].calls <= Len(ms) + 0
          /\ \A k \in DOMAIN ms : d + i < k /\ k <= (d + i) + b[i].calls => ms[k].role = "tool"
      BY <1>1, <1>2, <2>1 DEF Paired
    <3>2. ASSUME NEW k \in DOMAIN b, i < k, k <= i + b[i].calls PROVE b[k].role = "tool"
      <4>1. d + i < d + k /\ d + k <= (d + i) + b[i].calls /\ d + k \in DOMAIN ms /\ ms[d + k] = b[k]
        BY <1>1, <3>2
      <4> QED BY <3>1, <4>1
    <3> QED BY <1>1, <3>1, <3>2
  <2>2. ASSUME NEW k \in DOMAIN b, b[k].role = "tool" PROVE \E j \in 1..(k - 1) : b[j].calls >= k - j
    <3>1. PICK j \in 1..((d + k) - 1) : ms[j].calls >= (d + k) - j
      BY <1>1, <1>2, <2>2 DEF Paired
    <3>2. j \in DOMAIN ms /\ (d + k) - j > 0
      BY <1>1, <3>1
    <3>3. j > d /\ j - d \in DOMAIN b /\ ms[j] = b[j - d]
      BY <1>1, <3>1, <3>2
    <3>4. j - d \in 1..(k - 1) /\ k - (j - d) = (d + k) - j
      BY <1>1, <3>1, <3>3
    <3> QED BY <3>1, <3>3, <3>4
  <2> QED BY <2>1, <2>2 DEF Paired
<1>3. ASSUME Paired(b, 0) PROVE Paired(ms, 0)
  <2>1. ASSUME NEW i \in DOMAIN ms, ms[i].calls > 0
        PROVE  /\ i + ms[i].calls <= Len(ms) + 0
               /\ \A k \in DOMAIN ms : i < k /\ k <= i + ms[i].calls => ms[k].role = "tool"
    <3>1. i > d /\ i - d \in DOMAIN b /\ ms[i] = b[i - d]
      BY <1>1, <2>1
    <3>2. /\ (i - d) + ms[i].calls <= Len(b) + 0
          /\ \A k \in DOMAIN b : i - d < k /\ k <= (i - d) + ms[i].calls => b[k].role = "tool"
      BY <1>3, <2>1, <3>1 DEF Paired
    <3>3. ASSUME NEW k \in DOMAIN ms, i < k, k <= i + ms[i].calls PROVE ms[k].role = "tool"
      <4>1. k > d /\ k - d \in DOMAIN b /\ ms[k] = b[k - d]
        BY <1>1, <3>1, <3>3
      <4>2. i - d < k - d /\ k - d <= (i - d) + ms[i].calls
        BY <1>1, <3>1, <3>3
      <4> QED BY <3>2, <4>1, <4>2
    <3> QED BY <1>1, <3>1, <3>2, <3>3
  <2>2. ASSUME NEW k \in DOMAIN ms, ms[k].role = "tool" PROVE \E j \in 1..(k - 1) : ms[j].calls >= k - j
    <3>1. k > d /\ k - d \in DOMAIN b /\ ms[k] = b[k - d]
      BY <1>1, <2>2
    <3>2. PICK j \in 1..((k - d) - 1) : b[j].calls >= (k - d) - j
      BY <1>3, <2>2, <3>1 DEF Paired
    <3>3. k - d \in 1..Len(b) /\ k \in Int
      BY <1>1, <3>1
    <3>4. j \in DOMAIN b /\ d + j \in 1..(k - 1) /\ k - (d + j) = (k - d) - j
      BY <1>1, <3>2, <3>3
    <3>5. ms[d + j] = b[j]
      BY <1>1, <3>4
    <3> QED BY <3>2, <3>4, <3>5
  <2> QED BY <2>1, <2>2 DEF Paired
<1> QED BY <1>2, <1>3

LEMMA AfterWhole ==
    ASSUME NEW ms, NEW b, NEW d, After(ms, b, d)
    PROVE  /\ Conversation(ms) <=> Conversation(b)
           /\ Conversation(b) => FirstUser(ms) = FirstUser(b) /\ LastUser(ms) = LastUser(b)
           /\ \A ts : Heard(ms, ts) <=> Heard(b, ts)
<1>1. /\ Len(b) \in Nat /\ DOMAIN b = 1..Len(b) /\ DOMAIN ms = 1..(d + Len(b)) /\ d \in Nat
      /\ \A i \in DOMAIN b : d + i \in DOMAIN ms /\ ms[d + i] = b[i] /\ b[i].calls \in Nat
      /\ \A i \in DOMAIN ms : \/ i \in 1..d /\ ms[i].role = "system" /\ ms[i].calls = 0
                                 /\ ms[i].says \notin Range(Typed)
                              \/ i > d /\ i - d \in DOMAIN b /\ ms[i] = b[i - d]
  BY AfterAt
<1>2. OnlyAssistantsCall(ms) <=> OnlyAssistantsCall(b)
  <2>1. ASSUME OnlyAssistantsCall(ms), NEW i \in DOMAIN b, b[i].calls > 0 PROVE b[i].role = "assistant"
    BY <1>1, <2>1 DEF OnlyAssistantsCall
  <2>2. ASSUME OnlyAssistantsCall(b), NEW i \in DOMAIN ms, ms[i].calls > 0 PROVE ms[i].role = "assistant"
    BY <1>1, <2>2 DEF OnlyAssistantsCall
  <2> QED BY <2>1, <2>2 DEF OnlyAssistantsCall
<1>3. /\ \A u \in UserAt(b) : d + u \in UserAt(ms)
      /\ \A u \in UserAt(ms) : u > d /\ u - d \in UserAt(b)
  BY <1>1 DEF UserAt
<1>4. Conversation(ms) <=> Conversation(b)
  <2>1. UserAt(ms) # {} <=> UserAt(b) # {}
    BY <1>3
  <2>2. ms \in Seq(Messages) /\ b \in Seq(Messages)
    BY DEF After
  <2> QED BY <1>2, <2>1, <2>2, AfterPaired DEF Conversation
<1>5. ASSUME Conversation(b) PROVE FirstUser(ms) = FirstUser(b) /\ LastUser(ms) = LastUser(b)
  <2> DEFINE first == Min(UserAt(b))
             latest == Max(UserAt(b))
  <2>1. first \in UserAt(b) /\ latest \in UserAt(b) /\ \A u \in UserAt(b) : first <= u /\ u <= latest
    BY <1>5, UsersFound
  <2>2. UserAt(b) \subseteq DOMAIN b /\ UserAt(ms) \subseteq Int
    <3>1. UserAt(b) \subseteq DOMAIN b /\ UserAt(ms) \subseteq DOMAIN ms
      BY DEF UserAt
    <3> QED BY <1>1, <3>1
  <2> HIDE DEF first, latest
  <2>3. \A u \in UserAt(ms) : d + first <= u /\ d + latest >= u
    <3> TAKE u \in UserAt(ms)
    <3>1. u - d \in UserAt(b) /\ u \in Int
      BY <1>3, <2>2
    <3>2. first <= u - d /\ u - d <= latest /\ first \in Int /\ latest \in Int
      BY <1>1, <2>1, <2>2, <3>1
    <3> QED BY <1>1, <3>1, <3>2
  <2>4. d + first \in UserAt(ms) /\ d + latest \in UserAt(ms)
    BY <1>3, <2>1
  <2>5. Min(UserAt(ms)) = d + first /\ Max(UserAt(ms)) = d + latest
    BY <2>2, <2>3, <2>4, LeastIs, GreatestIs
  <2>6. ms[d + first] = b[first] /\ ms[d + latest] = b[latest]
    BY <1>1, <2>1, <2>2
  <2> QED BY <2>5, <2>6, Zenon DEF FirstUser, LastUser, first, latest
<1>6. ASSUME NEW ts, Heard(ms, ts) PROVE Heard(b, ts)
  <2>1. \A t \in ts : \E i \in DOMAIN b : b[i].says = t
    <3> TAKE t \in ts
    <3>1. PICK i \in DOMAIN ms : ms[i].says = t
      BY <1>6 DEF Heard
    <3>2. t \in Range(Typed)
      BY <1>6 DEF Heard
    <3> QED BY <1>1, <3>1, <3>2
  <2>2. ASSUME NEW i \in DOMAIN b, b[i].says \in Range(Typed) PROVE b[i].role = "user"
    BY <1>1, <1>6, <2>2 DEF Heard
  <2> QED BY <1>6, <2>1, <2>2 DEF Heard
<1>7. ASSUME NEW ts, Heard(b, ts) PROVE Heard(ms, ts)
  <2>1. \A t \in ts : \E i \in DOMAIN ms : ms[i].says = t
    <3> TAKE t \in ts
    <3>1. PICK i \in DOMAIN b : b[i].says = t
      BY <1>7 DEF Heard
    <3> QED BY <1>1, <3>1
  <2>2. ASSUME NEW i \in DOMAIN ms, ms[i].says \in Range(Typed) PROVE ms[i].role = "user"
    BY <1>1, <1>7, <2>2 DEF Heard
  <2> QED BY <1>7, <2>1, <2>2 DEF Heard
<1> QED BY <1>4, <1>5, <1>6, <1>7

\* The leading system messages of a conversation, and what comes after them.
LEMMA BodyAfterPrefix ==
    ASSUME NEW ms, Conversation(ms), NEW ts, Heard(ms, ts)
    PROVE  /\ After(ms, Body(ms), Len(Prefix(ms))) /\ Prefix(ms) \in Seq(Messages)
           /\ \A i \in DOMAIN Prefix(ms) : /\ Prefix(ms)[i].role = "system" /\ Prefix(ms)[i].calls = 0
                                           /\ Prefix(ms)[i].says \notin Range(Typed)
<1>1. ms \in Seq(Messages) /\ OnlyAssistantsCall(ms) /\ UserAt(ms) # {}
  BY DEF Conversation
<1>2. /\ Len(ms) \in Nat /\ DOMAIN ms = 1..Len(ms)
      /\ \A i \in DOMAIN ms : ms[i] \in Messages /\ ms[i].calls \in Nat
  BY <1>1, MessagesAt
<1> DEFINE others == {i \in DOMAIN ms : ms[i].role # "system"}
           p == BodyAt(ms)
<1>3. others # {} /\ others \subseteq Nat
  <2>1. UserAt(ms) \subseteq others
    BY DEF UserAt
  <2> QED BY <1>1, <1>2, <2>1
<1>4. p \in others /\ \A i \in others : p <= i
  BY <1>3, LeastIn DEF BodyAt
<1> HIDE DEF p
<1>5. p \in 1..Len(ms) /\ \A i \in DOMAIN ms : i < p => ms[i].role = "system"
  BY <1>2, <1>4
<1>6. \A i \in DOMAIN ms : i < p => ms[i].calls = 0 /\ ms[i].says \notin Range(Typed)
  BY <1>1, <1>2, <1>5 DEF OnlyAssistantsCall, Heard
<1> DEFINE prefix == SubSeq(ms, 1, p - 1)
           body == SubSeq(ms, p, Len(ms))
<1>7. /\ prefix \in Seq(Messages) /\ Len(prefix) = p - 1 /\ \A i \in 1..(p - 1) : prefix[i] = ms[i]
  <2>1. \A i \in 1..(p - 1) : ms[i] \in Messages
    BY <1>2, <1>5
  <2>2. /\ prefix \in Seq(Messages) /\ Len(prefix) = IF 1 <= p - 1 THEN (p - 1) - 1 + 1 ELSE 0
        /\ \A i \in 1..((p - 1) - 1 + 1) : prefix[i] = ms[1 + i - 1]
    BY <1>5, <2>1, SubSeqProperties
  <2> HIDE DEF prefix
  <2> QED BY <1>5, <2>2
<1>8. /\ body \in Seq(Messages) /\ Len(body) = Len(ms) - p + 1
      /\ \A i \in 1..(Len(ms) - p + 1) : body[i] = ms[(p - 1) + i]
  <2>1. \A i \in p..Len(ms) : ms[i] \in Messages
    BY <1>2, <1>5
  <2>2. /\ body \in Seq(Messages) /\ Len(body) = IF p <= Len(ms) THEN Len(ms) - p + 1 ELSE 0
        /\ \A i \in 1..(Len(ms) - p + 1) : body[i] = ms[p + i - 1]
    BY <1>2, <1>5, <2>1, SubSeqProperties
  <2>3. \A i \in 1..(Len(ms) - p + 1) : p + i - 1 = (p - 1) + i
    BY <1>5
  <2> HIDE DEF body
  <2> QED BY <1>5, <2>2, <2>3
<1>9. Prefix(ms) = prefix /\ Body(ms) = body
  BY DEF Prefix, Body, p
<1> HIDE DEF prefix, body
<1>10. DOMAIN prefix = 1..(p - 1) /\ DOMAIN body = 1..(Len(ms) - p + 1) /\ p - 1 \in Nat
  BY <1>5, <1>7, <1>8, MessagesAt
<1>11. After(ms, body, p - 1)
  <2>1. Len(ms) = (p - 1) + Len(body)
    BY <1>2, <1>5, <1>8
  <2>2. \A i \in 1..(p - 1) : i \in DOMAIN ms /\ i < p
    BY <1>2, <1>5
  <2> QED BY <1>1, <1>5, <1>6, <1>8, <1>10, <2>1, <2>2 DEF After
<1>12. \A i \in DOMAIN prefix : i \in DOMAIN ms /\ i < p /\ prefix[i] = ms[i]
  BY <1>2, <1>5, <1>7, <1>10
<1> QED BY <1>5, <1>6, <1>7, <1>9, <1>11, <1>12

\* The reminder of a route that changes files does not break a conversation.
LEMMA DigestKeeps ==
    ASSUME NEW ms, Conversation(ms), NEW ts, Heard(ms, ts)
    PROVE  /\ Conversation(WithDigest(ms)) /\ Heard(WithDigest(ms), ts)
           /\ FirstUser(WithDigest(ms)) = FirstUser(ms) /\ LastUser(WithDigest(ms)) = LastUser(ms)
<1> DEFINE digest == Message("system", "digest", Long, 0)
           prefix == Prefix(ms)
           b == Body(ms)
           front == prefix \o <<digest>>
<1>1. /\ After(ms, b, Len(prefix)) /\ prefix \in Seq(Messages)
      /\ \A i \in DOMAIN prefix : /\ prefix[i].role = "system" /\ prefix[i].calls = 0
                                  /\ prefix[i].says \notin Range(Typed)
  BY BodyAfterPrefix
<1>2. digest \in Messages /\ digest.role = "system" /\ digest.calls = 0 /\ digest.says = "digest"
  BY MessageOf DEF Roles, Wordings
<1>3. "digest" \notin Range(Typed)
  BY DEF Range, Typed
<1> HIDE DEF digest, prefix, b
<1>4. b \in Seq(Messages)
  BY <1>1 DEF After
<1>5. /\ front \in Seq(Messages) /\ front = Append(prefix, digest)
  BY <1>1, <1>2, AppendIsConcat
<1>6. \A i \in DOMAIN front : /\ front[i].role = "system" /\ front[i].calls = 0
                              /\ front[i].says \notin Range(Typed)
  <2>1. /\ DOMAIN front = 1..(Len(prefix) + 1) /\ front[Len(prefix) + 1] = digest /\ Len(prefix) \in Nat
        /\ DOMAIN prefix = 1..Len(prefix) /\ \A i \in DOMAIN prefix : front[i] = prefix[i]
    BY <1>1, <1>2, <1>5, AppendApplied
  <2>2. \A i \in DOMAIN front : i \in DOMAIN prefix \/ i = Len(prefix) + 1
    BY <2>1
  <2> QED BY <1>1, <1>2, <1>3, <2>1, <2>2
<1> HIDE DEF front
<1>7. After(front \o b, b, Len(front))
  <2>1. /\ front \o b \in Seq(Messages) /\ Len(front \o b) = Len(front) + Len(b)
        /\ Len(front) \in Nat /\ DOMAIN front = 1..Len(front) /\ DOMAIN b = 1..Len(b) /\ Len(b) \in Nat
        /\ \A i \in 1..(Len(front) + Len(b)) :
              (front \o b)[i] = IF i <= Len(front) THEN front[i] ELSE b[i - Len(front)]
    BY <1>4, <1>5, ConcatProperties, MessagesAt
  <2>2. \A i \in DOMAIN b : (front \o b)[Len(front) + i] = b[i]
    BY <2>1
  <2>3. \A i \in 1..Len(front) : (front \o b)[i] = front[i]
    BY <2>1
  <2> QED BY <1>4, <1>6, <2>1, <2>2, <2>3 DEF After
<1>8. WithDigest(ms) = front \o b
  BY DEF WithDigest, front, digest, prefix, b
<1> QED BY <1>1, <1>7, <1>8, AfterWhole

-----------------------------------------------------------------------------
(* The requests.                                                           *)

\* A request for the messages ms, in which the user typed ts.
RequestFor(q, ms, ts) ==
    /\ q.messages \in Seq(Messages) /\ Paired(q.messages, 0)
    /\ {FirstUser(ms), LastUser(ms)} \subseteq Range(q.messages)
    /\ q.complete => ts \subseteq {q.messages[i].says : i \in DOMAIN q.messages} \cup q.listed

LEMMA SameSizesPaired ==
    ASSUME NEW r, NEW v, Paired(r, 0), SameButSizes(v, r)
    PROVE  Paired(v, 0)
<1>1. /\ Len(v) = Len(r) /\ DOMAIN v = DOMAIN r
      /\ \A i \in DOMAIN r : v[i].role = r[i].role /\ v[i].calls = r[i].calls
  BY DEF SameButSizes
<1>2. /\ \A i \in DOMAIN r : r[i].calls > 0 =>
            /\ i + r[i].calls <= Len(r) + 0
            /\ \A k \in DOMAIN r : i < k /\ k <= i + r[i].calls => r[k].role = "tool"
  BY DEF Paired
<1>3. ASSUME NEW k \in DOMAIN v, v[k].role = "tool" PROVE \E j \in 1..(k - 1) : v[j].calls >= k - j
  <2>1. r[k].role = "tool"
    BY <1>1, <1>3
  <2>2. PICK j \in 1..(k - 1) : r[j].calls >= k - j
    BY <1>1, <1>3, <2>1 DEF Paired
  <2>3. k \in 1..Len(r) /\ DOMAIN r = 1..Len(r) /\ Len(r) \in Nat
    BY <1>1, <1>3, MessagesAt DEF SameButSizes
  <2>4. j \in DOMAIN r
    BY <2>2, <2>3
  <2> QED BY <1>1, <2>2, <2>4
<1> QED BY <1>1, <1>2, <1>3 DEF Paired

\* The texts of the user that are left out are listed, when the list has room for them.
LEMMA LeftOutAreListed ==
    ASSUME NEW b, Conversation(b), NEW ts, Heard(b, ts), NEW t \in ts,
           NEW omitted \in SUBSET DOMAIN b, NEW i \in omitted, b[i].says = t,
           Cardinality(UserTexts(b, omitted)) <= Listed
    PROVE  t \in ListedOf(b, omitted)
<1>1. Len(b) \in Nat /\ DOMAIN b = 1..Len(b)
  BY MessagesAt DEF Conversation
<1> DEFINE same == {k \in omitted : b[k].says = t}
           j == Min(same)
           texts == UserTexts(b, omitted)
           before == {k \in texts : k < j}
<1>2. j \in same /\ \A k \in same : j <= k
  <2>1. same # {} /\ same \subseteq Nat
    BY <1>1
  <2> HIDE DEF same
  <2> QED BY <2>1, LeastIn
<1> HIDE DEF j
<1>3. j \in omitted /\ b[j].says = t /\ \A k \in omitted : b[k].says = t => j <= k
  BY <1>2
<1>4. b[j].role = "user"
  BY <1>3 DEF Heard
<1>5. j \in texts
  <2>1. \A k \in omitted : k < j => b[k].says # b[j].says
    BY <1>1, <1>3
  <2> QED BY <1>3, <1>4, <2>1 DEF UserTexts
<1>6. IsFiniteSet(texts)
  <2>1. texts \subseteq 1..Len(b)
    BY <1>1 DEF UserTexts
  <2>2. IsFiniteSet(1..Len(b))
    BY <1>1, FS_Interval
  <2> QED BY <2>1, <2>2, FS_Subset
<1>7. before \subseteq texts /\ before # texts
  BY <1>1, <1>3, <1>5
<1> HIDE DEF texts
<1>8. Cardinality(before) < Cardinality(texts) /\ Cardinality(before) \in Nat /\ Cardinality(texts) \in Nat
  BY <1>6, <1>7, FS_Subset, FS_CardinalityType
<1>9. Cardinality(before) < Listed
  BY <1>8, RequestsAssumption DEF texts
<1>10. j \in {l \in texts : Cardinality({k \in texts : k < l}) < Listed}
  BY <1>5, <1>9
<1> QED BY <1>3, <1>10, Zenon DEF ListedOf, texts

\* What the condensed view of a body shows of it.
LEMMA ViewShows ==
    ASSUME NEW b, Conversation(b), NEW r, RebuiltWell(b, r, Len(b)), Due(b, Len(b)) = 0,
           NEW v, v = r \/ v = Bounded(r)
    PROVE  /\ v \in Seq(Messages) /\ Paired(v, 0)
           /\ {FirstUser(b), LastUser(b)} \subseteq Range(v)
           /\ \A i \in Kept(b) : \E j \in DOMAIN v : v[j].says = b[i].says
<1>1. /\ r \in Seq(Messages) /\ Paired(r, 0)
      /\ \A i \in Kept(b) : i <= Len(b) => \E j \in DOMAIN r : r[j] = Compacted(b[i])
  BY DEF RebuiltWell
<1>2. /\ Len(b) \in Nat /\ DOMAIN b = 1..Len(b) /\ \A i \in DOMAIN b : b[i] \in Messages
  BY MessagesAt DEF Conversation
<1>3. Kept(b) \subseteq DOMAIN b
  BY Zenon DEF Kept
<1>4. SameButSizes(v, r)
  <2>1. SameButSizes(r, r)
    BY <1>1 DEF SameButSizes
  <2> QED BY <1>1, <2>1, BoundedKeeps
<1>5. /\ v \in Seq(Messages) /\ DOMAIN v = DOMAIN r
      /\ \A i \in DOMAIN r : v[i].says = r[i].says /\ (r[i].role = "user" => v[i] = r[i])
  BY <1>4 DEF SameButSizes
<1>6. Paired(v, 0)
  BY <1>1, <1>4, SameSizesPaired
<1>7. ASSUME NEW i \in Kept(b)
      PROVE  \E j \in DOMAIN v : v[j].says = b[i].says /\ (b[i].role = "user" => v[j] = b[i])
  <2>1. i \in DOMAIN b /\ i <= Len(b) /\ b[i] \in Messages
    BY <1>2, <1>3
  <2>2. PICK j \in DOMAIN r : r[j] = Compacted(b[i])
    BY <1>1, <2>1
  <2>3. r[j].says = b[i].says /\ r[j].role = b[i].role /\ (b[i].role = "user" => r[j] = b[i])
    BY <2>1, <2>2, CompactedKeeps
  <2> QED BY <1>5, <2>2, <2>3
<1>8. ASSUME NEW u \in UserAt(b), u \in Kept(b) PROVE b[u] \in Range(v)
  <2>1. b[u].role = "user"
    BY DEF UserAt
  <2>2. PICK j \in DOMAIN v : v[j] = b[u]
    BY <1>7, <1>8, <2>1
  <2> QED BY <2>2 DEF Range
<1>9. FirstUser(b) \in Range(v) /\ LastUser(b) \in Range(v)
  BY <1>8, EndsKept, UsersFound, Zenon DEF FirstUser, LastUser
<1> QED BY <1>5, <1>6, <1>7, <1>9

\* A round's request, condensed or not.
LEMMA CondensedWell ==
    ASSUME NEW ms, Conversation(ms), NEW ts, Heard(ms, ts)
    PROVE  RequestFor(Condensed(ms), ms, ts)
<1> DEFINE b == Body(ms)
           prefix == Prefix(ms)
           rebuilt == Rebuilt(prefix, b)
           view == IF Size(rebuilt) > Budget THEN Bounded(rebuilt) ELSE rebuilt
           whole == Summary \in Range(view)
           omitted == DOMAIN b \ Kept(b)
           q == Condensed(ms)
<1>1. CASE Size(ms) <= Budget
  <2>1. q.messages = ms
    BY <1>1, Zenon DEF Condensed
  <2>2. ms \in Seq(Messages) /\ Paired(ms, 0)
    BY DEF Conversation
  <2>3. {FirstUser(ms), LastUser(ms)} \subseteq Range(ms)
    <3>1. Min(UserAt(ms)) \in DOMAIN ms /\ Max(UserAt(ms)) \in DOMAIN ms
      BY UsersFound, Zenon DEF UserAt
    <3> QED BY <3>1, Zenon DEF FirstUser, LastUser, Range
  <2>4. ts \subseteq {ms[i].says : i \in DOMAIN ms}
    BY DEF Heard
  <2> QED BY <2>1, <2>2, <2>3, <2>4, Zenon DEF RequestFor
<1>2. CASE ~(Size(ms) <= Budget)
  <2>1. /\ q.messages = view
        /\ q.complete = (whole /\ Cardinality(UserTexts(b, omitted)) <= Listed)
        /\ q.listed = IF whole THEN ListedOf(b, omitted) ELSE {}
    BY <1>2, Zenon DEF Condensed
  <2> HIDE DEF q
  <2>2. /\ After(ms, b, Len(prefix)) /\ prefix \in Seq(Messages)
        /\ \A i \in DOMAIN prefix : prefix[i].role = "system" /\ prefix[i].calls = 0
    BY BodyAfterPrefix
  <2> HIDE DEF b, prefix
  <2>3. /\ Conversation(b) /\ Heard(b, ts)
        /\ FirstUser(ms) = FirstUser(b) /\ LastUser(ms) = LastUser(b)
    BY <2>2, AfterWhole
  <2>4. OnlyAssistantsCall(prefix) /\ Paired(prefix, 0)
    BY <2>2 DEF OnlyAssistantsCall, Paired
  <2>5. RebuiltWell(b, rebuilt, Len(b)) /\ Due(b, Len(b)) = 0
    BY <2>2, <2>3, <2>4, RebuiltWhole
  <2>6. view = rebuilt \/ view = Bounded(rebuilt)
    OBVIOUS
  <2> HIDE DEF rebuilt, view
  <2>7. /\ view \in Seq(Messages) /\ Paired(view, 0)
        /\ {FirstUser(b), LastUser(b)} \subseteq Range(view)
        /\ \A i \in Kept(b) : \E j \in DOMAIN view : view[j].says = b[i].says
    BY <2>3, <2>5, <2>6, ViewShows
  <2>8. ASSUME whole, Cardinality(UserTexts(b, omitted)) <= Listed, NEW t \in ts
        PROVE  t \in {view[i].says : i \in DOMAIN view} \cup ListedOf(b, omitted)
    <3>1. PICK i \in DOMAIN b : b[i].says = t
      BY <2>3 DEF Heard
    <3>2. CASE i \in Kept(b)
      BY <2>7, <3>1, <3>2
    <3>3. CASE i \in omitted
      <4>1. omitted \in SUBSET DOMAIN b
        OBVIOUS
      <4> HIDE DEF omitted
      <4> QED BY <2>3, <2>8, <3>1, <3>3, <4>1, LeftOutAreListed
    <3> QED BY <3>2, <3>3
  <2> HIDE DEF whole, omitted
  <2>9. q.complete => ts \subseteq {view[i].says : i \in DOMAIN view} \cup q.listed
    <3>1. ASSUME q.complete PROVE whole /\ Cardinality(UserTexts(b, omitted)) <= Listed
      BY <2>1, <3>1, Zenon
    <3>2. whole => q.listed = ListedOf(b, omitted)
      BY <2>1, Zenon
    <3> QED BY <2>8, <3>1, <3>2, Zenon
  <2> QED BY <2>1, <2>3, <2>7, <2>9, Zenon DEF RequestFor, q
<1> QED BY <1>1, <1>2

\* Messages that call nothing and answer no call.
Plain(ms) == ms \in Seq(Messages) /\ \A i \in DOMAIN ms : ms[i].role # "tool" /\ ms[i].calls = 0

LEMMA PlainPaired == ASSUME NEW ms, Plain(ms) PROVE Paired(ms, 0)
BY DEF Plain, Paired

LEMMA PlainConcat == ASSUME NEW ms, NEW t, Plain(ms), Plain(t) PROVE Plain(ms \o t)
<1>1. ms \in Seq(Messages) /\ t \in Seq(Messages)
  BY DEF Plain
<1>2. /\ ms \o t \in Seq(Messages) /\ DOMAIN ms = 1..Len(ms) /\ DOMAIN t = 1..Len(t)
      /\ Len(ms) \in Nat /\ Len(t) \in Nat /\ DOMAIN (ms \o t) = 1..(Len(ms) + Len(t))
      /\ \A i \in 1..Len(ms) : (ms \o t)[i] = ms[i]
      /\ \A i \in 1..(Len(ms) + Len(t)) : i > Len(ms) => i - Len(ms) \in 1..Len(t) /\ (ms \o t)[i] = t[i - Len(ms)]
  BY <1>1, ConcatApplied
<1>3. ASSUME NEW i \in DOMAIN (ms \o t) PROVE (ms \o t)[i].role # "tool" /\ (ms \o t)[i].calls = 0
  <2>1. CASE i <= Len(ms)
    <3>1. i \in DOMAIN ms /\ (ms \o t)[i] = ms[i]
      BY <1>2, <1>3, <2>1
    <3> QED BY <3>1 DEF Plain
  <2>2. CASE ~(i <= Len(ms))
    <3>1. i - Len(ms) \in DOMAIN t /\ (ms \o t)[i] = t[i - Len(ms)]
      BY <1>2, <1>3, <2>2
    <3> QED BY <3>1 DEF Plain
  <2> QED BY <2>1, <2>2
<1> QED BY <1>2, <1>3 DEF Plain

LEMMA PlainOne ==
    ASSUME NEW m \in Messages, m.role # "tool", m.calls = 0
    PROVE  Plain(<<m>>)
BY DEF Plain

\* A conversation without results has no calls.
LEMMA NoCalls ==
    ASSUME NEW ms, Conversation(ms), \A i \in DOMAIN ms : ms[i].role # "tool"
    PROVE  Plain(ms)
<1>1. ms \in Seq(Messages) /\ Paired(ms, 0)
  BY DEF Conversation
<1>2. Len(ms) \in Nat /\ DOMAIN ms = 1..Len(ms) /\ \A i \in DOMAIN ms : ms[i].calls \in Nat
  BY <1>1, MessagesAt
<1>3. ASSUME NEW i \in DOMAIN ms, ms[i].calls # 0 PROVE FALSE
  <2>1. /\ i + ms[i].calls <= Len(ms) + 0
        /\ \A k \in DOMAIN ms : i < k /\ k <= i + ms[i].calls => ms[k].role = "tool"
    BY <1>1, <1>2, <1>3 DEF Paired
  <2>2. i + 1 \in DOMAIN ms /\ i < i + 1 /\ i + 1 <= i + ms[i].calls
    BY <1>2, <1>3, <2>1
  <2> QED BY <2>1, <2>2
<1> QED BY <1>1, <1>3 DEF Plain

\* The messages of the call that asks for the final answer.
LEMMA FinalCallWell ==
    ASSUME NEW ms, Conversation(ms)
    PROVE  /\ FinalCall(ms) \in Seq(Messages) /\ Paired(FinalCall(ms), 0)
           /\ {FirstUser(ms), LastUser(ms)} \subseteq Range(FinalCall(ms))
<1>1. ms \in Seq(Messages) /\ OnlyAssistantsCall(ms)
  BY DEF Conversation
<1>2. Len(ms) \in Nat /\ DOMAIN ms = 1..Len(ms) /\ \A i \in DOMAIN ms : ms[i] \in Messages /\ ms[i].calls \in Nat
  BY <1>1, MessagesAt
<1> DEFINE first == FirstUser(ms)
           latest == LastUser(ms)
<1>3. /\ first \in Messages /\ first.role = "user" /\ first.calls = 0 /\ first \in Range(ms)
      /\ latest \in Messages /\ latest.role = "user" /\ latest.calls = 0 /\ latest \in Range(ms)
  <2>1. \A u \in UserAt(ms) : ms[u] \in Messages /\ ms[u].role = "user" /\ ms[u].calls = 0 /\ ms[u] \in Range(ms)
    BY <1>1, <1>2 DEF UserAt, OnlyAssistantsCall, Range
  <2> QED BY <2>1, UsersFound, Zenon DEF FirstUser, LastUser
<1> HIDE DEF first, latest
<1>4. CASE \E i \in DOMAIN ms : ms[i].role = "tool"
  <2> DEFINE rules == Message("system", "rules", Long, 0)
             observations == Message("assistant", "observations", Long, 0)
             all == <<rules, first, observations, latest>>
  <2>1. FinalCall(ms) = all
    BY <1>4, Zenon DEF FinalCall, first, latest
  <2>2. /\ rules \in Messages /\ rules.role = "system" /\ rules.calls = 0
        /\ observations \in Messages /\ observations.role = "assistant" /\ observations.calls = 0
    BY MessageOf DEF Roles, Wordings
  <2> HIDE DEF rules, observations
  <2>3. all \in Seq(Messages) /\ DOMAIN all = 1..4 /\ all[2] = first /\ all[4] = latest
    BY <1>3, <2>2
  <2>4. \A i \in DOMAIN all : all[i].role # "tool" /\ all[i].calls = 0
    BY <1>3, <2>2
  <2> HIDE DEF all
  <2>5. Paired(all, 0)
    BY <2>3, <2>4, PlainPaired DEF Plain
  <2>6. {first, latest} \subseteq Range(all)
    BY <2>3 DEF Range
  <2> QED BY <2>1, <2>3, <2>5, <2>6 DEF first, latest
<1>5. CASE \A i \in DOMAIN ms : ms[i].role # "tool"
  <2> DEFINE asked == IF ms[Len(ms)].role = "user" THEN ms ELSE Append(ms, User("final"))
             n == Len(asked)
             bridge == Message("assistant", "bridge", 1, 0)
             bridged == Append(Append(SubSeq(asked, 1, n - 1), bridge), asked[n])
  <2>1. FinalCall(ms) = IF n >= 2 /\ asked[n - 1].role = "user" THEN bridged ELSE asked
    <3>1. ~(\E i \in DOMAIN ms : ms[i].role = "tool")
      BY <1>5
    <3> QED BY <3>1, Zenon DEF FinalCall
  <2>2. /\ User("final") \in Messages /\ User("final").role = "user" /\ User("final").calls = 0
        /\ bridge \in Messages /\ bridge.role = "assistant" /\ bridge.calls = 0
    BY MessageOf DEF User, Roles, Wordings
  <2> HIDE DEF bridge
  <2>3. Plain(ms)
    BY <1>5, NoCalls
  <2>4. Plain(asked) /\ Range(ms) \subseteq Range(asked)
    <3>1. Append(ms, User("final")) = ms \o <<User("final")>>
      BY <1>1, <2>2, AppendIsConcat
    <3>2. Plain(<<User("final")>>)
      BY <2>2, PlainOne
    <3>3. Plain(Append(ms, User("final")))
      BY <2>3, <3>1, <3>2, PlainConcat
    <3>4. Range(ms) \subseteq Range(Append(ms, User("final")))
      <4>1. <<User("final")>> \in Seq(Messages)
        BY <2>2
      <4>2. Range(ms \o <<User("final")>>) = Range(ms) \cup Range(<<User("final")>>)
        BY <1>1, <4>1, RangeConcat
      <4> QED BY <3>1, <4>2, Zenon
    <3> QED BY <2>3, <3>3, <3>4
  <2> HIDE DEF asked
  <2>5. Len(asked) \in Nat /\ DOMAIN asked = 1..Len(asked) /\ asked \in Seq(Messages)
    BY <2>4, MessagesAt DEF Plain
  <2>6. ASSUME n >= 2 PROVE Plain(bridged) /\ Range(asked) \subseteq Range(bridged)
    <3> DEFINE front == SubSeq(asked, 1, n - 1)
    <3>1. /\ front \in Seq(Messages) /\ Len(front) = n - 1
          /\ \A i \in 1..(n - 1) : front[i] = asked[i]
      <4>1. \A i \in 1..(n - 1) : asked[i] \in Messages
        BY <2>5
      <4>2. /\ front \in Seq(Messages) /\ Len(front) = IF 1 <= n - 1 THEN (n - 1) - 1 + 1 ELSE 0
            /\ \A i \in 1..((n - 1) - 1 + 1) : front[i] = asked[1 + i - 1]
        BY <2>5, <4>1, SubSeqProperties
      <4> HIDE DEF front
      <4> QED BY <2>5, <2>6, <4>2
    <3> HIDE DEF front
    <3>2. DOMAIN front = 1..(n - 1) /\ n \in DOMAIN asked /\ asked[n] \in Messages
      BY <2>5, <2>6, <3>1
    <3>3. \A i \in DOMAIN asked : asked[i].role # "tool" /\ asked[i].calls = 0
      BY <2>4 DEF Plain
    <3>4. Plain(front)
      <4>1. \A i \in DOMAIN front : i \in DOMAIN asked /\ front[i] = asked[i]
        BY <2>5, <3>1, <3>2
      <4> QED BY <3>1, <3>3, <4>1 DEF Plain
    <3>5. Plain(<<bridge>>) /\ Plain(<<asked[n]>>)
      BY <2>2, <3>2, <3>3, PlainOne
    <3>6. bridged = (front \o <<bridge>>) \o <<asked[n]>>
      <4>1. Append(front, bridge) = front \o <<bridge>> /\ Append(front, bridge) \in Seq(Messages)
        BY <2>2, <3>1, AppendIsConcat, AppendProperties
      <4>2. Append(Append(front, bridge), asked[n]) = Append(front, bridge) \o <<asked[n]>>
        BY <3>2, <4>1, AppendIsConcat
      <4> QED BY <4>1, <4>2 DEF front
    <3>7. Plain(front \o <<bridge>>)
      BY <3>4, <3>5, PlainConcat
    <3>8. Plain(bridged)
      BY <3>5, <3>6, <3>7, PlainConcat
    <3>9. Range(bridged) = (Range(front) \cup Range(<<bridge>>)) \cup Range(<<asked[n]>>)
      <4>1. <<bridge>> \in Seq(Messages) /\ <<asked[n]>> \in Seq(Messages) /\ front \o <<bridge>> \in Seq(Messages)
        BY <3>5, <3>7 DEF Plain
      <4>2. Range(front \o <<bridge>>) = Range(front) \cup Range(<<bridge>>)
        BY <3>1, <4>1, RangeConcat
      <4>3. Range((front \o <<bridge>>) \o <<asked[n]>>) = Range(front \o <<bridge>>) \cup Range(<<asked[n]>>)
        BY <4>1, RangeConcat
      <4> QED BY <3>6, <4>2, <4>3, Zenon
    <3> HIDE DEF bridged
    <3>10. asked[n] \in Range(<<asked[n]>>)
      BY DEF Range
    <3>11. ASSUME NEW i \in DOMAIN asked PROVE asked[i] \in Range(bridged)
      <4>1. CASE i = n
        BY <3>9, <3>10, <4>1
      <4>2. CASE i # n
        <5>1. i \in DOMAIN front /\ front[i] = asked[i]
          BY <2>5, <3>1, <3>2, <4>2
        <5>2. asked[i] \in Range(front)
          BY <5>1 DEF Range
        <5> QED BY <3>9, <5>2
      <4> QED BY <4>1, <4>2
    <3>12. Range(asked) \subseteq Range(bridged)
      BY <3>11, Zenon DEF Range
    <3> QED BY <3>8, <3>12
  <2> HIDE DEF bridged
  <2>7. Plain(FinalCall(ms)) /\ Range(ms) \subseteq Range(FinalCall(ms))
    BY <2>1, <2>4, <2>6, Zenon
  <2> QED BY <1>3, <2>7, PlainPaired DEF Plain, first, latest
<1> QED BY <1>4, <1>5

-----------------------------------------------------------------------------
(* The steps of a turn.                                                    *)

RequestsInv ==
    /\ loop = "start" => messages = <<>> /\ steered = {}
    /\ loop # "start" => Conversation(messages) /\ Heard(messages, steered)
    /\ loop = "called" => RequestFor(request, messages, steered)

LEMMA RequestsHold == ASSUME RequestsInv PROVE RequestsAreWhole
<1> DEFINE ms == request.messages
<1> SUFFICES ASSUME loop = "called"
             PROVE  /\ \A i \in DOMAIN ms : ms[i].calls > 0 =>
                          i + ms[i].calls \in DOMAIN ms /\ \A k \in 1..ms[i].calls : ms[i + k].role = "tool"
                    /\ \A i \in DOMAIN ms : ms[i].role = "tool" => \E j \in 1..(i - 1) : ms[j].calls >= i - j
                    /\ {FirstUser(messages), LastUser(messages)} \subseteq Range(ms)
                    /\ request.complete => steered \subseteq {ms[i].says : i \in DOMAIN ms} \cup request.listed
  BY Zenon DEF RequestsAreWhole
<1>1. /\ ms \in Seq(Messages) /\ Paired(ms, 0)
      /\ {FirstUser(messages), LastUser(messages)} \subseteq Range(ms)
      /\ request.complete => steered \subseteq {ms[i].says : i \in DOMAIN ms} \cup request.listed
  BY Zenon DEF RequestsInv, RequestFor
<1> HIDE DEF ms
<1>2. Len(ms) \in Nat /\ DOMAIN ms = 1..Len(ms) /\ \A i \in DOMAIN ms : ms[i].calls \in Nat
  BY <1>1, MessagesAt
<1>3. ASSUME NEW i \in DOMAIN ms, ms[i].calls > 0
      PROVE  i + ms[i].calls \in DOMAIN ms /\ \A k \in 1..ms[i].calls : ms[i + k].role = "tool"
  <2>1. /\ i + ms[i].calls <= Len(ms) + 0
        /\ \A k \in DOMAIN ms : i < k /\ k <= i + ms[i].calls => ms[k].role = "tool"
    BY <1>1, <1>3 DEF Paired
  <2>2. i + ms[i].calls \in DOMAIN ms
    BY <1>2, <1>3, <2>1
  <2>3. ASSUME NEW k \in 1..ms[i].calls PROVE ms[i + k].role = "tool"
    <3>1. i + k \in DOMAIN ms /\ i < i + k /\ i + k <= i + ms[i].calls
      BY <1>2, <2>2
    <3> QED BY <2>1, <3>1
  <2> QED BY <2>2, <2>3
<1>4. \A i \in DOMAIN ms : ms[i].role = "tool" => \E j \in 1..(i - 1) : ms[j].calls >= i - j
  BY <1>1 DEF Paired
<1> QED BY <1>1, <1>3, <1>4, Zenon

\* Messages that are added to a conversation, of which those that the user typed are more.
LEMMA GrowsPlainly ==
    ASSUME NEW ms, Conversation(ms), NEW ts, Heard(ms, ts), NEW t, Plain(t),
           NEW more \in SUBSET Range(Typed), \A x \in more : \E i \in DOMAIN t : t[i].says = x,
           \A i \in DOMAIN t : t[i].says \in Range(Typed) => t[i].role = "user"
    PROVE  Conversation(ms \o t) /\ Heard(ms \o t, ts \cup more)
<1> DEFINE all == ms \o t
<1>1. ms \in Seq(Messages) /\ t \in Seq(Messages) /\ Paired(ms, 0) /\ OnlyAssistantsCall(ms)
  BY DEF Conversation, Plain
<1>2. /\ all \in Seq(Messages) /\ DOMAIN ms = 1..Len(ms) /\ DOMAIN t = 1..Len(t)
      /\ Len(ms) \in Nat /\ Len(t) \in Nat /\ DOMAIN all = 1..(Len(ms) + Len(t))
      /\ \A i \in 1..Len(ms) : all[i] = ms[i]
      /\ \A i \in 1..(Len(ms) + Len(t)) : i > Len(ms) => i - Len(ms) \in 1..Len(t) /\ all[i] = t[i - Len(ms)]
  BY <1>1, ConcatApplied
<1>3. Len(all) = Len(ms) + Len(t) /\ \A i \in DOMAIN t : all[Len(ms) + i] = t[i] /\ Len(ms) + i \in DOMAIN all
  <2>1. Len(all) = Len(ms) + Len(t)
    BY <1>1, ConcatProperties
  <2>2. ASSUME NEW i \in DOMAIN t PROVE all[Len(ms) + i] = t[i] /\ Len(ms) + i \in DOMAIN all
    <3>1. /\ Len(ms) + i \in 1..(Len(ms) + Len(t)) /\ Len(ms) + i > Len(ms) /\ (Len(ms) + i) - Len(ms) = i
      BY <1>2
    <3>2. all[Len(ms) + i] = t[(Len(ms) + i) - Len(ms)]
      BY <1>2, <3>1
    <3> QED BY <1>2, <3>1, <3>2
  <2> QED BY <2>1, <2>2
<1> HIDE DEF all
<1>4. \A i \in DOMAIN all : \/ i \in DOMAIN ms /\ all[i] = ms[i]
                            \/ i > Len(ms) /\ i - Len(ms) \in DOMAIN t /\ all[i] = t[i - Len(ms)]
                               /\ all[i].role # "tool" /\ all[i].calls = 0
  <2> TAKE i \in DOMAIN all
  <2>1. CASE i <= Len(ms)
    BY <1>2, <2>1
  <2>2. CASE ~(i <= Len(ms))
    <3>1. i > Len(ms) /\ i - Len(ms) \in DOMAIN t /\ all[i] = t[i - Len(ms)]
      BY <1>2, <2>2
    <3> QED BY <3>1 DEF Plain
  <2> QED BY <2>1, <2>2
<1>5. OnlyAssistantsCall(all)
  BY <1>1, <1>4 DEF OnlyAssistantsCall
<1>6. UserAt(all) # {}
  <2>1. UserAt(ms) # {} /\ DOMAIN ms \subseteq DOMAIN all
    BY <1>2 DEF Conversation
  <2> QED BY <1>2, <2>1 DEF UserAt
<1>7. Paired(all, 0)
  <2>1. ASSUME NEW i \in DOMAIN all, all[i].calls > 0
        PROVE  /\ i + all[i].calls <= Len(all) + 0
               /\ \A k \in DOMAIN all : i < k /\ k <= i + all[i].calls => all[k].role = "tool"
    <3>1. i \in DOMAIN ms /\ all[i] = ms[i]
      BY <1>4, <2>1
    <3>2. /\ i + ms[i].calls <= Len(ms) + 0 /\ ms[i].calls \in Nat
          /\ \A k \in DOMAIN ms : i < k /\ k <= i + ms[i].calls => ms[k].role = "tool"
      BY <1>1, <2>1, <3>1, MessagesAt DEF Paired
    <3> QED BY <1>2, <1>3, <3>1, <3>2
  <2>2. ASSUME NEW k \in DOMAIN all, all[k].role = "tool" PROVE \E j \in 1..(k - 1) : all[j].calls >= k - j
    <3>1. k \in DOMAIN ms /\ ms[k].role = "tool"
      BY <1>4, <2>2
    <3>2. PICK j \in 1..(k - 1) : ms[j].calls >= k - j
      BY <1>1, <3>1 DEF Paired
    <3>3. j \in DOMAIN ms
      BY <1>2, <3>1
    <3> QED BY <1>2, <3>2, <3>3
  <2> QED BY <2>1, <2>2 DEF Paired
<1>8. Heard(all, ts \cup more)
  <2>1. ASSUME NEW x \in ts PROVE \E i \in DOMAIN all : all[i].says = x
    <3>1. PICK i \in DOMAIN ms : ms[i].says = x
      BY <2>1 DEF Heard
    <3> QED BY <1>2, <3>1
  <2>2. ASSUME NEW x \in more PROVE \E i \in DOMAIN all : all[i].says = x
    BY <1>3, <2>2
  <2>3. \A i \in DOMAIN all : all[i].says \in Range(Typed) => all[i].role = "user"
    BY <1>4 DEF Heard
  <2>4. ts \subseteq Range(Typed)
    BY DEF Heard
  <2> QED BY <2>1, <2>2, <2>3, <2>4 DEF Heard
<1> QED BY <1>2, <1>5, <1>6, <1>7, <1>8 DEF Conversation, all

\* A call with all of its results.
LEMMA ResultsKeep ==
    ASSUME NEW ms, Conversation(ms), NEW ts, Heard(ms, ts), NEW n \in Nat \ {0}, NEW size \in TextSizes
    PROVE  Conversation(WithResults(ms, n, size)) /\ Heard(WithResults(ms, n, size), ts)
<1> DEFINE call == Message("assistant", "call", 1, n)
           reply == Message("tool", "result", size, 0)
           results == [i \in 1..n |-> reply]
           all == (ms \o <<call>>) \o results
<1>1. ms \in Seq(Messages) /\ Paired(ms, 0) /\ OnlyAssistantsCall(ms)
  BY DEF Conversation
<1>2. /\ call \in Messages /\ call.role = "assistant" /\ call.calls = n /\ call.says = "call"
      /\ reply \in Messages /\ reply.role = "tool" /\ reply.calls = 0 /\ reply.says = "result"
  <2>1. n \in Nat /\ size \in {1, Long, RecentSize, SummarySize} /\ 0 \in Nat
    BY DEF TextSizes
  <2>2. "assistant" \in Roles /\ "tool" \in Roles /\ "call" \in Wordings /\ "result" \in Wordings
    BY DEF Roles, Wordings
  <2> QED BY <2>1, <2>2, MessageOf
<1>3. "call" \notin Range(Typed) /\ "result" \notin Range(Typed)
  BY DEF Range, Typed
<1>4. WithResults(ms, n, size) = all
  BY DEF WithResults
<1> HIDE DEF call, reply
<1>5. results \in Seq(Messages) /\ Len(results) = n /\ \A i \in 1..n : results[i] = reply
  BY <1>2
<1> DEFINE front == ms \o <<call>>
<1>6. /\ front \in Seq(Messages) /\ Len(front) = Len(ms) + 1 /\ front[Len(ms) + 1] = call
      /\ Len(ms) \in Nat /\ DOMAIN ms = 1..Len(ms) /\ \A i \in DOMAIN ms : front[i] = ms[i]
  <2>1. front = Append(ms, call)
    BY <1>1, <1>2, AppendIsConcat
  <2> HIDE DEF front
  <2> QED BY <1>1, <1>2, <2>1, AppendProperties, MessagesAt
<1> HIDE DEF front, results
<1>7. /\ all \in Seq(Messages) /\ Len(all) = (Len(ms) + 1) + n
      /\ \A i \in 1..((Len(ms) + 1) + n) :
            all[i] = IF i <= Len(ms) + 1 THEN front[i] ELSE results[i - (Len(ms) + 1)]
  <2>1. all = front \o results
    BY DEF front
  <2> HIDE DEF all
  <2>2. /\ all \in Seq(Messages) /\ Len(all) = Len(front) + Len(results)
        /\ \A i \in 1..(Len(front) + Len(results)) :
              all[i] = IF i <= Len(front) THEN front[i] ELSE results[i - Len(front)]
    BY <1>5, <1>6, <2>1, ConcatProperties
  <2> QED BY <1>5, <1>6, <2>2, Zenon
<1> HIDE DEF all
<1>8. /\ DOMAIN all = 1..((Len(ms) + 1) + n) /\ \A i \in DOMAIN all : all[i].calls \in Nat
  BY <1>7, MessagesAt
<1> DEFINE c == Len(ms) + 1
<1>9. \A i \in DOMAIN all : \/ i \in DOMAIN ms /\ i < c /\ all[i] = ms[i]
                            \/ i = c /\ all[i] = call
                            \/ i > c /\ all[i] = reply
  <2> TAKE i \in DOMAIN all
  <2>1. i \in DOMAIN ms \/ i = c \/ (i > c /\ i - c \in 1..n)
    BY <1>6, <1>8
  <2> QED BY <1>5, <1>6, <1>7, <1>8, <2>1
<1>10. \A i \in DOMAIN ms : i \in DOMAIN all /\ all[i] = ms[i]
  BY <1>6, <1>7, <1>8
<1>11. OnlyAssistantsCall(all)
  BY <1>1, <1>2, <1>9 DEF OnlyAssistantsCall
<1>12. UserAt(all) # {}
  BY <1>10 DEF Conversation, UserAt
<1>13. Paired(all, 0)
  <2>1. ASSUME NEW i \in DOMAIN all, all[i].calls > 0
        PROVE  /\ i + all[i].calls <= Len(all) + 0
               /\ \A k \in DOMAIN all : i < k /\ k <= i + all[i].calls => all[k].role = "tool"
    <3>1. CASE i \in DOMAIN ms
      <4>1. all[i] = ms[i] /\ ms[i].calls \in Nat
        BY <1>8, <1>10, <3>1
      <4>2. /\ i + ms[i].calls <= Len(ms) + 0
            /\ \A k \in DOMAIN ms : i < k /\ k <= i + ms[i].calls => ms[k].role = "tool"
        BY <1>1, <2>1, <3>1, <4>1 DEF Paired
      <4>3. \A k \in DOMAIN all : k <= i + ms[i].calls => k \in DOMAIN ms
        BY <1>6, <1>8, <4>1, <4>2
      <4>4. i + ms[i].calls <= Len(all) + 0
        BY <1>6, <1>7, <3>1, <4>1, <4>2
      <4> QED BY <1>10, <4>1, <4>2, <4>3, <4>4
    <3>2. CASE i = c
      <4>1. all[i].calls = n
        BY <1>2, <1>6, <1>9, <3>2
      <4>2. i + all[i].calls <= Len(all) + 0
        BY <1>6, <1>7, <3>2, <4>1
      <4>3. \A k \in DOMAIN all : i < k => all[k] = reply
        BY <1>6, <1>8, <1>9, <3>2
      <4> QED BY <1>2, <4>2, <4>3
    <3>3. CASE i > c
      BY <1>2, <1>6, <1>8, <1>9, <2>1, <3>3
    <3> QED BY <1>9, <3>1, <3>2, <3>3
  <2>2. ASSUME NEW k \in DOMAIN all, all[k].role = "tool" PROVE \E j \in 1..(k - 1) : all[j].calls >= k - j
    <3>1. CASE k \in DOMAIN ms
      <4>1. PICK j \in 1..(k - 1) : ms[j].calls >= k - j
        BY <1>1, <1>10, <2>2, <3>1 DEF Paired
      <4>2. j \in DOMAIN ms
        BY <1>6, <3>1
      <4> QED BY <1>10, <4>1, <4>2
    <3>2. CASE k > c
      <4>1. c \in 1..(k - 1) /\ c \in DOMAIN all /\ n >= k - c
        BY <1>6, <1>8, <3>2
      <4>2. all[c] = call
        BY <1>6, <1>9, <4>1
      <4> QED BY <1>2, <4>1, <4>2
    <3> QED BY <1>2, <1>9, <2>2, <3>1, <3>2
  <2> QED BY <2>1, <2>2 DEF Paired
<1>14. Heard(all, ts)
  <2>1. ASSUME NEW x \in ts PROVE \E i \in DOMAIN all : all[i].says = x
    BY <1>10, <2>1 DEF Heard
  <2>2. \A i \in DOMAIN all : all[i].says \in Range(Typed) => all[i].role = "user"
    BY <1>2, <1>3, <1>9 DEF Heard
  <2> QED BY <2>1, <2>2 DEF Heard
<1> QED BY <1>4, <1>7, <1>11, <1>12, <1>13, <1>14 DEF Conversation

\* What is added when the user has typed nothing.
Untyped(ms) == \A i \in DOMAIN ms : ms[i].says \notin Range(Typed)

LEMMA GrowsUntyped ==
    ASSUME NEW ms, Conversation(ms), NEW ts, Heard(ms, ts), NEW t, Plain(t), Untyped(t)
    PROVE  Conversation(ms \o t) /\ Heard(ms \o t, ts)
<1>1. \A i \in DOMAIN t : t[i].says \in Range(Typed) => t[i].role = "user"
  BY DEF Untyped
<1>2. {} \in SUBSET Range(Typed) /\ \A x \in {} : \E i \in DOMAIN t : t[i].says = x
  OBVIOUS
<1>3. Conversation(ms \o t) /\ Heard(ms \o t, ts \cup {})
  BY <1>1, <1>2, GrowsPlainly
<1>4. ts \cup {} = ts
  OBVIOUS
<1> QED BY <1>3, <1>4

LEMMA NothingAdded == Plain(<<>>) /\ Untyped(<<>>)
BY DEF Plain, Untyped

LEMMA OneAdded ==
    ASSUME NEW m \in Messages, m.role # "tool", m.calls = 0, m.says \notin Range(Typed)
    PROVE  Plain(<<m>>) /\ Untyped(<<m>>)
BY PlainOne DEF Untyped

\* The messages that are no call and no result of one.
LEMMA TextParts ==
    ASSUME NEW role \in Roles \ {"tool"}, NEW says \in Wordings \ Range(Typed), NEW size \in {1, Long}
    PROVE  LET m == Message(role, says, size, 0)
           IN m \in Messages /\ m.role = role /\ m.calls = 0 /\ Plain(<<m>>) /\ Untyped(<<m>>)
<1> DEFINE m == Message(role, says, size, 0)
<1>1. m \in Messages /\ m.role = role /\ m.says = says /\ m.calls = 0
  BY MessageOf
<1> HIDE DEF m
<1>2. Plain(<<m>>) /\ Untyped(<<m>>)
  BY <1>1, OneAdded
<1> QED BY <1>1, <1>2 DEF m

LEMMA Untypeds == Wordings \ Range(Typed) = Wordings \ {"typed-1", "typed-2"}
<1>1. Range(Typed) = {"typed-1", "typed-2"}
  <2>1. DOMAIN Typed = {1, 2} /\ Typed[1] = "typed-1" /\ Typed[2] = "typed-2"
    BY DEF Typed
  <2> QED BY <2>1 DEF Range
<1> QED BY <1>1

LEMMA BeginKeeps ==
    ASSUME RequestsInv, NEW context \in BOOLEAN, NEW size \in TextSizes, Begin(context, size)
    PROVE  Conversation(messages') /\ Heard(messages', steered')
<1> DEFINE rules == Message("system", "rules", Long, 0)
           told == Message("system", "context", Long, 0)
           prompt == Message("user", "prompt", size, 0)
           front == <<rules>> \o (IF context THEN <<told>> ELSE <<>>)
<1>1. messages' = front \o <<prompt>> /\ steered' = {}
  BY DEF Begin, RequestsInv
<1>2. /\ rules \in Messages /\ Plain(<<rules>>) /\ Untyped(<<rules>>)
      /\ told \in Messages /\ Plain(<<told>>) /\ Untyped(<<told>>)
      /\ prompt \in Messages /\ prompt.role = "user" /\ Plain(<<prompt>>) /\ Untyped(<<prompt>>)
  <2>1. /\ "rules" \in Wordings \ Range(Typed) /\ "context" \in Wordings \ Range(Typed)
        /\ "prompt" \in Wordings \ Range(Typed)
    BY Untypeds DEF Wordings
  <2>2. "system" \in Roles \ {"tool"} /\ "user" \in Roles \ {"tool"} /\ size \in {1, Long} /\ Long \in {1, Long}
    BY DEF Roles, TextSizes
  <2> QED BY <2>1, <2>2, TextParts
<1> HIDE DEF rules, told, prompt
<1>3. front = <<rules>> \/ front = <<rules>> \o <<told>>
  <2>1. <<rules>> \o <<>> = <<rules>>
    BY <1>2, ConcatEmptySeq DEF Plain
  <2> QED BY <2>1
<1>4. ASSUME NEW s, NEW t, Plain(s), Plain(t), Untyped(s), Untyped(t)
      PROVE  Plain(s \o t) /\ Untyped(s \o t)
  <2>1. s \in Seq(Messages) /\ t \in Seq(Messages)
    BY <1>4 DEF Plain
  <2>2. /\ DOMAIN s = 1..Len(s) /\ DOMAIN t = 1..Len(t) /\ Len(s) \in Nat /\ Len(t) \in Nat
        /\ DOMAIN (s \o t) = 1..(Len(s) + Len(t))
        /\ \A i \in 1..Len(s) : (s \o t)[i] = s[i]
        /\ \A i \in 1..(Len(s) + Len(t)) : i > Len(s) => i - Len(s) \in 1..Len(t) /\ (s \o t)[i] = t[i - Len(s)]
    BY <2>1, ConcatApplied
  <2>3. ASSUME NEW i \in DOMAIN (s \o t) PROVE (s \o t)[i].says \notin Range(Typed)
    <3>1. CASE i <= Len(s)
      <4>1. i \in DOMAIN s /\ (s \o t)[i] = s[i]
        BY <2>2, <2>3, <3>1
      <4> QED BY <1>4, <4>1 DEF Untyped
    <3>2. CASE ~(i <= Len(s))
      <4>1. i - Len(s) \in DOMAIN t /\ (s \o t)[i] = t[i - Len(s)]
        BY <2>2, <2>3, <3>2
      <4> QED BY <1>4, <4>1 DEF Untyped
    <3> QED BY <3>1, <3>2
  <2> QED BY <1>4, <2>3, PlainConcat DEF Untyped
<1>5. Plain(front) /\ Untyped(front)
  BY <1>2, <1>3, <1>4
<1> HIDE DEF front
<1> DEFINE all == front \o <<prompt>>
<1>6. Plain(all) /\ Untyped(all)
  BY <1>2, <1>4, <1>5
<1>7. UserAt(all) # {}
  <2>1. all = Append(front, prompt) /\ front \in Seq(Messages)
    BY <1>2, <1>5, AppendIsConcat DEF Plain
  <2>2. Len(front) + 1 \in DOMAIN all /\ all[Len(front) + 1] = prompt
    <3>1. DOMAIN Append(front, prompt) = 1..(Len(front) + 1) /\ Len(front) \in Nat
          /\ Append(front, prompt)[Len(front) + 1] = prompt
      BY <1>2, <2>1, AppendApplied
    <3> QED BY <2>1, <3>1
  <2> QED BY <1>2, <2>2 DEF UserAt
<1> HIDE DEF all
<1>8. Conversation(all)
  BY <1>6, <1>7, PlainPaired DEF Conversation, Plain, OnlyAssistantsCall
<1>9. Heard(all, {})
  BY <1>6 DEF Heard, Untyped
<1> QED BY <1>1, <1>8, <1>9 DEF all

LEMMA DrainKeeps ==
    ASSUME RequestsInv, NEW n \in 0..2, Drain(n)
    PROVE  Conversation(messages') /\ Heard(messages', steered')
<1> DEFINE c == Cardinality(steered)
           new == SubSeq(Typed, c + 1, c + n)
           t == [i \in 1..n |-> User(new[i])]
<1>1. /\ Conversation(messages) /\ Heard(messages, steered)
      /\ c + n <= Len(Typed) /\ messages' = messages \o t /\ steered' = steered \cup Range(new)
  BY DEF RequestsInv, Drain
<1>2. /\ Len(Typed) = 2 /\ DOMAIN Typed = {1, 2} /\ Typed[1] = "typed-1" /\ Typed[2] = "typed-2"
      /\ Range(Typed) = {Typed[1], Typed[2]}
  <2>1. Len(Typed) = 2 /\ DOMAIN Typed = {1, 2} /\ Typed[1] = "typed-1" /\ Typed[2] = "typed-2"
    BY DEF Typed
  <2> QED BY <2>1 DEF Range
<1>3. c \in Nat
  <2>1. steered \subseteq {Typed[1], Typed[2]}
    BY <1>1, <1>2 DEF Heard
  <2>2. IsFiniteSet({Typed[1], Typed[2]})
    <3>1. IsFiniteSet({Typed[1]})
      BY FS_Singleton
    <3>2. {Typed[1]} \cup {Typed[2]} = {Typed[1], Typed[2]}
      OBVIOUS
    <3> QED BY <3>1, <3>2, FS_AddElement
  <2> QED BY <2>1, <2>2, FS_Subset, FS_CardinalityType
<1> HIDE DEF c
<1>4. /\ new \in Seq(Range(Typed)) /\ Len(new) = n /\ \A i \in 1..n : new[i] \in Range(Typed)
  <2>1. \A i \in (c + 1)..(c + n) : Typed[i] \in Range(Typed)
    BY <1>1, <1>2, <1>3
  <2>2. /\ new \in Seq(Range(Typed)) /\ Len(new) = IF c + 1 <= c + n THEN (c + n) - (c + 1) + 1 ELSE 0
    BY <1>3, <2>1, SubSeqProperties
  <2> HIDE DEF new
  <2>3. Len(new) = n
    BY <1>3, <2>2
  <2> QED BY <2>2, <2>3
<1> HIDE DEF new
<1>5. \A i \in 1..n : /\ User(new[i]) \in Messages /\ User(new[i]).role = "user" /\ User(new[i]).calls = 0
                      /\ User(new[i]).says = new[i]
  <2>1. Range(Typed) \subseteq Wordings
    BY <1>2 DEF Wordings
  <2>2. "user" \in Roles /\ 1 \in {1, Long, RecentSize, SummarySize} /\ 0 \in Nat
    BY DEF Roles
  <2> QED BY <1>4, <2>1, <2>2, MessageOf DEF User
<1>6. t \in Seq(Messages) /\ DOMAIN t = 1..n /\ \A i \in 1..n : t[i] = User(new[i])
  <2>1. DOMAIN t = 1..n /\ \A i \in 1..n : t[i] = User(new[i])
    OBVIOUS
  <2>2. t \in [1..n -> Messages]
    BY <1>5
  <2> HIDE DEF t
  <2>3. n \in Nat
    OBVIOUS
  <2> QED BY <2>1, <2>2, <2>3
<1> HIDE DEF t
<1>7. Plain(t)
  BY <1>5, <1>6 DEF Plain
<1>8. Range(new) = {new[i] : i \in 1..n}
  BY <1>4 DEF Range
<1>9. /\ Range(new) \in SUBSET Range(Typed)
      /\ \A x \in Range(new) : \E i \in DOMAIN t : t[i].says = x
      /\ \A i \in DOMAIN t : t[i].says \in Range(Typed) => t[i].role = "user"
  BY <1>4, <1>5, <1>6, <1>8
<1> QED BY <1>1, <1>7, <1>9, GrowsPlainly

LEMMA CallToolsKeeps ==
    ASSUME RequestsInv, NEW n \in 1..2, NEW size \in TextSizes, NEW nudge \in Nudges, CallTools(n, size, nudge)
    PROVE  Conversation(messages') /\ Heard(messages', steered')
<1>1. /\ Conversation(messages) /\ Heard(messages, steered)
      /\ messages' = WithResults(messages, n, size) \o nudge /\ steered' = steered
  BY DEF RequestsInv, CallTools
<1>2. /\ Conversation(WithResults(messages, n, size)) /\ Heard(WithResults(messages, n, size), steered)
  BY <1>1, ResultsKeep
<1>3. Plain(nudge) /\ Untyped(nudge)
  <2>1. "retry" \in Wordings \ Range(Typed) /\ "final" \in Wordings \ Range(Typed)
    BY Untypeds DEF Wordings
  <2>2. "user" \in Roles \ {"tool"} /\ 1 \in {1, Long}
    BY DEF Roles
  <2>3. /\ Plain(<<User("retry")>>) /\ Untyped(<<User("retry")>>)
        /\ Plain(<<User("final")>>) /\ Untyped(<<User("final")>>)
    BY <2>1, <2>2, TextParts DEF User
  <2> QED BY <2>3, NothingAdded DEF Nudges
<1> QED BY <1>1, <1>2, <1>3, GrowsUntyped

LEMMA RetriesKeeps ==
    ASSUME RequestsInv, NEW keeps \in BOOLEAN, NEW size \in TextSizes, Retries(keeps, size)
    PROVE  Conversation(messages') /\ Heard(messages', steered')
<1> DEFINE wording == IF keeps THEN <<Message("assistant", "text", size, 0)>> ELSE <<>>
<1>1. /\ Conversation(messages) /\ Heard(messages, steered)
      /\ messages' = (messages \o wording) \o <<User("retry")>> /\ steered' = steered
  BY DEF RequestsInv, Retries
<1>2. "retry" \in Wordings \ Range(Typed) /\ "text" \in Wordings \ Range(Typed)
  BY Untypeds DEF Wordings
<1>3. "user" \in Roles \ {"tool"} /\ "assistant" \in Roles \ {"tool"} /\ 1 \in {1, Long} /\ size \in {1, Long}
  BY DEF Roles, TextSizes
<1>4. Plain(<<User("retry")>>) /\ Untyped(<<User("retry")>>)
  BY <1>2, <1>3, TextParts DEF User
<1>5. Plain(wording) /\ Untyped(wording)
  <2>1. Plain(<<Message("assistant", "text", size, 0)>>) /\ Untyped(<<Message("assistant", "text", size, 0)>>)
    BY <1>2, <1>3, TextParts
  <2> QED BY <2>1, NothingAdded
<1> HIDE DEF wording
<1>6. Conversation(messages \o wording) /\ Heard(messages \o wording, steered)
  BY <1>1, <1>5, GrowsUntyped
<1> QED BY <1>1, <1>4, <1>6, GrowsUntyped

LEMMA AskModelKeeps ==
    ASSUME RequestsInv, NEW digest \in BOOLEAN, AskModel(digest)
    PROVE  RequestFor(request', messages, steered)
<1> DEFINE ms == IF digest THEN WithDigest(messages) ELSE messages
<1>1. Conversation(messages) /\ Heard(messages, steered) /\ request' = Condensed(ms)
  BY DEF RequestsInv, AskModel
<1>2. /\ Conversation(ms) /\ Heard(ms, steered)
      /\ FirstUser(ms) = FirstUser(messages) /\ LastUser(ms) = LastUser(messages)
  BY <1>1, DigestKeeps
<1> HIDE DEF ms
<1>3. RequestFor(Condensed(ms), ms, steered)
  BY <1>2, CondensedWell
<1> QED BY <1>1, <1>2, <1>3, Zenon DEF RequestFor

LEMMA AskFinalKeeps == ASSUME RequestsInv, AskFinal PROVE RequestFor(request', messages, steered)
<1> DEFINE q == [kind |-> "final", messages |-> FinalCall(messages), listed |-> {}, complete |-> FALSE]
<1>1. loop = "drained" /\ request' = q
  BY Zenon DEF AskFinal
<1>2. Conversation(messages)
  BY <1>1, Zenon DEF RequestsInv
<1>3. q.messages = FinalCall(messages) /\ ~q.complete
  BY Zenon
<1> HIDE DEF q
<1> QED BY <1>1, <1>2, <1>3, FinalCallWell, Zenon DEF RequestFor

LEMMA RequestsStart == RequestsInit => RequestsInv
BY DEF RequestsInit, RequestsInv

LEMMA RequestsStep == ASSUME RequestsInv, [RequestsNext]_requestVars PROVE RequestsInv'
<1>1. CASE \E context \in BOOLEAN, size \in TextSizes : Begin(context, size)
  <2>1. loop' = "round"
    BY <1>1 DEF Begin
  <2> QED BY <1>1, <2>1, BeginKeeps DEF RequestsInv
<1>2. CASE \E n \in 0..2 : Drain(n)
  <2>1. loop' = "drained"
    BY <1>2 DEF Drain
  <2> QED BY <1>2, <2>1, DrainKeeps DEF RequestsInv
<1>3. CASE \E digest \in BOOLEAN : AskModel(digest)
  <2>1. loop = "drained" /\ loop' = "called" /\ messages' = messages /\ steered' = steered
    BY <1>3 DEF AskModel
  <2>2. RequestFor(request', messages, steered)
    BY <1>3, AskModelKeeps
  <2> QED BY <2>1, <2>2 DEF RequestsInv
<1>4. CASE AskFinal
  <2>1. loop = "drained" /\ loop' = "called" /\ messages' = messages /\ steered' = steered
    BY <1>4, Zenon DEF AskFinal
  <2>2. RequestFor(request', messages, steered)
    BY <1>4, AskFinalKeeps
  <2> QED BY <2>1, <2>2 DEF RequestsInv
<1>5. CASE AskPlan \/ Answers
  <2>1. loop # "start" /\ loop' = "done" /\ messages' = messages /\ steered' = steered
    BY <1>5 DEF AskPlan, Answers
  <2> QED BY <2>1 DEF RequestsInv
<1>6. CASE Inject
  <2>1. loop = "drained" /\ loop' = "round" /\ messages' = WithResults(messages, 1, Long) /\ steered' = steered
    BY <1>6 DEF Inject
  <2>2. Conversation(messages) /\ Heard(messages, steered) /\ Long \in TextSizes
    BY <2>1 DEF RequestsInv, TextSizes
  <2>3. Conversation(messages') /\ Heard(messages', steered')
    BY <2>1, <2>2, ResultsKeep
  <2> QED BY <2>1, <2>3 DEF RequestsInv
<1>7. CASE RequestFinal
  <2>1. loop = "drained" /\ loop' = loop /\ messages' = Append(messages, User("final")) /\ steered' = steered
    BY <1>7, Zenon DEF RequestFinal
  <2>2. Conversation(messages) /\ Heard(messages, steered)
    BY <2>1 DEF RequestsInv
  <2>3. "final" \in Wordings \ Range(Typed) /\ "user" \in Roles \ {"tool"} /\ 1 \in {1, Long}
    BY Untypeds DEF Wordings, Roles
  <2>4. User("final") \in Messages /\ Plain(<<User("final")>>) /\ Untyped(<<User("final")>>)
    BY <2>3, TextParts DEF User
  <2>5. messages' = messages \o <<User("final")>>
    BY <2>1, <2>2, <2>4, AppendIsConcat DEF Conversation
  <2>6. Conversation(messages') /\ Heard(messages', steered')
    BY <2>1, <2>2, <2>4, <2>5, GrowsUntyped
  <2> QED BY <2>1, <2>6 DEF RequestsInv
<1>8. CASE \E n \in 1..2, size \in TextSizes, nudge \in Nudges : CallTools(n, size, nudge)
  <2>1. loop' = "round"
    BY <1>8 DEF CallTools
  <2> QED BY <1>8, <2>1, CallToolsKeeps DEF RequestsInv
<1>9. CASE \E keeps \in BOOLEAN, size \in TextSizes : Retries(keeps, size)
  <2>1. loop' = "round"
    BY <1>9 DEF Retries
  <2> QED BY <1>9, <2>1, RetriesKeeps DEF RequestsInv
<1>10. CASE UNCHANGED requestVars
  BY <1>10 DEF requestVars, RequestsInv
<1> QED BY <1>1, <1>2, <1>3, <1>4, <1>5, <1>6, <1>7, <1>8, <1>9, <1>10 DEF RequestsNext

\* However often a turn is condensed, whatever its budget and sizes, no request shows a
\* result without its call or a call without its results, each shows the prompt of the
\* turn and what was asked last, and what the user typed is in it when it says that its
\* summary is complete (condense_messages_for_model, final_answer_call_messages).
THEOREM RequestsAreWholeCorrect == RequestsSpec => []RequestsAreWhole
<1>1. RequestsInv /\ [RequestsNext]_requestVars => RequestsInv'
  BY RequestsStep
<1>2. RequestsInv => RequestsAreWhole
  BY RequestsHold
<1> QED BY <1>1, <1>2, RequestsStart, PTL DEF RequestsSpec

-----------------------------------------------------------------------------
(* The types of what the components keep.                                  *)

LEMMA TurnTypesStart == ASSUME TurnInit PROVE TurnTypeOK
<1>1. spoiled \in BOOLEAN /\ up \in BOOLEAN
  BY Zenon DEF TurnInit
<1>2. /\ pc = "idle" /\ repair = {} /\ snapshot.kind = "none" /\ snapshot.repair = {}
      /\ result = "none" /\ turn = 0 /\ mishaps = 0
  BY DEF TurnInit, NoSnapshot, Snapshot, NoRepair
<1> QED BY <1>1, <1>2, TurnAssumption DEF TurnTypeOK

LEMMA TurnTypesStep == ASSUME TurnTypeOK, [TurnNext]_turnVars PROVE TurnTypeOK'
<1> USE TurnAssumption DEF TurnTypeOK, Stores, History, Mishap, Snapshot, Torn, NoRepair, Statuses
<1>1. CASE UNCHANGED turnVars
  BY <1>1 DEF turnVars
<1>2. CASE BeginTurn
  BY <1>2 DEF BeginTurn, Loaded
<1>3. CASE HooksPass \/ HookBlocks \/ Announces \/ Raises \/ Fails \/ StopHooks
  BY <1>3 DEF HooksPass, HookBlocks, Announces, Raises, Fails, StopHooks
<1>4. CASE Rounds
  BY <1>4 DEF Rounds, Remembered
<1>5. CASE Cancelled
  BY <1>5 DEF Cancelled
<1>6. CASE Saves \/ SaveFails
  BY <1>6 DEF Saves, SaveFails
<1>7. CASE \E ls \in Lines : Appends(ls) \/ AppendFails(ls)
  <2>1. /\ UNCHANGED <<up, repair, snapshot, result, turn>> /\ pc' = "idle"
        /\ mishaps' = mishaps \/ Mishap
    BY <1>7, Zenon DEF Appends, AppendFails
  <2>2. spoiled' \in BOOLEAN
    BY <1>7, Zenon DEF Appends, AppendFails, Written
  <2> QED BY <2>1, <2>2
<1>8. CASE Interrupted
  BY <1>8 DEF Interrupted
<1>9. CASE Resume
  BY <1>9 DEF Resume
<1>10. CASE Crash
  <2>1. /\ up' = FALSE /\ pc' = "idle" /\ repair' = {} /\ turn' = turn
        /\ mishaps' \in 0..MaxMishaps /\ snapshot' \in {snapshot, Torn} /\ result' = "none"
    BY <1>10 DEF Crash
  <2>2. Torn.kind = "torn" /\ Torn.repair = {}
    OBVIOUS
  <2> HIDE DEF Torn, Snapshot
  <2>3. /\ snapshot'.kind \in {"none", "torn", "saved"} /\ snapshot'.repair \subseteq Symbols
    BY <2>1, <2>2
  <2>4. spoiled' \in BOOLEAN
    BY <1>10, Zenon DEF Crash, Written
  <2> QED BY <2>1, <2>3, <2>4
<1> QED BY <1>1, <1>2, <1>3, <1>4, <1>5, <1>6, <1>7, <1>8, <1>9, <1>10 DEF TurnNext

\* What a budget counts has been answered.
GuardBounds ==
    /\ edits <= MaxEdits
    /\ \A k \in DOMAIN cache : cache[k] \in [Files -> 0..MaxEdits]
    /\ DOMAIN budget \subseteq Calls
    /\ \A k \in DOMAIN budget : budget[k] \in Nat /\ 1 <= budget[k] /\ budget[k] + Len(batch) <= calls
    /\ Len(window) <= Span /\ Len(seen) <= Span
    /\ failures \subseteq Calls /\ ambiguous \subseteq Files
    /\ Len(batch) <= BatchLimit /\ Len(batch) <= calls /\ calls \in 0..MaxCalls /\ blind \subseteq Files

LEMMA GuardTypesHold == ASSUME GuardInv, GuardBounds PROVE GuardTypeOK
<1>1. GuardSets /\ FetchedIsCurrent
  BY DEF GuardInv
<1>2. edits \in 0..MaxEdits /\ disk \in [Files -> 0..MaxEdits]
  <2>1. disk \in [Files -> Nat] /\ edits \in Nat /\ edits <= MaxEdits /\ \A f \in Files : disk[f] <= edits
    BY <1>1 DEF GuardSets, Disks, GuardBounds
  <2> QED BY <2>1, GuardAssumption
<1>3. \A k \in DOMAIN budget : budget[k] \in 1..MaxCalls
  <2>1. batch \in Seq(Calls) /\ calls \in 0..MaxCalls
    BY <1>1 DEF GuardSets, GuardBounds
  <2>2. Len(batch) \in Nat
    BY <2>1
  <2>3. ASSUME NEW k \in DOMAIN budget PROVE budget[k] \in 1..MaxCalls
    <3>1. budget[k] \in Nat /\ 1 <= budget[k] /\ budget[k] + Len(batch) <= calls
      BY DEF GuardBounds
    <3> QED BY <2>1, <2>2, <3>1, GuardAssumption
  <2> QED BY <2>3
<1>4. Len(prefetched) \in {0, Len(batch)}
  BY <1>1 DEF FetchedIsCurrent
<1> QED BY <1>1, <1>2, <1>3, <1>4, Zenon DEF GuardTypeOK, GuardSets, GuardBounds

LEMMA WindowedSpan ==
    ASSUME NEW S, NEW w \in Seq(S), NEW x \in S
    PROVE  Len(Windowed(w, x)) <= Span
<1> DEFINE v == Append(w, x)
           a == IF Len(v) > Span THEN Len(v) - Span + 1 ELSE 1
<1>1. v \in Seq(S) /\ Len(v) = Len(w) + 1 /\ Len(w) \in Nat
  OBVIOUS
<1>2. Windowed(w, x) = SubSeq(v, a, Len(v))
  BY DEF Windowed
<1> HIDE DEF v
<1>3. a \in 1..Len(v) /\ a \in Int /\ Len(v) - a + 1 <= Span
  BY <1>1 DEF Span
<1> HIDE DEF a
<1>4. Len(SubSeq(v, a, Len(v))) = Len(v) - a + 1
  BY <1>1, <1>3
<1> QED BY <1>2, <1>3, <1>4

\* The numbers of a step that answers one call.
LEMMA AnswerCounts ==
    ASSUME GuardSets, GuardBounds, batch # <<>>, NEW how, AnswerCall(how), calls' = calls
    PROVE  /\ Len(batch) \in Nat /\ Len(batch') \in Nat /\ Len(batch') + 1 = Len(batch)
           /\ Len(batch') <= BatchLimit /\ Len(batch') <= calls' /\ calls' \in 0..MaxCalls
           /\ head \in Calls
<1>1. batch \in Seq(Calls) /\ batch' = Tail(batch) /\ head = Head(batch)
  BY DEF GuardSets, AnswerCall, head
<1>2. Len(batch) \in Nat /\ Len(batch) > 0 /\ Len(batch') = Len(batch) - 1 /\ head \in Calls
  BY <1>1
<1>3. calls \in 0..MaxCalls /\ Len(batch) <= BatchLimit /\ Len(batch) <= calls
  BY DEF GuardBounds
<1> QED BY <1>2, <1>3, GuardAssumption

\* What has been counted once more is within the answers too.
LEMMA BudgetCounts ==
    ASSUME GuardSets, GuardBounds, batch # <<>>, NEW how, AnswerCall(how), calls' = calls,
           budget' \in {budget, <<>>, Counted(head)}
    PROVE  /\ DOMAIN budget' \subseteq Calls
           /\ \A k \in DOMAIN budget' :
                 budget'[k] \in Nat /\ 1 <= budget'[k] /\ budget'[k] + Len(batch') <= calls'
<1>1. /\ Len(batch) \in Nat /\ Len(batch') \in Nat /\ Len(batch') + 1 = Len(batch) /\ head \in Calls
      /\ calls \in 0..MaxCalls /\ calls' = calls /\ Len(batch) <= calls
  BY AnswerCounts DEF GuardBounds
<1>a. calls \in Nat
  BY <1>1, GuardAssumption
<1>2. /\ DOMAIN budget \subseteq Calls
      /\ \A k \in DOMAIN budget : budget[k] \in Nat /\ 1 <= budget[k] /\ budget[k] + Len(batch) <= calls
  BY DEF GuardBounds
<1>3. CASE budget' = budget
  BY <1>1, <1>a, <1>2, <1>3
<1>4. CASE budget' = <<>>
  <2>1. DOMAIN budget' = {}
    BY <1>4
  <2> QED BY <2>1
<1>5. CASE budget' = Put(budget, head, Count(head))
  <2>1. /\ DOMAIN budget' = DOMAIN budget \cup {head}
        /\ \A k \in DOMAIN budget' : budget'[k] = IF k = head THEN Count(head) ELSE budget[k]
    BY <1>5 DEF Put
  <2>2. Count(head) \in Nat /\ 1 <= Count(head) /\ Count(head) + Len(batch') <= calls
    BY <1>1, <1>a, <1>2 DEF Count
  <2>3. ASSUME NEW k \in DOMAIN budget'
        PROVE  budget'[k] \in Nat /\ 1 <= budget'[k] /\ budget'[k] + Len(batch') <= calls'
    <3>1. CASE k = head
      BY <1>1, <2>1, <2>2, <3>1
    <3>2. CASE k # head
      <4>1. budget'[k] \in Nat /\ 1 <= budget'[k] /\ budget'[k] + Len(batch) <= calls
        BY <1>2, <2>1, <3>2
      <4> QED BY <1>1, <1>a, <4>1
    <3> QED BY <3>1, <3>2
  <2> QED BY <1>1, <1>2, <2>1, <2>3
<1> QED BY <1>3, <1>4, <1>5 DEF Counted

\* An answer that runs nothing.
LEMMA AnswersOnlyBounds ==
    ASSUME GuardInv, GuardBounds, batch # <<>>, NEW how, AnswerCall(how), Untouched,
           budget' \in {budget, Counted(head)}, Len(window') <= Span, seen' = seen
    PROVE  GuardBounds'
<1>1. GuardSets /\ UNCHANGED <<disk, cache, failures, ambiguous, calls, edits, blind>>
  BY DEF GuardInv, Untouched
<1>2. Len(batch') <= BatchLimit /\ Len(batch') <= calls' /\ calls' \in 0..MaxCalls
  BY <1>1, AnswerCounts
<1>3. /\ DOMAIN budget' \subseteq Calls
      /\ \A k \in DOMAIN budget' :
            budget'[k] \in Nat /\ 1 <= budget'[k] /\ budget'[k] + Len(batch') <= calls'
  BY <1>1, BudgetCounts
<1> QED BY <1>1, <1>2, <1>3 DEF GuardBounds

LEMMA ExecuteBounds == ASSUME GuardInv, GuardBounds, Execute PROVE GuardBounds'
<1>1. /\ batch # <<>> /\ calls' = calls /\ GuardSets /\ FetchedIsCurrent /\ edits' <= MaxEdits
  BY DEF Execute, Passed, GuardInv
<1> DEFINE edited(r) == head.tool \in MutationTools /\ r.ok
           Runs(r) ==
             /\ cache' = Stored(Invalidated(head, r), head, r)
             /\ PatchesRecorded(head, r) /\ GuardRecords(head, r)
             /\ budget' = IF head.tool \in MutationTools THEN <<>> ELSE Counted(head)
             /\ blind' = IF edited(r) THEN blind \ r.touched
                         ELSE IF head.tool = "apply_edits" THEN blind \cup r.touched ELSE blind
             /\ AnswerCall(IF Repeats(head, r) THEN "ran in vain" ELSE "ran")
<1>2. PICK r \in IF prefetched # <<>> THEN {Head(prefetched)} ELSE Outcomes(head) : Runs(r)
  BY Zenon DEF Execute
<1>3. head \in Calls /\ RepliesTo(head, r)
  BY <1>1, FetchedHead
<1>4. PICK how : AnswerCall(how)
  BY <1>2
<1>5. Len(batch') <= BatchLimit /\ Len(batch') <= calls' /\ calls' \in 0..MaxCalls
  BY <1>1, <1>4, AnswerCounts
<1>6. budget' \in {budget, <<>>, Counted(head)}
  BY <1>2
<1>7. /\ DOMAIN budget' \subseteq Calls
      /\ \A k \in DOMAIN budget' :
            budget'[k] \in Nat /\ 1 <= budget'[k] /\ budget'[k] + Len(batch') <= calls'
  BY <1>1, <1>4, <1>6, BudgetCounts
<1> HIDE DEF head
<1>8. \A k \in DOMAIN cache' : cache'[k] \in [Files -> 0..MaxEdits]
  <2>1. disk \in [Files -> 0..MaxEdits]
    BY GuardTypesHold DEF GuardTypeOK
  <2>2. r.shows = disk /\ \A k \in DOMAIN cache : cache[k] \in [Files -> 0..MaxEdits]
    BY <1>3 DEF RepliesTo, GuardBounds
  <2> DEFINE es == Invalidated(head, r)
  <2>3. \A k \in DOMAIN es : es[k] \in [Files -> 0..MaxEdits]
    <3>1. CASE es = cache
      BY <2>2, <3>1
    <3>2. CASE es = <<>>
      BY <3>2
    <3>3. CASE es = Without(cache, {k \in DOMAIN cache : k.file \in r.touched \cup {NoFile}})
      BY <2>2, <3>3 DEF Without
    <3> QED BY <3>1, <3>2, <3>3 DEF Invalidated
  <2>4. cache' = Stored(es, head, r)
    BY <1>2
  <2> HIDE DEF es
  <2>5. CASE cache' = es
    BY <2>3, <2>5
  <2>6. CASE cache' = Put(es, head, r.shows)
    BY <2>1, <2>2, <2>3, <2>6 DEF Put
  <2> QED BY <2>4, <2>5, <2>6 DEF Stored
<1>9. Len(window') <= Span /\ Len(seen') <= Span
  <2>1. /\ Signature(head) \in Sigs /\ r.ok \in BOOLEAN /\ r.why \in Reasons
        /\ window \in Seq(Sigs) /\ seen \in Seq(Sigs \X BOOLEAN \X Reasons)
    BY <1>1, <1>3, CallParts DEF RepliesTo, Results, GuardSets
  <2>2. <<Signature(head), r.ok, r.why>> \in Sigs \X BOOLEAN \X Reasons
    BY <2>1, Zenon
  <2>3. window' \in {<<>>, Windowed(window, Signature(head))}
    BY <1>2 DEF GuardRecords
  <2>4. PICK old \in {<<>>, seen} : seen' = Windowed(old, <<Signature(head), r.ok, r.why>>)
    BY <1>2 DEF GuardRecords
  <2>a. <<>> \in Seq(Sigs \X BOOLEAN \X Reasons)
    OBVIOUS
  <2>5. old \in Seq(Sigs \X BOOLEAN \X Reasons)
    BY <2>1, <2>4, <2>a, Zenon
  <2>6. Len(Windowed(window, Signature(head))) <= Span
    BY <2>1, WindowedSpan
  <2>7. Len(seen') <= Span
    BY <2>2, <2>4, <2>5, WindowedSpan
  <2> QED BY <2>3, <2>6, <2>7 DEF Span
<1>10. failures' \subseteq Calls /\ ambiguous' \subseteq Files
  <2>1. failures \subseteq Calls /\ ambiguous \subseteq Files /\ PatchesRecorded(head, r)
    BY <1>2 DEF GuardBounds
  <2>2. r.why = "patch_ambiguous" => head.file \in Files
    BY <1>3, CallParts DEF RepliesTo
  <2> QED BY <1>3, <2>1, <2>2 DEF PatchesRecorded
<1>11. blind' \subseteq Files
  <2>1. r.touched \subseteq Files /\ blind \subseteq Files
    BY <1>3 DEF RepliesTo, Results, GuardBounds
  <2>2. blind' \in {blind \ r.touched, blind \cup r.touched, blind}
    BY <1>2
  <2> QED BY <2>1, <2>2
<1> QED BY <1>1, <1>5, <1>7, <1>8, <1>9, <1>10, <1>11 DEF GuardBounds

LEMMA GuardBoundsStep == ASSUME GuardInv, GuardBounds, [GuardNext]_guardVars PROVE GuardBounds'
<1>a. GuardSets
  BY DEF GuardInv
<1>b. Len(window) <= Span
  BY DEF GuardBounds
<1>1. CASE \E n \in 1..BatchLimit : \E cs \in [1..n -> Calls] : Reply(cs)
  <2>1. PICK n \in 1..BatchLimit : \E cs \in [1..n -> Calls] : Reply(cs)
    BY <1>1
  <2>2. PICK cs \in [1..n -> Calls] : Reply(cs)
    BY <2>1
  <2>3. /\ batch = <<>> /\ batch' = cs /\ calls' = calls + Len(cs) /\ calls + Len(cs) <= MaxCalls
        /\ UNCHANGED <<disk, cache, budget, window, seen, failures, ambiguous, edits, blind>>
    BY <2>2, Zenon DEF Reply
  <2>4. Len(cs) = n /\ n \in Nat /\ n <= BatchLimit
    BY GuardAssumption
  <2>5. calls \in Nat /\ \A k \in DOMAIN budget : budget[k] \in Nat /\ 1 <= budget[k] /\ budget[k] <= calls
    BY <2>3, GuardAssumption DEF GuardBounds
  <2>6. \A k \in DOMAIN budget' : budget'[k] \in Nat /\ 1 <= budget'[k] /\ budget'[k] + Len(batch') <= calls'
    BY <2>3, <2>4, <2>5
  <2>7. Len(batch') <= BatchLimit /\ Len(batch') <= calls' /\ calls' \in 0..MaxCalls
    BY <2>3, <2>4, <2>5, GuardAssumption
  <2> QED BY <2>3, <2>6, <2>7 DEF GuardBounds
<1>2. CASE Deny \/ Reuse \/ AskStrategy
  <2>1. /\ batch # <<>> /\ Untouched /\ UNCHANGED <<budget, window, seen, due>>
        /\ \E how \in {"denied", "reused", "strategy"} : AnswerCall(how)
    BY <1>2, Zenon DEF Deny, Reuse, AskStrategy
  <2> QED BY <1>b, <2>1, AnswersOnlyBounds
<1>3. CASE SuppressOverBudget
  <2>1. /\ batch # <<>> /\ Untouched /\ UNCHANGED <<window, seen, due>> /\ AnswerCall("budget")
        /\ budget' = Counted(head)
    BY <1>3, Zenon DEF SuppressOverBudget, Passed
  <2> QED BY <1>b, <2>1, AnswersOnlyBounds
<1>4. CASE SuppressLoop
  <2>1. /\ batch # <<>> /\ Untouched /\ UNCHANGED <<seen, due>> /\ AnswerCall("loop")
        /\ budget' = Counted(head) /\ window' = Windowed(window, Signature(head))
    BY <1>4, Zenon DEF SuppressLoop, Passed
  <2>2. head \in Calls
    BY <1>a, <2>1 DEF GuardSets, head
  <2>3. Len(window') <= Span
    BY <1>a, <2>1, <2>2, CallParts, WindowedSpan DEF GuardSets
  <2> QED BY <2>1, <2>3, AnswersOnlyBounds
<1>5. CASE Execute
  BY <1>5, ExecuteBounds
<1>6. CASE NextTurn
  <2>1. /\ window' = <<>> /\ seen' = <<>> /\ budget' = <<>> /\ failures' = {} /\ ambiguous' = {}
        /\ UNCHANGED <<disk, cache, batch, prefetched, calls, edits, blind, due>>
    BY <1>6 DEF NextTurn
  <2>2. Len(<<>>) <= Span /\ DOMAIN <<>> = {}
    BY DEF Span
  <2> QED BY <2>1, <2>2 DEF GuardBounds
<1>7. CASE \E f \in Files : OthersEdit(f)
  <2>1. PICK f \in Files : OthersEdit(f)
    BY <1>7
  <2>2. /\ edits < MaxEdits /\ edits' = edits + 1 /\ blind' = blind \cup {f}
        /\ UNCHANGED <<cache, budget, window, seen, failures, ambiguous, batch, prefetched, calls, due>>
    BY <2>1 DEF OthersEdit
  <2>3. edits' <= MaxEdits /\ blind' \subseteq Files
    BY <1>a, <2>2, GuardAssumption DEF GuardSets, GuardBounds
  <2> QED BY <2>2, <2>3 DEF GuardBounds
<1>8. CASE UNCHANGED guardVars
  BY <1>8 DEF guardVars, GuardBounds
<1> QED BY <1>1, <1>2, <1>3, <1>4, <1>5, <1>6, <1>7, <1>8, Zenon DEF GuardNext

LEMMA GuardBoundsStart == GuardInit => GuardBounds
<1> SUFFICES ASSUME GuardInit PROVE GuardBounds
  OBVIOUS
<1>1. /\ edits = 0 /\ cache = <<>> /\ budget = <<>> /\ window = <<>> /\ seen = <<>>
      /\ failures = {} /\ ambiguous = {} /\ batch = <<>> /\ calls = 0 /\ blind = {}
  BY DEF GuardInit
<1>2. Len(<<>>) = 0 /\ DOMAIN <<>> = {} /\ Span = 6
  BY DEF Span
<1> QED BY <1>1, <1>2, GuardAssumption DEF GuardBounds

\* A text, whatever the gates add to it.
TextTyped(t) == IsText(t) /\ t.phrases \subseteq Phrases /\ t.lines \in Nat /\ t.caveat \in BOOLEAN
NoteTyped(g) == g.adds \subseteq Phrases /\ g.lines \in Nat

LEMMA NotesTyped ==
    ASSUME NEW speaks, NEW already, NEW ps \in SUBSET Phrases, NEW n \in Nat
    PROVE  NoteTyped(Note(speaks, already, ps, n))
BY DEF Note, NoNote, NoteTyped

LEMMA GatesTyped == ASSUME NEW t, NEW i \in 1..15 PROVE NoteTyped(Gate(Order[i], t))
<1>1. NoteTyped(Gate("boundary", t))
  <2>1. Gate("boundary", t) =
        Note(Has("boundary"),
             Says(t, {"cha-dan", "workspace"}),
             IF Ko THEN {"cha-dan", "workspace", "an-jeon"} ELSE {"blocked"}, 1)
    BY Zenon DEF Gate
  <2>2. (IF Ko THEN {"cha-dan", "workspace", "an-jeon"} ELSE {"blocked"}) \in SUBSET Phrases /\ 1 \in Nat
    BY DEF Phrases
  <2> QED BY <2>1, <2>2, NotesTyped, Zenon
<1>2. NoteTyped(Gate("refusal", t))
  <2>1. Gate("refusal", t) =
        Note(Has("risky") /\ ~FileChanged /\ ~Commands,
             Says(t, {"seung-in", "wi-heom"}),
             IF Ko THEN {"seung-in", "wi-heom"} ELSE {}, 1)
    BY Zenon DEF Gate
  <2>2. (IF Ko THEN {"seung-in", "wi-heom"} ELSE {}) \in SUBSET Phrases /\ 1 \in Nat
    BY DEF Phrases
  <2> QED BY <2>1, <2>2, NotesTyped, Zenon
<1>3. NoteTyped(Gate("denied", t))
  <2>1. Gate("denied", t) =
        Note(Has("denied"),
             SaysAny(t, IF Ko THEN {"cha-dan"} ELSE {"blocked"}),
             IF Ko THEN {"cha-dan", "denied-tool"} ELSE {"blocked"}, 1)
    BY Zenon DEF Gate
  <2>2. (IF Ko THEN {"cha-dan", "denied-tool"} ELSE {"blocked"}) \in SUBSET Phrases /\ 1 \in Nat
    BY DEF Phrases
  <2> QED BY <2>1, <2>2, NotesTyped, Zenon
<1>4. NoteTyped(Gate("safe", t))
  <2>1. Gate("safe", t) =
        Note(Has("safeAsked"),
             Says(t, {"an-jeon"}),
             IF Ko THEN {"an-jeon"} ELSE {}, 1)
    BY Zenon DEF Gate
  <2>2. (IF Ko THEN {"an-jeon"} ELSE {}) \in SUBSET Phrases /\ 1 \in Nat
    BY DEF Phrases
  <2> QED BY <2>1, <2>2, NotesTyped, Zenon
<1>5. NoteTyped(Gate("passed", t))
  <2>1. Gate("passed", t) =
        Note(verdict = "passed",
             Says(t, {"tong-gwa", "command"}),
             {"command"} \cup IF Ko THEN {"geom-jeung", "tong-gwa"} ELSE {}, 2)
    BY Zenon DEF Gate
  <2>2. ({"command"} \cup IF Ko THEN {"geom-jeung", "tong-gwa"} ELSE {}) \in SUBSET Phrases /\ 2 \in Nat
    BY DEF Phrases
  <2> QED BY <2>1, <2>2 DEF Note, NoNote, NoteTyped
<1>6. NoteTyped(Gate("failed", t))
  <2>1. Gate("failed", t) =
        Note(verdict = "failed",
             Says(t, {"geom-jeung", "sil-pae"}) /\ ~Has("symbols"),
             {"command"} \cup IF Ko THEN {"geom-jeung", "sil-pae"} ELSE {}, IF Has("symbols") THEN 3 ELSE 2)
    BY Zenon DEF Gate
  <2>2. /\ ({"command"} \cup IF Ko THEN {"geom-jeung", "sil-pae"} ELSE {}) \in SUBSET Phrases
        /\ (IF Has("symbols") THEN 3 ELSE 2) \in Nat
    BY DEF Phrases
  <2> QED BY <2>1, <2>2 DEF Note, NoNote, NoteTyped
<1>7. NoteTyped(Gate("missing", t))
  <2>1. Gate("missing", t) =
        Note(lacking \/ ValidationLacking,
             Says(t, {"missing"}),
             {"missing"}, 1)
    BY Zenon DEF Gate
  <2>2. {"missing"} \in SUBSET Phrases /\ 1 \in Nat
    BY DEF Phrases
  <2> QED BY <2>1, <2>2, NotesTyped, Zenon
<1>8. NoteTyped(Gate("unverified", t))
  <2>1. Gate("unverified", t) =
        Note(route = "modify" /\ changed = "code" /\ ~Commands,
             Says(t, {"unverified"}),
             {"unverified"} \cup IF Ko THEN {"geom-jeung"} ELSE {}, 1)
    BY Zenon DEF Gate
  <2>2. ({"unverified"} \cup IF Ko THEN {"geom-jeung"} ELSE {}) \in SUBSET Phrases /\ 1 \in Nat
    BY DEF Phrases
  <2> QED BY <2>1, <2>2, NotesTyped, Zenon
<1>9. NoteTyped(Gate("notFound", t))
  <2>1. Gate("notFound", t) =
        Note(Has("notFound") /\ ~Substantive(t) /\ Surfaces(t),
             IF Ko THEN Says(t, {"chat-ji", "eop"}) ELSE Says(t, {"not-found"}),
             IF Ko THEN {"chat-ji", "eop"} ELSE {"not-found"}, 1)
    BY Zenon DEF Gate
  <2>2. (IF Ko THEN {"chat-ji", "eop"} ELSE {"not-found"}) \in SUBSET Phrases /\ 1 \in Nat
    BY DEF Phrases
  <2> QED BY <2>1, <2>2, NotesTyped, Zenon
<1>10. NoteTyped(Gate("noResults", t))
  <2>1. Gate("noResults", t) =
        Note(Has("noResults") /\ ~FileChanged /\ ~Substantive(t) /\ Surfaces(t),
             IF Ko THEN Says(t, {"chat-ji", "eop"}) ELSE Says(t, {"not-found"}),
             IF Ko THEN {"chat-ji", "eop"} ELSE {}, 1)
    BY Zenon DEF Gate
  <2>2. (IF Ko THEN {"chat-ji", "eop"} ELSE {}) \in SUBSET Phrases /\ 1 \in Nat
    BY DEF Phrases
  <2> QED BY <2>1, <2>2, NotesTyped, Zenon
<1>11. NoteTyped(Gate("config", t))
  <2>1. Gate("config", t) =
        Note(Ko /\ Has("config"),
             Says(t, {"seol-jeong"}),
             {"seol-jeong"}, 1)
    BY Zenon DEF Gate
  <2>2. {"seol-jeong"} \in SUBSET Phrases /\ 1 \in Nat
    BY DEF Phrases
  <2> QED BY <2>1, <2>2, NotesTyped, Zenon
<1>12. NoteTyped(Gate("budget", t))
  <2>1. Gate("budget", t) =
        Note(Has("budget"),
             Says(t, {"ban-bok"}),
             IF Ko THEN {"ban-bok", "eop"} ELSE {}, 1)
    BY Zenon DEF Gate
  <2>2. (IF Ko THEN {"ban-bok", "eop"} ELSE {}) \in SUBSET Phrases /\ 1 \in Nat
    BY DEF Phrases
  <2> QED BY <2>1, <2>2, NotesTyped, Zenon
<1>13. NoteTyped(Gate("schema", t))
  <2>1. Gate("schema", t) =
        Note(/\ Has("schemaDenied") /\ route # "answer" /\ ~(verdict = "passed" /\ FileChanged),
             Says(t, {"denied-tool"}),
             IF Ko THEN {"denied-tool"} ELSE {}, 1)
    BY Zenon DEF Gate
  <2>2. (IF Ko THEN {"denied-tool"} ELSE {}) \in SUBSET Phrases /\ 1 \in Nat
    BY DEF Phrases
  <2> QED BY <2>1, <2>2, NotesTyped, Zenon
<1>14. NoteTyped(Gate("web", t))
  <2>1. Gate("web", t) =
        Note(Has("webOff") \/ Has("webFailed"),
             Says(t, {"backend"}),
             {"backend"}, 1)
    BY Zenon DEF Gate
  <2>2. {"backend"} \in SUBSET Phrases /\ 1 \in Nat
    BY DEF Phrases
  <2> QED BY <2>1, <2>2, NotesTyped, Zenon
<1>15. NoteTyped(Gate("features", t))
  <2>1. Gate("features", t) =
        Note(Has("features") /\ (changed # "none" \/ Commands),
             FALSE,
             {}, 1)
    BY Zenon DEF Gate
  <2>2. {} \in SUBSET Phrases /\ 1 \in Nat
    BY DEF Phrases
  <2> QED BY <2>1, <2>2, NotesTyped, Zenon
<1>16. \/ i = 1 \/ i = 2 \/ i = 3 \/ i = 4 \/ i = 5 \/ i = 6 \/ i = 7 \/ i = 8
       \/ i = 9 \/ i = 10 \/ i = 11 \/ i = 12 \/ i = 13 \/ i = 14 \/ i = 15
  BY SMT
<1>17. /\ Order[9] = "notFound" /\ Order[10] = "noResults" /\ Order[11] = "config" /\ Order[12] = "budget"
       /\ Order[13] = "schema" /\ Order[14] = "web" /\ Order[15] = "features"
  BY SMT DEF Order
<1> QED BY <1>1, <1>2, <1>3, <1>4, <1>5, <1>6, <1>7, <1>8, <1>9, <1>10, <1>11, <1>12, <1>13, <1>14, <1>15,
           <1>16, <1>17, GatesInOrder, Zenon

LEMMA NotedTyped == ASSUME NEW t, TextTyped(t), NEW i \in 1..15 PROVE TextTyped(Noted(t, i))
<1> DEFINE g == Gate(Order[i], t)
           whole == [phrases |-> t.phrases \cup g.adds, lines |-> t.lines + g.lines,
                     notes |-> Append(t.notes, Order[i]), caveat |-> t.caveat]
<1>1. Noted(t, i) = IF g = NoNote THEN t ELSE whole
  BY Zenon DEF Noted
<1>2. NoteTyped(g)
  BY GatesTyped, Zenon
<1>3. IsText(Noted(t, i))
  BY NotedText, Zenon DEF TextTyped
<1> HIDE DEF g
<1>4. /\ whole.phrases = t.phrases \cup g.adds /\ whole.lines = t.lines + g.lines /\ whole.caveat = t.caveat
  BY Zenon
<1> HIDE DEF whole
<1>5. t.phrases \subseteq Phrases /\ t.lines \in Nat /\ t.caveat \in BOOLEAN /\ IsText(t)
  BY Zenon DEF TextTyped
<1>6. g.adds \subseteq Phrases /\ g.lines \in Nat
  BY <1>2, Zenon DEF NoteTyped
<1>7. t.lines + g.lines \in Nat
  BY <1>5, <1>6
<1>8. whole.phrases \subseteq Phrases /\ whole.lines \in Nat /\ whole.caveat \in BOOLEAN
  BY <1>4, <1>5, <1>6, <1>7, Zenon
<1> QED BY <1>1, <1>3, <1>5, <1>8, Zenon DEF TextTyped

LEMMA FormattedTyped == ASSUME NEW t, TextTyped(t) PROVE TextTyped(Formatted(t))
<1>1. IsText(t) /\ t.phrases \subseteq Phrases /\ t.lines \in Nat /\ t.caveat \in BOOLEAN
  BY Zenon DEF TextTyped
<1> DEFINE plain == [phrases |-> t.phrases, lines |-> t.lines, notes |-> t.notes, caveat |-> FALSE]
<1>2. plain.phrases = t.phrases /\ plain.lines = t.lines /\ plain.notes = t.notes /\ plain.caveat = FALSE
  BY Zenon
<1>3. [t EXCEPT !.caveat = FALSE] = plain
  BY <1>1, OtherCaveat, Zenon
<1> HIDE DEF plain
<1>4. Formatted(t) = t \/ Formatted(t) = plain
  BY <1>3, Zenon DEF Formatted
<1>5. IsText(Formatted(t))
  BY <1>1, FormattedText, Zenon
<1> QED BY <1>1, <1>2, <1>4, <1>5, Zenon DEF TextTyped

LEMMA GatedTyped == ASSUME NEW t, TextTyped(t) PROVE TextTyped(Gated(t))
<1> DEFINE f == CHOOSE f : GatesUpTo(t, f, 15)
           K == {k \in Nat : k <= 15 => TextTyped(f[k])}
<1>1. GatesUpTo(t, f, 15)
  BY GatesExist, Zenon
<1>2. Gated(t) = f[15]
  BY GatesInOrder, Zenon DEF Gated, GatesUpTo
<1> HIDE DEF f
<1>3. \A i \in 0..15 : f[i] = IF i = 0 THEN Formatted(t) ELSE Noted(f[i - 1], i)
  BY <1>1, Zenon DEF GatesUpTo
<1>4. 0 \in K
  <2>1. 0 \in 0..15 /\ 0 \in Nat
    BY SMT
  <2>2. f[0] = Formatted(t)
    BY <1>3, <2>1, Zenon
  <2> QED BY <2>1, <2>2, FormattedTyped, Zenon
<1>5. ASSUME NEW k \in Nat, k \in K PROVE k + 1 \in K
  <2> SUFFICES ASSUME k + 1 <= 15 PROVE TextTyped(f[k + 1])
    OBVIOUS
  <2>1. k <= 15 /\ k + 1 \in 1..15 /\ k + 1 \in 0..15 /\ k + 1 # 0 /\ (k + 1) - 1 = k
    BY SMT
  <2>2. TextTyped(f[k])
    BY <1>5, <2>1
  <2>3. f[k + 1] = Noted(f[k], k + 1)
    BY <1>3, <2>1, Zenon
  <2> QED BY <2>1, <2>2, <2>3, NotedTyped, Zenon
<1> HIDE DEF K
<1>6. Nat \subseteq K
  BY <1>4, <1>5, AllNumbers
<1>7. 15 \in K /\ 15 <= 15
  BY <1>6, SMT
<1>8. TextTyped(f[15])
  BY <1>7, Zenon DEF K
<1> QED BY <1>2, <1>8, Zenon

\* The small subsets of a set.
SetsUpTo(S, f, n) == f = [k \in 0..n |-> IF k = 0 THEN {{}} ELSE OneMore(f[k - 1], S)]

LEMMA SetsExist == ASSUME NEW S, NEW n \in Nat PROVE \E f : SetsUpTo(S, f, n)
<1> DEFINE K == {k \in Nat : \E f : SetsUpTo(S, f, k)}
<1>1. 0 \in K
  <2> DEFINE f == [m \in 0..0 |-> {{}}]
  <2>1. \A m \in 0..0 : m = 0
    BY SMT
  <2>2. SetsUpTo(S, f, 0)
    BY <2>1, Zenon DEF SetsUpTo
  <2> QED BY <2>2
<1>2. ASSUME NEW k \in Nat, k \in K PROVE k + 1 \in K
  <2>1. PICK f : SetsUpTo(S, f, k)
    BY <1>2
  <2> DEFINE h == [m \in 0..(k + 1) |-> IF m = k + 1 THEN OneMore(f[k], S) ELSE f[m]]
  <2>2. /\ \A m \in 0..(k + 1) : m = k + 1 \/ m \in 0..k
        /\ \A m \in 0..k : m # k + 1 /\ m \in 0..(k + 1)
        /\ \A m \in 0..(k + 1) : m # 0 => m - 1 \in 0..k
        /\ (k + 1) - 1 = k /\ k + 1 # 0 /\ k + 1 \in Nat
    BY SMT
  <2>3. \A m \in 0..k : f[m] = IF m = 0 THEN {{}} ELSE OneMore(f[m - 1], S)
    BY <2>1, Zenon DEF SetsUpTo
  <2>4. \A m \in 0..k : h[m] = f[m]
    BY <2>2, Zenon
  <2>5. \A m \in 0..(k + 1) : h[m] = IF m = 0 THEN {{}} ELSE OneMore(h[m - 1], S)
    <3> TAKE m \in 0..(k + 1)
    <3>1. CASE m = k + 1
      BY <3>1, <2>2, <2>4, Zenon
    <3>2. CASE m \in 0..k
      BY <3>2, <2>2, <2>3, <2>4, Zenon
    <3> QED BY <3>1, <3>2, <2>2
  <2>6. SetsUpTo(S, h, k + 1)
    BY <2>5, Zenon DEF SetsUpTo
  <2> QED BY <2>2, <2>6, Zenon
<1> HIDE DEF K
<1>3. Nat \subseteq K
  BY <1>1, <1>2, AllNumbers
<1> QED BY <1>3 DEF K

LEMMA AtMostSubsets == ASSUME NEW S, NEW n \in Nat PROVE AtMost(n, S) \subseteq SUBSET S
<1> DEFINE f == CHOOSE f : SetsUpTo(S, f, n)
           K == {k \in Nat : k <= n => f[k] \subseteq SUBSET S}
<1>1. SetsUpTo(S, f, n)
  BY SetsExist, Zenon
<1>2. AtMost(n, S) = f[n]
  BY Zenon DEF AtMost, SetsUpTo
<1> HIDE DEF f
<1>3. \A k \in 0..n : f[k] = IF k = 0 THEN {{}} ELSE OneMore(f[k - 1], S)
  BY <1>1, Zenon DEF SetsUpTo
<1>4. 0 \in K
  <2>1. 0 \in 0..n
    OBVIOUS
  <2>2. f[0] = {{}}
    BY <1>3, <2>1
  <2> QED BY <2>2
<1>5. ASSUME NEW k \in Nat, k \in K PROVE k + 1 \in K
  <2> SUFFICES ASSUME k + 1 <= n PROVE f[k + 1] \subseteq SUBSET S
    OBVIOUS
  <2>1. k <= n /\ k + 1 \in 0..n /\ k + 1 # 0 /\ (k + 1) - 1 = k
    BY SMT
  <2>2. f[k] \subseteq SUBSET S
    BY <1>5, <2>1
  <2>3. f[k + 1] = OneMore(f[k], S)
    BY <1>3, <2>1, Zenon
  <2> QED BY <2>2, <2>3 DEF OneMore
<1> HIDE DEF K
<1>6. Nat \subseteq K
  BY <1>4, <1>5, AllNumbers
<1>7. n \in K /\ n <= n
  BY <1>6
<1> QED BY <1>2, <1>7 DEF K

LEMMA LoadsTyped ==
    ASSUME NEW load \in Loads PROVE load[1] \subseteq Circumstances /\ load[2] \subseteq Phrases
<1>1. PICK k \in 0..Load : load \in AtMost(k, Circumstances) \X AtMost(Load - k, Phrases)
  BY Zenon DEF Loads
<1>2. k \in Nat /\ Load - k \in Nat
  BY FinalAssumption
<1>3. load[1] \in AtMost(k, Circumstances) /\ load[2] \in AtMost(Load - k, Phrases)
  BY <1>1, Zenon
<1>4. AtMost(k, Circumstances) \subseteq SUBSET Circumstances
  BY <1>2, AtMostSubsets
<1>5. AtMost(Load - k, Phrases) \subseteq SUBSET Phrases
  BY <1>2, AtMostSubsets
<1> QED BY <1>3, <1>4, <1>5, Zenon

FinalTypes ==
    /\ ready \in BOOLEAN /\ status \in Statuses \cup {"none"}
    /\ outcome.lines \in Sizes /\ met \subseteq Circumstances /\ own \subseteq Phrases
    /\ TextTyped(text)

LEMMA FinalTypesHold == ASSUME FinalInv, FinalTypes PROVE FinalTypeOK
BY Zenon DEF FinalInv, FinalTypes, FinalTypeOK, TextTyped, Statuses

LEMMA FinalTypesStart == FinalInit => FinalTypes
<1> SUFFICES ASSUME FinalInit PROVE FinalTypes
  OBVIOUS
<1>1. /\ ready = FALSE /\ status = "none" /\ outcome = [status |-> "failed", lines |-> 0] /\ met = {} /\ own = {}
      /\ text = Blank
  BY Zenon DEF FinalInit
<1>2. outcome.lines = 0 /\ 0 \in Sizes /\ <<>> \in Seq(GateNames) /\ 0 \in Nat
  BY <1>1 DEF Sizes
<1>3. text.phrases = {} /\ text.lines = 0 /\ text.notes = <<>> /\ text.caveat = FALSE
  BY <1>1, Zenon DEF Blank
<1>4. text = [phrases |-> text.phrases, lines |-> text.lines, notes |-> text.notes, caveat |-> text.caveat]
  BY <1>1, <1>3, Zenon DEF Blank
<1>5. TextTyped(text)
  BY <1>2, <1>3, <1>4, Zenon DEF TextTyped, IsText
<1> QED BY <1>1, <1>2, <1>5, Zenon DEF FinalTypes

LEMMA FinalTypesStep == ASSUME FinalInv, FinalTypes, [FinalNext]_finalVars PROVE FinalTypes'
<1>a. FinalInv'
  BY FinalStep
<1>1. CASE Begins
  BY <1>1, Zenon DEF Begins, FinalTypes, TextTyped, IsText
<1>2. CASE RoundsEnd
  <2>1. /\ outcome' \in [status : {"success", "partial", "failed"}, lines : Sizes]
        /\ \E load \in Loads : met' = load[1] /\ own' = load[2]
        /\ UNCHANGED <<status, ready, text>>
    BY <1>2, Zenon DEF RoundsEnd
  <2>2. outcome'.lines \in Sizes
    BY <2>1
  <2>3. met' \subseteq Circumstances /\ own' \subseteq Phrases
    BY <2>1, LoadsTyped, Zenon
  <2> QED BY <2>1, <2>2, <2>3, Zenon DEF FinalTypes, TextTyped, IsText
<1>3. CASE Finalize
  <2>1. stage' = "answer" /\ ready' \in BOOLEAN /\ UNCHANGED <<Facts, text>>
    BY <1>3, Zenon DEF Finalize, ReadyAfter, BuiltReady
  <2>2. status' \in Statuses
    BY <1>a, <2>1, Zenon DEF FinalInv
  <2> QED BY <2>1, <2>2, Zenon DEF FinalTypes, Facts, TextTyped, IsText
<1>4. CASE Answer
  <2>1. UNCHANGED <<Facts, status, ready>> /\ outcome.lines \in Nat /\ own \subseteq Phrases
    BY <1>4 DEF Answer, FinalTypes, Sizes
  <2>2. stage' = "policy" /\ status \in Statuses
    BY <1>4, Zenon DEF Answer, FinalInv
  <2>3. IsText(text')
    BY <1>a, <2>2, Zenon DEF FinalInv
  <2>4. outcome.lines + 1 \in Nat /\ 0 \in Nat
    BY <2>1
  <2>5. \/ text' = [phrases |-> own, lines |-> outcome.lines, notes |-> <<>>, caveat |-> FALSE]
        \/ text' = [phrases |-> own, lines |-> outcome.lines + 1, notes |-> <<>>, caveat |-> TRUE]
        \/ text' = [phrases |-> {}, lines |-> 0, notes |-> <<>>, caveat |-> FALSE]
    BY <1>4, <2>2, Zenon DEF Answer, Blank, Statuses
  <2>6. text'.phrases \subseteq Phrases /\ text'.lines \in Nat /\ text'.caveat \in BOOLEAN
    <3>1. ASSUME NEW ps, NEW n, NEW c, text' = [phrases |-> ps, lines |-> n, notes |-> <<>>, caveat |-> c]
          PROVE  text'.phrases = ps /\ text'.lines = n /\ text'.caveat = c
      BY <3>1
    <3>2. /\ text'.phrases = own \/ text'.phrases = {}
          /\ text'.lines = outcome.lines \/ text'.lines = outcome.lines + 1 \/ text'.lines = 0
          /\ text'.caveat = TRUE \/ text'.caveat = FALSE
      BY <2>5, <3>1, Zenon
    <3>3. {} \subseteq Phrases
      OBVIOUS
    <3> QED BY <2>1, <2>4, <3>2, <3>3, Zenon
  <2>7. TextTyped(text')
    BY <2>3, <2>6, Zenon DEF TextTyped
  <2> QED BY <2>1, <2>7, Zenon DEF FinalTypes, Facts, TextTyped, IsText
<1>5. CASE Policy
  <2>1. text' = Gated(text) /\ UNCHANGED <<Facts, status, ready>>
    BY <1>5, Zenon DEF Policy
  <2>2. TextTyped(Gated(text))
    BY GatedTyped, Zenon DEF FinalTypes
  <2>3. TextTyped(text')
    BY <2>1, <2>2, Zenon
  <2> QED BY <2>1, <2>3, Zenon DEF FinalTypes, Facts, TextTyped, IsText
<1>6. CASE UNCHANGED finalVars
  BY <1>6, Zenon DEF finalVars, FinalTypes, TextTyped, IsText
<1> QED BY <1>1, <1>2, <1>3, <1>4, <1>5, <1>6, Zenon DEF FinalNext


\* What adds to the messages of a turn.
LEMMA LongerBy ==
    ASSUME NEW S, NEW s \in Seq(S), NEW T, NEW t \in Seq(T)
    PROVE  /\ s \o t \in Seq(S \cup T) /\ Len(s \o t) = Len(s) + Len(t)
           /\ Len(s) \in Nat /\ Len(t) \in Nat
<1>1. s \in Seq(S \cup T)
  OBVIOUS
<1>2. t \in Seq(S \cup T)
  OBVIOUS
<1> QED BY <1>1, <1>2

LEMMA RequestsTypesStart == RequestsInit => RequestsTypeOK
<1> SUFFICES ASSUME RequestsInit PROVE RequestsTypeOK
  OBVIOUS
<1>1. loop = "start" /\ messages = <<>> /\ finalAsked = FALSE /\ request.kind = "none"
  BY DEF RequestsInit, NoRequest
<1>2. Len(<<>>) <= MaxMessages
  BY RequestsAssumption
<1> QED BY <1>1, <1>2, Zenon DEF RequestsTypeOK

LEMMA CondensedKind == ASSUME NEW ms PROVE Condensed(ms).kind = "round"
<1>1. \E l, c, v : Condensed(ms) = [kind |-> "round", messages |-> v, listed |-> l, complete |-> c]
  BY Zenon DEF Condensed
<1> QED BY <1>1

LEMMA RequestsTypesStep ==
    ASSUME RequestsInv, RequestsTypeOK, [RequestsNext]_requestVars PROVE RequestsTypeOK'
<1> USE DEF RequestsTypeOK
<1>0. loop # "start" => messages \in Seq(Messages)
  BY Zenon DEF RequestsInv, Conversation
<1>1. CASE \E context \in BOOLEAN, size \in TextSizes : Begin(context, size)
  <2>1. PICK context \in BOOLEAN, size \in TextSizes : Begin(context, size)
    BY <1>1
  <2> DEFINE rules == Message("system", "rules", Long, 0)
             told == Message("system", "context", Long, 0)
             prompt == Message("user", "prompt", size, 0)
  <2>2. /\ messages' = <<rules>> \o (IF context THEN <<told>> ELSE <<>>) \o <<prompt>>
        /\ loop' = "round" /\ UNCHANGED <<finalAsked, request>>
    BY <2>1, Zenon DEF Begin
  <2> DEFINE more == IF context THEN <<told>> ELSE <<>>
  <2> HIDE DEF rules, told, prompt
  <2>3. <<rules>> \in Seq({rules}) /\ Len(<<rules>>) = 1 /\ <<prompt>> \in Seq({prompt}) /\ Len(<<prompt>>) = 1
    OBVIOUS
  <2>4. more \in Seq({told}) /\ Len(more) \in {0, 1}
    <3>1. <<told>> \in Seq({told}) /\ Len(<<told>>) = 1 /\ <<>> \in Seq({told}) /\ Len(<<>>) = 0
      OBVIOUS
    <3> QED BY <3>1
  <2>5. messages' = (<<rules>> \o more) \o <<prompt>>
    BY <2>2, Zenon
  <2> HIDE DEF more
  <2> DEFINE front == <<rules>> \o more
  <2>6. front \in Seq({rules} \cup {told}) /\ Len(front) = 1 + Len(more)
    BY <2>3, <2>4, LongerBy
  <2> HIDE DEF front
  <2>7. Len(front \o <<prompt>>) = Len(front) + 1
    BY <2>3, <2>6, LongerBy
  <2>8. Len(messages') \in {2, 3}
    BY <2>4, <2>5, <2>6, <2>7 DEF front
  <2> QED BY <2>2, <2>8, RequestsAssumption
<1>2. CASE \E n \in 0..2 : Drain(n)
  <2>1. PICK n \in 0..2 : Drain(n)
    BY <1>2
  <2> DEFINE new == SubSeq(Typed, Cardinality(steered) + 1, Cardinality(steered) + n)
             Hint(i) == User(new[i])
             more == [i \in 1..n |-> Hint(i)]
  <2>2. /\ loop = "round" /\ loop' = "drained" /\ Len(messages) + n <= MaxMessages /\ messages' = messages \o more
        /\ UNCHANGED <<finalAsked, request>>
    BY <2>1, Zenon DEF Drain
  <2> HIDE DEF new
  <2>3. n \in Nat
    OBVIOUS
  <2> DEFINE V == {Hint(i) : i \in 1..n}
  <2> HIDE DEF Hint
  <2>4. more \in [1..n -> V]
    OBVIOUS
  <2> HIDE DEF more, V
  <2>a. more \in Seq(V) /\ Len(more) = n
    BY <2>3, <2>4
  <2>5. Len(messages') = Len(messages) + n
    BY <1>0, <2>2, <2>a, LongerBy
  <2> QED BY <2>2, <2>5
<1>3. CASE \E digest \in BOOLEAN : AskModel(digest)
  <2>1. loop' = "called" /\ UNCHANGED <<messages, finalAsked>> /\ request'.kind = "round"
    BY <1>3, CondensedKind DEF AskModel
  <2> QED BY <2>1
<1>4. CASE AskFinal
  <2>1. loop' = "called" /\ UNCHANGED <<messages, finalAsked>> /\ request'.kind = "final"
    BY <1>4 DEF AskFinal
  <2> QED BY <2>1
<1>5. CASE AskPlan
  <2>1. loop' = "done" /\ UNCHANGED <<messages, finalAsked>> /\ request'.kind = "round"
    BY <1>5, CondensedKind DEF AskPlan
  <2> QED BY <2>1
<1>6. ASSUME loop # "start", NEW n \in 1..2, NEW size
      PROVE  \E S : /\ WithResults(messages, n, size) \in Seq(S)
                    /\ Len(WithResults(messages, n, size)) = Len(messages) + 1 + n
  <2> DEFINE call == Message("assistant", "call", 1, n)
             shown == Message("tool", "result", size, 0)
             results == [i \in 1..n |-> shown]
             front == messages \o <<call>>
  <2>1. WithResults(messages, n, size) = front \o results
    BY Zenon DEF WithResults
  <2> HIDE DEF call, shown
  <2>2. <<call>> \in Seq({call}) /\ Len(<<call>>) = 1 /\ n \in Nat
    OBVIOUS
  <2>3. results \in [1..n -> {shown}]
    OBVIOUS
  <2> HIDE DEF results
  <2>4. results \in Seq({shown}) /\ Len(results) = n
    BY <2>2, <2>3
  <2>5. front \in Seq(Messages \cup {call}) /\ Len(front) = Len(messages) + 1
    BY <1>0, <1>6, <2>2, LongerBy
  <2> HIDE DEF front
  <2>6. /\ front \o results \in Seq((Messages \cup {call}) \cup {shown})
        /\ Len(front \o results) = Len(front) + n
    BY <2>4, <2>5, LongerBy
  <2> QED BY <2>1, <2>5, <2>6
<1>7. CASE Inject
  <2>1. /\ loop = "drained" /\ loop' = "round" /\ Len(messages) + 2 <= MaxMessages
        /\ messages' = WithResults(messages, 1, Long) /\ UNCHANGED <<finalAsked, request>>
    BY <1>7, Zenon DEF Inject, Room
  <2>2. Len(messages') = Len(messages) + 1 + 1 /\ Len(messages) \in Nat
    BY <1>0, <1>6, <2>1
  <2> QED BY <2>1, <2>2
<1>8. CASE RequestFinal
  <2>1. /\ loop = "drained" /\ loop' = loop /\ Len(messages) + 1 <= MaxMessages
        /\ messages' = Append(messages, User("final")) /\ finalAsked' = TRUE /\ request' = request
    BY <1>8, Zenon DEF RequestFinal, Room
  <2>2. Len(messages') = Len(messages) + 1 /\ Len(messages) \in Nat
    BY <1>0, <2>1
  <2> QED BY <2>1, <2>2
<1>9. CASE \E n \in 1..2, size \in TextSizes, nudge \in Nudges : CallTools(n, size, nudge)
  <2>1. PICK n \in 1..2, size \in TextSizes, nudge \in Nudges : CallTools(n, size, nudge)
    BY <1>9
  <2> DEFINE front == WithResults(messages, n, size)
  <2>2. /\ loop = "called" /\ loop' = "round" /\ Len(messages) + (n + 1 + Len(nudge)) <= MaxMessages
        /\ messages' = front \o nudge /\ finalAsked' \in BOOLEAN /\ request' = request
    BY <2>1, Zenon DEF CallTools, Room
  <2>3. nudge \in Seq({User("retry"), User("final")}) /\ Len(nudge) \in Nat
    <3> DEFINE a == User("retry")
               b == User("final")
    <3>1. nudge \in {<<>>, <<a>>, <<b>>}
      BY DEF Nudges
    <3> HIDE DEF a, b
    <3>2. /\ <<a>> \in Seq({a, b}) /\ <<b>> \in Seq({a, b}) /\ <<>> \in Seq({a, b})
          /\ Len(<<a>>) = 1 /\ Len(<<b>>) = 1 /\ Len(<<>>) = 0
      OBVIOUS
    <3>3. nudge \in Seq({a, b}) /\ Len(nudge) \in Nat
      BY <3>1, <3>2
    <3> QED BY <3>3 DEF a, b
  <2>4. PICK S : front \in Seq(S) /\ Len(front) = Len(messages) + 1 + n
    BY <1>6, <2>2
  <2> HIDE DEF front
  <2>5. Len(messages') = Len(front) + Len(nudge) /\ Len(messages) \in Nat
    BY <1>0, <2>2, <2>3, <2>4, LongerBy
  <2>6. Len(messages') <= MaxMessages
    BY <2>2, <2>3, <2>4, <2>5, RequestsAssumption
  <2> QED BY <2>2, <2>6
<1>10. CASE \E keeps \in BOOLEAN, size \in TextSizes : Retries(keeps, size)
  <2>1. PICK keeps \in BOOLEAN, size \in TextSizes : Retries(keeps, size)
    BY <1>10
  <2> DEFINE words == Message("assistant", "text", size, 0)
             wording == IF keeps THEN <<words>> ELSE <<>>
             front == messages \o wording
  <2>2. /\ loop = "called" /\ loop' = "round" /\ Len(messages) + (IF keeps THEN 2 ELSE 1) <= MaxMessages
        /\ messages' = front \o <<User("retry")>> /\ UNCHANGED <<finalAsked, request>>
    BY <2>1, Zenon DEF Retries, Room
  <2> HIDE DEF words
  <2>3. wording \in Seq({words}) /\ Len(wording) = IF keeps THEN 1 ELSE 0
    <3>1. <<words>> \in Seq({words}) /\ Len(<<words>>) = 1 /\ <<>> \in Seq({words}) /\ Len(<<>>) = 0
      OBVIOUS
    <3>2. CASE keeps
      BY <3>1, <3>2
    <3>3. CASE ~keeps
      BY <3>1, <3>3
    <3> QED BY <3>2, <3>3
  <2>4. <<User("retry")>> \in Seq({User("retry")}) /\ Len(<<User("retry")>>) = 1
    <3> DEFINE a == User("retry")
    <3> HIDE DEF a
    <3>1. <<a>> \in Seq({a}) /\ Len(<<a>>) = 1
      OBVIOUS
    <3> QED BY <3>1 DEF a
  <2> HIDE DEF wording
  <2>5. front \in Seq(Messages \cup {words}) /\ Len(front) = Len(messages) + Len(wording) /\ Len(messages) \in Nat
    BY <1>0, <2>2, <2>3, LongerBy
  <2> HIDE DEF front
  <2> DEFINE asked == <<User("retry")>>
  <2> HIDE DEF asked
  <2>a. messages' = front \o asked /\ asked \in Seq({User("retry")}) /\ Len(asked) = 1
    BY <2>2, <2>4 DEF asked
  <2>6. Len(front \o asked) = Len(front) + Len(asked)
    BY <2>a, <2>5, LongerBy
  <2>7. Len(messages') <= MaxMessages
    BY <2>2, <2>3, <2>5, <2>6, <2>a, RequestsAssumption
  <2> QED BY <2>2, <2>7
<1>11. CASE Answers
  BY <1>11 DEF Answers
<1>12. CASE UNCHANGED requestVars
  BY <1>12 DEF requestVars
<1> QED BY <1>1, <1>2, <1>3, <1>4, <1>5, <1>7, <1>8, <1>9, <1>10, <1>11, <1>12, Zenon DEF RequestsNext

-----------------------------------------------------------------------------
(* The components together: each keeps its types while the others step.    *)

SessionTypes ==
    /\ TurnTypeOK /\ SteerInv /\ GuardInv /\ GuardBounds /\ FinalInv /\ FinalTypes
    /\ RequestsInv /\ RequestsTypeOK

LEMMA ComponentSteps ==
    ASSUME [Next]_vars
    PROVE  /\ [TurnNext]_turnVars /\ [SteerNext]_steerVars /\ [GuardNext]_guardVars
           /\ [FinalNext]_finalVars /\ [RequestsNext]_requestVars
<1>1. CASE UNCHANGED vars
  BY <1>1, Zenon DEF vars
<1>2. CASE Next /\ active = "steering"
  <2>1. SteersOnly /\ SteerNext
    BY <1>2 DEF Next, SteerNext
  <2> QED BY <2>1, Zenon DEF SteersOnly
<1>3. CASE Next /\ active = "turns"
  <2>1. TurnsOnly /\ TurnNext
    BY <1>3 DEF Next, TurnNext
  <2> QED BY <2>1, Zenon DEF TurnsOnly
<1>4. CASE Next /\ active = "requests"
  <2>1. RequestsOnly /\ RequestsNext
    BY <1>4 DEF Next, RequestsNext
  <2> QED BY <2>1, Zenon DEF RequestsOnly
<1>5. CASE Next /\ active = "guards"
  <2>1. GuardsOnly /\ GuardNext
    BY <1>5 DEF Next, GuardNext
  <2> QED BY <2>1, Zenon DEF GuardsOnly
<1>6. CASE Next /\ active = "closure"
  <2>1. FinalOnly /\ FinalNext
    BY <1>6 DEF Next, FinalNext
  <2> QED BY <2>1, Zenon DEF FinalOnly
<1>7. Next => active \in {"steering", "turns", "requests", "guards", "closure"}
  BY DEF Next
<1> QED BY <1>1, <1>2, <1>3, <1>4, <1>5, <1>6, <1>7

\* The state of every component of a session is of its type, whatever the session does
\* and however large its bounds are.
THEOREM SessionTypeCorrect == Spec => []TypeOK
<1>1. Init => SessionTypes
  <2>1. Init => TurnInit /\ SteerInit /\ GuardInit /\ FinalInit /\ RequestsInit
    BY Zenon DEF Init
  <2> QED BY <2>1, TurnTypesStart, SteerInvInit, GuardStart, GuardBoundsStart, FinalStart, FinalTypesStart,
             RequestsStart, RequestsTypesStart, Zenon DEF SessionTypes
<1>2. SessionTypes /\ [Next]_vars => SessionTypes'
  <2> SUFFICES ASSUME SessionTypes, [Next]_vars PROVE SessionTypes'
    OBVIOUS
  <2>1. /\ [TurnNext]_turnVars /\ [SteerNext]_steerVars /\ [GuardNext]_guardVars
        /\ [FinalNext]_finalVars /\ [RequestsNext]_requestVars
    BY ComponentSteps
  <2>2. TurnTypeOK'
    BY <2>1, TurnTypesStep DEF SessionTypes
  <2>3. SteerInv'
    BY <2>1, SteerStep DEF SessionTypes
  <2>4. GuardInv' /\ GuardBounds'
    BY <2>1, GuardStep, GuardBoundsStep DEF SessionTypes
  <2>5. FinalInv' /\ FinalTypes'
    BY <2>1, FinalStep, FinalTypesStep DEF SessionTypes
  <2>6. RequestsInv' /\ RequestsTypeOK'
    BY <2>1, RequestsStep, RequestsTypesStep DEF SessionTypes
  <2> QED BY <2>2, <2>3, <2>4, <2>5, <2>6, Zenon DEF SessionTypes
<1>3. SessionTypes => TypeOK
  <2>1. SteerInv => SteerTypeOK
    BY Zenon DEF SteerInv
  <2> QED BY <2>1, GuardTypesHold, FinalTypesHold, Zenon DEF SessionTypes, TypeOK
<1> QED BY <1>1, <1>2, <1>3, PTL DEF Spec
=============================================================================
