-------------------------- MODULE McpServersProofs --------------------------
(***************************************************************************)
(* McpServers implements RpcContract, for any number of callers, of lines   *)
(* that the pipes hold and of requests of the server's own.                *)
(***************************************************************************)
EXTENDS McpServers, SequenceTheorems, FiniteSetTheorems, TLAPS

-----------------------------------------------------------------------------
Pcs == {"idle", "lock", "drain", "read", "done"}
ReqSet == [pc : Pcs, id : Nat]
LineSet == [kind : {"answer", "error", "long", "ping"}, id : Nat, of : Nat]
Endings == {"none", "answered", "failed", "void"}

\* What the server has carried out.
Served == {k \in Ids : served[k] # 0}

RpcTypes ==
    /\ nextId \in Nat /\ req \in [Requests -> ReqSet] /\ stage \in 0..Ready
    /\ endOf \in [Ids -> Endings]
    /\ stdin \in Seq(Nat) /\ stdout \in Seq(LineSet)
    /\ served \in [Ids -> 0..1] /\ got \in [Ids -> SUBSET Ids]
    /\ Served \subseteq 1..nextId /\ work \subseteq Served

\* The ids given out: one to each call, one to each stage of the bootstrap.
Asked == {r \in Callers : req[r].pc # "idle"}
BootAsks == IF stage = BootFailed THEN Stages
            ELSE stage - 1 + (IF req[Boot].pc = "idle" THEN 0 ELSE 1)
IdsCounted == nextId <= Cardinality(Asked) + BootAsks
BootOK == /\ req[Boot].pc # "done"
          /\ req[Boot].pc # "idle" => stage \in 1..Stages
          /\ process \/ req[Boot].pc # "idle" => server # "off"

\* A request under way has an id of its own, and no outcome; one that has not been sent
\* is not known to the server.
Pending(r) == req[r].pc \in {"lock", "drain", "read"}
PendingOK ==
    \A r \in Requests : Pending(r) =>
        /\ req[r].id \in 1..nextId
        /\ req[r].id \in Ids => endOf[req[r].id] = "none"
        /\ req[r].pc = "lock" =>
               req[r].id \notin Served /\ \A i \in 1..Len(stdin) : stdin[i] # req[r].id
OwnIds == \A q, r \in Requests : Pending(q) /\ Pending(r) /\ q # r => req[q].id # req[r].id
NewOK == \A k \in Ids : k > nextId => endOf[k] = "none"

\* What is on its way to the server has not been carried out; an answer on its way back has.
PipeOK ==
    \A i \in 1..Len(stdin) :
        /\ stdin[i] \in 1..nextId /\ stdin[i] \notin Served
        /\ \A j \in 1..Len(stdin) : stdin[j] = stdin[i] => j = i
AnswersOK == \A i \in 1..Len(stdout) :
                 stdout[i].kind = "answer" => stdout[i].id \in Served /\ stdout[i].of = stdout[i].id
\* Who has no answer was given none.
GotOK == \A k \in Ids : endOf[k] = "none" => got[k] = {}

RpcInv ==
    RpcTypes /\ IdsCounted /\ BootOK /\ PendingOK /\ OwnIds /\ NewOK /\ PipeOK /\ AnswersOK /\ GotOK

-----------------------------------------------------------------------------
LEMMA IdsType == ASSUME Setting PROVE Cardinality(Callers) \in Nat /\ Ids = 1..(Cardinality(Callers) + 4)
BY FS_CardinalityType DEF Setting, Ids, Stages

LEMMA IdleReq == Unasked \in ReqSet /\ Unasked.pc = "idle"
BY DEF Unasked, ReqSet, Pcs

LEMMA RpcInit == ASSUME Setting, McpInit PROVE RpcInv
<1>1. RpcTypes
  <2>1. Served = {}
        BY DEF McpInit, Served
  <2> QED
      BY IdleReq, <2>1 DEF McpInit, RpcTypes, Ready, Stages, Endings
<1>2. Asked = {} /\ Cardinality(Asked) = 0
      BY IdleReq, FS_EmptySet DEF McpInit, Asked, Requests
<1>3. req[Boot] = Unasked
      BY DEF McpInit, Requests
<1>4. IdsCounted /\ BootOK
      BY <1>2, <1>3, IdleReq DEF McpInit, IdsCounted, BootOK, BootAsks, BootFailed, Stages
<1>5. \A r \in Requests : ~Pending(r)
      BY IdleReq DEF McpInit, Pending
<1> QED
    BY <1>1, <1>4, <1>5 DEF McpInit, RpcInv, PendingOK, OwnIds, NewOK, PipeOK, AnswersOK, GotOK

\* No more ids are given out than there are.
LEMMA IdsGiven ==
    ASSUME Setting, RpcTypes, IdsCounted, BootOK
    PROVE  1..nextId \subseteq Ids
<1>1. IsFiniteSet(Asked) /\ Cardinality(Asked) \in Nat /\ Cardinality(Asked) <= Cardinality(Callers)
      BY FS_Subset, FS_CardinalityType DEF Setting, Asked
<1>2. BootAsks \in Int /\ BootAsks <= 4
      BY DEF BootAsks, BootOK, RpcTypes, Ready, Stages, BootFailed
<1> QED
    BY <1>1, <1>2, IdsType DEF IdsCounted, RpcTypes

LEMMA AskedFinite ==
    ASSUME Setting
    PROVE  IsFiniteSet(Asked) /\ Cardinality(Asked) \in Nat
BY FS_Subset, FS_CardinalityType DEF Setting, Asked

LEMMA NewReq ==
    ASSUME NEW q \in ReqSet, NEW p \in Pcs
    PROVE  /\ [q EXCEPT !.pc = p] \in ReqSet
           /\ [q EXCEPT !.pc = p].pc = p /\ [q EXCEPT !.pc = p].id = q.id
BY DEF ReqSet

LEMMA OneReq ==
    ASSUME req \in [Requests -> ReqSet], NEW r \in Requests, NEW new \in ReqSet,
           req' = [req EXCEPT ![r] = new]
    PROVE  /\ req' \in [Requests -> ReqSet]
           /\ req'[r] = new /\ \A q \in Requests : q # r => req'[q] = req[q]
OBVIOUS

-----------------------------------------------------------------------------
\* A request starts: the id is new to everyone.
LEMMA AskKeeps ==
    ASSUME Setting, RpcInv, NEW r \in Requests, Ask(r)
    PROVE  RpcInv'
<1> DEFINE new == [pc |-> "lock", id |-> nextId + 1]
<1>0. RpcTypes /\ IdsCounted /\ BootOK /\ PendingOK /\ OwnIds /\ NewOK /\ PipeOK /\ AnswersOK /\ GotOK
      BY DEF RpcInv
<1>1. /\ req[r].pc = "idle" /\ process /\ nextId' = nextId + 1
      /\ r = Boot => stage \in 1..Stages
      /\ req' = [req EXCEPT ![r] = new]
      /\ UNCHANGED <<process, stage, endOf, got, stdin, stdout, server, work, served, Served>>
      BY DEF Ask, Server, Served
<1>2. new \in ReqSet /\ new.pc = "lock" /\ new.id = nextId + 1 /\ nextId \in Nat
      BY <1>0 DEF ReqSet, Pcs, RpcTypes
<1> HIDE DEF new
<1>3. /\ req' \in [Requests -> ReqSet]
      /\ req'[r] = new /\ \A q \in Requests : q # r => req'[q] = req[q]
      BY <1>0, <1>1, <1>2, OneReq DEF RpcTypes
<1>4. RpcTypes'
      BY <1>0, <1>1, <1>2, <1>3 DEF RpcTypes
<1>5. IdsCounted'
  <2>1. CASE r = Boot
    <3>1. Asked' = Asked
          BY <1>3, <2>1 DEF Asked, Setting, Requests
    <3>2. BootAsks' = BootAsks + 1 /\ BootAsks \in Int
          BY <1>1, <1>2, <1>3, <2>1 DEF BootAsks, BootFailed, Stages
    <3> QED
        BY <1>0, <1>1, <1>2, <3>1, <3>2, AskedFinite DEF IdsCounted
  <2>2. CASE r # Boot
    <3>1. r \in Callers /\ r \notin Asked /\ Asked' = Asked \cup {r}
          BY <1>1, <1>2, <1>3, <2>2 DEF Asked, Requests
    <3>2. Cardinality(Asked') = Cardinality(Asked) + 1
          BY <3>1, AskedFinite, FS_AddElement
    <3>3. BootAsks' = BootAsks /\ BootAsks \in Int
          BY <1>0, <1>1, <1>3, <2>2 DEF BootAsks, BootFailed, Stages, RpcTypes, Ready, Requests
    <3> QED
        BY <1>0, <1>1, <1>2, <3>2, <3>3, AskedFinite DEF IdsCounted
  <2> QED
      BY <2>1, <2>2
<1>6. BootOK'
  <2>1. CASE r = Boot
        BY <1>0, <1>1, <1>2, <1>3, <2>1 DEF BootOK
  <2>2. CASE r # Boot
        BY <1>0, <1>1, <1>3, <2>2 DEF BootOK, Requests
  <2> QED
      BY <2>1, <2>2
<1>7. Served \subseteq 1..nextId /\ \A i \in 1..Len(stdin) : stdin[i] \in 1..nextId
      BY <1>0 DEF RpcTypes, PipeOK
<1>8. PendingOK'
  <2>1. ASSUME NEW q \in Requests, q # r, Pending(q)'
        PROVE  /\ req'[q].id \in 1..nextId'
               /\ req'[q].id \in Ids => endOf'[req'[q].id] = "none"
               /\ req'[q].pc = "lock" => req'[q].id \notin Served'
                                      /\ \A i \in 1..Len(stdin') : stdin'[i] # req'[q].id
    <3>1. Pending(q) /\ req'[q] = req[q]
          BY <1>3, <2>1 DEF Pending
    <3> QED
        BY <1>0, <1>1, <1>2, <3>1 DEF PendingOK
  <2>2. /\ req'[r].id \in 1..nextId'
        /\ req'[r].id \in Ids => endOf'[req'[r].id] = "none"
        /\ req'[r].pc = "lock" => req'[r].id \notin Served'
                               /\ \A i \in 1..Len(stdin') : stdin'[i] # req'[r].id
        BY <1>0, <1>1, <1>2, <1>3, <1>7 DEF NewOK
  <2> QED
      BY <2>1, <2>2 DEF PendingOK
<1>9. OwnIds'
  <2>1. \A q \in Requests : q # r /\ Pending(q)' => Pending(q) /\ req'[q] = req[q] /\ req[q].id \in 1..nextId
        BY <1>0, <1>3 DEF Pending, PendingOK
  <2> QED
      BY <1>0, <1>2, <1>3, <2>1 DEF OwnIds
<1>10. NewOK'
      BY <1>0, <1>1, <1>2 DEF NewOK, Ids
<1>11. PipeOK'
      BY <1>0, <1>1, <1>2 DEF PipeOK
<1>12. AnswersOK' /\ GotOK'
      BY <1>0, <1>1 DEF AnswersOK, GotOK
<1> QED
    BY <1>4, <1>5, <1>6, <1>8, <1>9, <1>10, <1>11, <1>12 DEF RpcInv

-----------------------------------------------------------------------------
\* What has been read from the server is a line less.
LEMMA TailKeeps ==
    ASSUME RpcTypes, AnswersOK, stdout # <<>>, stdout' = Tail(stdout), Served' = Served
    PROVE  (stdout \in Seq(LineSet))' /\ AnswersOK'
<1>1. /\ stdout' \in Seq(LineSet) /\ Len(stdout') = Len(stdout) - 1 /\ Len(stdout) \in Nat
      /\ \A i \in 1..Len(stdout') : stdout'[i] = stdout[i + 1]
      BY HeadTailProperties DEF RpcTypes
<1>2. \A i \in 1..Len(stdout') : i + 1 \in 1..Len(stdout)
      BY <1>1
<1> QED
    BY <1>1, <1>2 DEF AnswersOK

\* A request ends: it has an outcome, and only it.
LEMMA EndedKeeps ==
    ASSUME Setting, RpcInv, NEW r \in Requests, Pending(r),
           NEW how \in {"answered", "failed", "void"}, NEW mcpError, Ended(r, how, mcpError),
           stdin' = stdin, stdout' = stdout \/ (stdout # <<>> /\ stdout' = Tail(stdout)),
           how = "answered" => Head(stdout).of = req[r].id
    PROVE  RpcInv'
<1> DEFINE new == IF r = Boot THEN Unasked ELSE [req[r] EXCEPT !.pc = "done"]
<1>0. RpcTypes /\ IdsCounted /\ BootOK /\ PendingOK /\ OwnIds /\ NewOK /\ PipeOK /\ AnswersOK /\ GotOK
      BY DEF RpcInv
<1>1. /\ endOf' = [endOf EXCEPT ![req[r].id] = how]
      /\ req' = [req EXCEPT ![r] = new]
      /\ r # Boot => stage' = stage
      /\ r = Boot => stage' \in {BootFailed, stage + 1}
      /\ UNCHANGED <<nextId, process, server, work, served, Served>>
      /\ got' = IF how = "answered" THEN [got EXCEPT ![req[r].id] = @ \cup {Head(stdout).of}] ELSE got
      BY DEF Ended, Server, Served
<1>2. new \in ReqSet /\ (r = Boot => new.pc = "idle") /\ (r # Boot => new.pc = "done")
  <2>1. req[r] \in ReqSet /\ "done" \in Pcs
        BY <1>0 DEF RpcTypes, Pcs
  <2> QED
      BY <2>1, IdleReq, NewReq
<1> HIDE DEF new
<1>3. /\ req' \in [Requests -> ReqSet]
      /\ req'[r] = new /\ \A q \in Requests : q # r => req'[q] = req[q]
      BY <1>0, <1>1, <1>2, OneReq DEF RpcTypes
<1>4. (stdout \in Seq(LineSet))' /\ AnswersOK'
  <2>1. CASE stdout' = stdout
        BY <1>0, <1>1, <2>1 DEF RpcTypes, AnswersOK
  <2>2. CASE stdout # <<>> /\ stdout' = Tail(stdout)
        BY <1>0, <1>1, <2>2, TailKeeps
  <2> QED
      BY <2>1, <2>2
<1>5. r = Boot => stage \in 1..Stages
      BY <1>0 DEF BootOK, Pending
<1>6. RpcTypes'
  <2>1. endOf' \in [Ids -> Endings]
        BY <1>0, <1>1 DEF RpcTypes, Endings
  <2>2. stage' \in 0..Ready
        BY <1>0, <1>1, <1>5 DEF RpcTypes, Ready, Stages, BootFailed
  <2>3. got' \in [Ids -> SUBSET Ids]
        BY <1>0, <1>1 DEF RpcTypes
  <2> QED
      BY <1>0, <1>1, <1>3, <1>4, <2>1, <2>2, <2>3 DEF RpcTypes
<1>7. IdsCounted'
  <2>1. Asked' = Asked
    <3>1. \A q \in Callers : req'[q].pc # "idle" <=> req[q].pc # "idle"
          BY <1>2, <1>3 DEF Setting, Pending, Requests
    <3> QED
        BY <3>1 DEF Asked
  <2>2. BootAsks \in Int /\ BootAsks' \in Int /\ BootAsks <= BootAsks'
    <3>1. CASE r = Boot
      <4>1. req[Boot].pc # "idle" /\ req'[Boot].pc = "idle" /\ stage \in 1..4
            BY <1>2, <1>3, <1>5, <3>1 DEF Pending, Stages
      <4>2. BootAsks = stage
            BY <4>1 DEF BootAsks, BootFailed, Stages
      <4>3. BootAsks' = 4 \/ BootAsks' = stage
            BY <1>1, <3>1, <4>1 DEF BootAsks, BootFailed, Stages
      <4> QED
          BY <4>1, <4>2, <4>3
    <3>2. CASE r # Boot
          BY <1>0, <1>1, <1>3, <3>2 DEF BootAsks, BootFailed, Stages, RpcTypes, Ready, Requests
    <3> QED
        BY <3>1, <3>2
  <2> QED
      BY <1>0, <1>1, <2>1, <2>2, AskedFinite DEF IdsCounted, RpcTypes
<1>8. BootOK'
  <2>1. CASE r = Boot
        BY <1>0, <1>1, <1>2, <1>3, <2>1 DEF BootOK
  <2>2. CASE r # Boot
        BY <1>0, <1>1, <1>3, <2>2 DEF BootOK, Requests
  <2> QED
      BY <2>1, <2>2
<1>9. \A q \in Requests : Pending(q)' => Pending(q) /\ q # r /\ req'[q] = req[q]
      BY <1>2, <1>3 DEF Pending
<1>10. PendingOK'
  <2>1. ASSUME NEW q \in Requests, Pending(q)'
        PROVE  /\ req'[q].id \in 1..nextId'
               /\ req'[q].id \in Ids => endOf'[req'[q].id] = "none"
               /\ req'[q].pc = "lock" => req'[q].id \notin Served'
                                      /\ \A i \in 1..Len(stdin') : stdin'[i] # req'[q].id
    <3>1. Pending(q) /\ req'[q] = req[q] /\ req[q].id # req[r].id
          BY <1>0, <1>9, <2>1 DEF OwnIds
    <3>2. req[q].id \in Ids => endOf'[req[q].id] = endOf[req[q].id]
          BY <1>0, <1>1, <3>1 DEF RpcTypes
    <3> QED
        BY <1>0, <1>1, <3>1, <3>2 DEF PendingOK
  <2> QED
      BY <2>1 DEF PendingOK
<1>11. OwnIds'
      BY <1>0, <1>9 DEF OwnIds
<1>12. NewOK'
  <2>1. req[r].id \in 1..nextId
        BY <1>0 DEF PendingOK
  <2>2. \A k \in Ids : k > nextId => k # req[r].id
        BY <1>0, <2>1 DEF RpcTypes, Ids
  <2> QED
      BY <1>0, <1>1, <2>2 DEF NewOK, RpcTypes
<1>13. PipeOK'
      BY <1>0, <1>1 DEF PipeOK
<1>14. GotOK'
  <2>1. ASSUME NEW k \in Ids, endOf'[k] = "none" PROVE got'[k] = {}
    <3>1. k # req[r].id /\ endOf[k] = "none"
          BY <1>0, <1>1, <2>1 DEF RpcTypes
    <3> QED
        BY <1>0, <1>1, <3>1 DEF RpcTypes, GotOK
  <2> QED
      BY <2>1 DEF GotOK
<1> QED
    BY <1>14, <1>4, <1>6, <1>7, <1>8, <1>10, <1>11, <1>12, <1>13 DEF RpcInv

-----------------------------------------------------------------------------
\* A request goes on: it is written to the pipe once, when it has the lock.
LEMMA MovedKeeps ==
    ASSUME Setting, RpcInv, NEW r \in Requests, Pending(r), NEW p \in {"drain", "read"},
           req' = [req EXCEPT ![r].pc = p],
           \/ stdin' = stdin
           \/ req[r].pc = "lock" /\ p = "drain" /\ stdin' = Append(stdin, req[r].id),
           UNCHANGED <<nextId, process, stage, endOf, got, stdout, server, work, served, Served>>
    PROVE  RpcInv'
<1> DEFINE new == [req[r] EXCEPT !.pc = p]
<1>0. RpcTypes /\ IdsCounted /\ BootOK /\ PendingOK /\ OwnIds /\ NewOK /\ PipeOK /\ AnswersOK /\ GotOK
      BY DEF RpcInv
<1>1. req' = [req EXCEPT ![r] = new]
      BY <1>0 DEF RpcTypes
<1>2. new \in ReqSet /\ new.pc = p /\ new.id = req[r].id
  <2>1. req[r] \in ReqSet /\ p \in Pcs
        BY <1>0 DEF RpcTypes, Pcs
  <2> QED
      BY <2>1, NewReq
<1> HIDE DEF new
<1>3. /\ req' \in [Requests -> ReqSet]
      /\ req'[r] = new /\ \A q \in Requests : q # r => req'[q] = req[q]
      BY <1>0, <1>1, <1>2, OneReq DEF RpcTypes
<1>4. \A q \in Requests : /\ Pending(q)' <=> Pending(q)
                          /\ req'[q].id = req[q].id
                          /\ req'[q].pc = "lock" => req[q].pc = "lock" /\ q # r
                          /\ req'[q].pc = "idle" <=> req[q].pc = "idle"
                          /\ req'[q].pc = "done" <=> req[q].pc = "done"
      BY <1>2, <1>3 DEF Pending
<1>5. req[r].id \in 1..nextId
      BY <1>0 DEF PendingOK
<1>6. /\ stdin' \in Seq(Nat) /\ Len(stdin) \in Nat
      /\ \/ stdin' = stdin
         \/ /\ req[r].pc = "lock" /\ Len(stdin') = Len(stdin) + 1 /\ stdin'[Len(stdin) + 1] = req[r].id
            /\ \A i \in 1..Len(stdin) : stdin'[i] = stdin[i]
  <2>1. req[r].id \in Nat /\ stdin \in Seq(Nat)
        BY <1>0, <1>5 DEF RpcTypes
  <2> QED
      BY <2>1, AppendProperties
<1>7. RpcTypes'
      BY <1>0, <1>3, <1>6 DEF RpcTypes
<1>8. Boot \in Requests
      BY DEF Requests
<1>9. IdsCounted' /\ BootOK'
  <2>1. Asked' = Asked
        BY <1>4 DEF Asked, Requests
  <2>2. BootAsks' = BootAsks
        BY <1>4, <1>8 DEF BootAsks
  <2> QED
      BY <1>0, <1>4, <1>8, <2>1, <2>2 DEF IdsCounted, BootOK
<1>10. OwnIds'
      BY <1>0, <1>4 DEF OwnIds
<1>11. PendingOK'
  <2>1. ASSUME NEW q \in Requests, Pending(q)'
        PROVE  /\ req'[q].id \in 1..nextId'
               /\ req'[q].id \in Ids => endOf'[req'[q].id] = "none"
               /\ req'[q].pc = "lock" => req'[q].id \notin Served'
                                      /\ \A i \in 1..Len(stdin') : stdin'[i] # req'[q].id
    <3>1. /\ req[q].id \in 1..nextId
          /\ req[q].id \in Ids => endOf[req[q].id] = "none"
          BY <1>0, <1>4, <2>1 DEF PendingOK
    <3>2. ASSUME req'[q].pc = "lock"
          PROVE  req[q].id \notin Served /\ \A i \in 1..Len(stdin') : stdin'[i] # req[q].id
      <4>1. /\ req[q].id \notin Served /\ \A i \in 1..Len(stdin) : stdin[i] # req[q].id
            /\ req[q].id # req[r].id
            BY <1>0, <1>4, <2>1, <3>2 DEF PendingOK, OwnIds
      <4> QED
          BY <1>6, <4>1
    <3> QED
        BY <1>4, <3>1, <3>2
  <2> QED
      BY <2>1 DEF PendingOK
<1>12. PipeOK'
  <2>1. CASE stdin' = stdin
        BY <1>0, <2>1 DEF PipeOK
  <2>2. CASE /\ req[r].pc = "lock" /\ Len(stdin') = Len(stdin) + 1 /\ stdin'[Len(stdin) + 1] = req[r].id
             /\ \A i \in 1..Len(stdin) : stdin'[i] = stdin[i]
    <3>1. req[r].id \notin Served /\ \A i \in 1..Len(stdin) : stdin[i] # req[r].id
          BY <1>0, <2>2 DEF PendingOK
    <3>2. \A i \in 1..Len(stdin') : i = Len(stdin) + 1 \/ i \in 1..Len(stdin)
          BY <1>6, <2>2
    <3> QED
        BY <1>0, <1>5, <1>6, <2>2, <3>1, <3>2 DEF PipeOK
  <2> QED
      BY <1>6, <2>1, <2>2
<1>13. NewOK' /\ AnswersOK' /\ GotOK'
      BY <1>0 DEF NewOK, AnswersOK, GotOK
<1> QED
    BY <1>7, <1>9, <1>10, <1>11, <1>12, <1>13 DEF RpcInv

-----------------------------------------------------------------------------
(* The steps of the module.                                                *)

LEMMA ReceiveEnds ==
    ASSUME RpcTypes, NEW r \in Requests, Receive(r)
    PROVE  /\ Pending(r) /\ stdout # <<>> /\ stdout' = Tail(stdout) /\ stdin' = stdin
           /\ \/ \E how \in {"failed", "void"}, b \in BOOLEAN : Ended(r, how, b)
              \/ /\ Head(stdout).kind = "answer" /\ Head(stdout).id = req[r].id
                 /\ Ended(r, "answered", FALSE)
              \/ UNCHANGED client /\ Server
<1> DEFINE line == Head(stdout)
           Goal == /\ Pending(r) /\ stdout # <<>> /\ stdout' = Tail(stdout) /\ stdin' = stdin
                   /\ \/ \E how \in {"failed", "void"}, b \in BOOLEAN : Ended(r, how, b)
                      \/ /\ Head(stdout).kind = "answer" /\ Head(stdout).id = req[r].id
                         /\ Ended(r, "answered", FALSE)
                      \/ UNCHANGED client /\ Server
<1> SUFFICES Goal
    OBVIOUS
<1>1. Pending(r) /\ stdout # <<>> /\ stdout' = Tail(stdout) /\ stdin' = stdin
      BY DEF Receive, Pending
<1>2. CASE line.kind = "long"
      BY <1>1, <1>2 DEF Receive
<1>3. CASE line.kind # "long" /\ ~IsFor(line, r)
      BY <1>1, <1>3 DEF Receive
<1>4. CASE line.kind = "answer" /\ IsFor(line, r)
      BY <1>1, <1>4 DEF Receive, IsFor
<1>5. CASE line.kind = "error" /\ IsFor(line, r)
      BY <1>1, <1>5 DEF Receive
<1>6. CASE line.kind = "ping" /\ IsFor(line, r)
      BY <1>1, <1>6 DEF Receive
<1>7. line \in LineSet
      BY <1>1, HeadTailProperties DEF RpcTypes
<1>8. line.kind \in {"answer", "error", "long", "ping"}
      BY <1>7 DEF LineSet
<1> HIDE DEF line, Goal
<1> QED
    BY <1>2, <1>3, <1>4, <1>5, <1>6, <1>8

\* What a step of a request does: it ends the request, moves it on, or drops a line.
LEMMA EndedStep ==
    ASSUME Setting, RpcInv, NEW r \in Requests, Pending(r),
           NEW how \in {"answered", "failed", "void"}, NEW b, Ended(r, how, b),
           stdin' = stdin, stdout' = stdout \/ (stdout # <<>> /\ stdout' = Tail(stdout)),
           how = "answered" => req[r].id \in Served /\ Head(stdout).of = req[r].id
    PROVE  RpcInv' /\ Contract!Next
<1> DEFINE k == req[r].id
<1>1. RpcInv'
      BY EndedKeeps
<1>2. /\ k \in Ids /\ k \in 1..nextId /\ endOf[k] = "none" /\ nextId \in Nat
      /\ endOf \in [Ids -> Endings]
      /\ got[k] = {} /\ got \in [Ids -> SUBSET Ids] /\ served[k] \in 0..1
      BY IdsGiven DEF RpcInv, PendingOK, RpcTypes, GotOK
<1>3. /\ endOf' = [endOf EXCEPT ![k] = how] /\ nextId' = nextId /\ served' = served
      /\ how = "answered" => got' = [got EXCEPT ![k] = got[k] \cup {k}] /\ served[k] # 0
      /\ how # "answered" => got' = got
      BY DEF Ended, Server, Served
<1> HIDE DEF k
<1>4. Told[k] = "asked"
      BY <1>2 DEF Told
<1>5. Told' = [Told EXCEPT ![k] = IF how = "answered" THEN "answered" ELSE "failed"]
  <2>1. \A i \in Ids : endOf'[i] = IF i = k THEN how ELSE endOf[i]
        BY <1>2, <1>3
  <2>2. ~(k > nextId)
        BY <1>2
  <2>3. Told' = [i \in Ids |-> IF i = k THEN (IF how = "answered" THEN "answered" ELSE "failed")
                               ELSE Told[i]]
        BY <1>2, <1>3, <2>1, <2>2 DEF Told
  <2> QED
      BY <1>2, <2>3 DEF Told
<1>6. CASE how = "answered"
  <2>1. served[k] = 1
        BY <1>2, <1>3, <1>6
  <2>2. got' = [got EXCEPT ![k] = {k}]
        BY <1>2, <1>3, <1>6
  <2>3. Contract!Answer(k)
        BY <1>3, <1>4, <1>5, <1>6, <2>1, <2>2 DEF Contract!Answer, Contract!Become
  <2> QED
      BY <1>1, <1>2, <2>3 DEF Contract!Next
<1>7. CASE how # "answered"
  <2>1. Contract!Fail(k)
        BY <1>3, <1>4, <1>5, <1>7 DEF Contract!Fail, Contract!Become
  <2> QED
      BY <1>1, <1>2, <2>1 DEF Contract!Next
<1> QED
    BY <1>6, <1>7

LEMMA FailedIsNoAnswer == "failed" \in {"answered", "failed", "void"} /\ "failed" # "answered"
BY Zenon

LEMMA FailedStep ==
    ASSUME Setting, RpcInv, NEW r \in Requests, Pending(r), NEW b, Ended(r, "failed", b),
           stdin' = stdin, stdout' = stdout
    PROVE  RpcInv' /\ Contract!Next
<1>1. stdout' = stdout \/ (stdout # <<>> /\ stdout' = Tail(stdout))
      OBVIOUS
<1>2. "failed" = "answered" => req[r].id \in Served /\ Head(stdout).of = req[r].id
      BY FailedIsNoAnswer
<1> QED
    BY <1>1, <1>2, FailedIsNoAnswer, EndedStep, Zenon

LEMMA AskStep ==
    ASSUME Setting, RpcInv, NEW r \in Requests, Ask(r)
    PROVE  RpcInv' /\ [Contract!Next]_(Contract!vars)
<1> DEFINE k == nextId + 1
<1>1. RpcInv'
      BY AskKeeps
<1>2. nextId' = k /\ endOf' = endOf /\ served' = served /\ got' = got /\ nextId \in Nat
      BY DEF Ask, Server, RpcInv, RpcTypes
<1>3. CASE k \in Ids
  <2>1. Told[k] = "new" /\ endOf[k] = "none"
        BY <1>2, <1>3 DEF Told, RpcInv, NewOK
  <2>2. Told' = [Told EXCEPT ![k] = "asked"]
    <3>1. \A i \in Ids : i > nextId' <=> i > nextId /\ i # k
          BY <1>2 DEF Ids
    <3> QED
        BY <1>2, <1>3, <2>1, <3>1 DEF Told
  <2>3. Contract!Ask(k)
        BY <1>2, <2>1, <2>2 DEF Contract!Ask, Contract!Become
  <2> QED
      BY <1>1, <1>3, <2>3 DEF Contract!Next
<1>4. CASE k \notin Ids
  <2>1. \A i \in Ids : i > nextId' <=> i > nextId
        BY <1>2, <1>4 DEF Ids
  <2>2. Told' = Told
        BY <1>2, <2>1 DEF Told
  <2> QED
      BY <1>1, <1>2, <2>2 DEF Contract!vars
<1> QED
    BY <1>3, <1>4

\* A step that keeps the ids, the outcomes and what is served changes nothing that a
\* caller may rely on.
LEMMA Hidden ==
    ASSUME UNCHANGED <<nextId, endOf, served, got>>
    PROVE  [Contract!Next]_(Contract!vars)
BY DEF Told, Contract!vars

LEMMA RequestStep ==
    ASSUME Setting, RpcInv, NEW r \in Requests, ClientStep(r)
    PROVE  RpcInv' /\ [Contract!Next]_(Contract!vars)
<1>1. CASE Ask(r)
      BY <1>1, AskStep
<1>2. CASE Send(r)
  <2>1. Pending(r) /\ req[r].pc = "lock" /\ stdout' = stdout
        BY <1>2 DEF Send, Pending
  <2>2. CASE process
    <3>1. /\ req' = [req EXCEPT ![r].pc = "drain"] /\ stdin' = Append(stdin, req[r].id)
          /\ UNCHANGED <<nextId, process, stage, endOf, got, stdout, server, work, served, Served>>
          BY <1>2, <2>2 DEF Send, Server, Served
    <3> QED
        BY <2>1, <3>1, MovedKeeps, Hidden
  <2>3. CASE ~process
    <3>1. Ended(r, "failed", TRUE) /\ stdin' = stdin
          BY <1>2, <2>3 DEF Send
    <3> QED
        BY <2>1, <3>1, FailedStep
  <2> QED
      BY <2>2, <2>3
<1>3. CASE Drain(r)
  <2>1. Pending(r) /\ stdout' = stdout /\ stdin' = stdin
        BY <1>3 DEF Drain, Pending
  <2>2. CASE Ended(r, "failed", FALSE)
        BY <2>1, <2>2, FailedStep
  <2>3. CASE /\ req' = [req EXCEPT ![r].pc = "read"]
             /\ UNCHANGED <<nextId, lockq, process, stage, manager, endOf, got>> /\ Server
    <3>1. UNCHANGED <<nextId, process, stage, endOf, got, stdout, server, work, served, Served>>
          BY <2>1, <2>3 DEF Server, Served
    <3> QED
        BY <2>1, <2>3, <3>1, MovedKeeps, Hidden
  <2> QED
      BY <1>3, <2>2, <2>3 DEF Drain
<1>4. CASE Receive(r)
  <2>1. /\ Pending(r) /\ stdout # <<>> /\ stdout' = Tail(stdout) /\ stdin' = stdin
        /\ \/ \E how \in {"failed", "void"}, b \in BOOLEAN : Ended(r, how, b)
           \/ /\ Head(stdout).kind = "answer" /\ Head(stdout).id = req[r].id
              /\ Ended(r, "answered", FALSE)
           \/ UNCHANGED client /\ Server
        BY <1>4, ReceiveEnds DEF RpcInv
  <2>2. ASSUME NEW how \in {"failed", "void"}, NEW b \in BOOLEAN, Ended(r, how, b)
        PROVE  RpcInv' /\ Contract!Next
        BY <2>1, <2>2, EndedStep
  <2>3. CASE /\ Head(stdout).kind = "answer" /\ Head(stdout).id = req[r].id
             /\ Ended(r, "answered", FALSE)
    <3>1. Len(stdout) \in Nat /\ Len(stdout) > 0 /\ Head(stdout) = stdout[1]
          BY <2>1, EmptySeq, HeadTailProperties DEF RpcInv, RpcTypes
    <3>2. req[r].id \in Served /\ Head(stdout).of = req[r].id
          BY <2>3, <3>1 DEF RpcInv, AnswersOK
    <3> QED
        BY <2>1, <2>3, <3>2, EndedStep
  <2>4. CASE UNCHANGED client /\ Server
    <3>1. UNCHANGED <<nextId, req, process, stage, endOf, got, stdin, server, work, served, Served>>
          BY <2>1, <2>4 DEF client, Server, Served
    <3>2. (stdout \in Seq(LineSet))' /\ AnswersOK'
          BY <2>1, <3>1, TailKeeps DEF RpcInv
    <3>3. RpcInv'
          BY <3>1, <3>2 DEF RpcInv, RpcTypes, IdsCounted, Asked, BootAsks, BootOK, PendingOK, Pending,
                            OwnIds, NewOK, PipeOK, GotOK
    <3> QED
        BY <3>1, <3>3, Hidden
  <2> QED
      BY <2>1, <2>2, <2>3, <2>4
<1>5. CASE ConnectionClosed(r) \/ Timeout(r)
  <2>1. Pending(r) /\ stdout' = stdout /\ stdin' = stdin /\ \E b \in BOOLEAN : Ended(r, "failed", b)
        BY <1>5 DEF ConnectionClosed, Timeout, Pending
  <2> QED
      BY <2>1, FailedStep
<1>6. CASE Cancel(r)
  <2>1. Pending(r) /\ stdout' = stdout /\ stdin' = stdin /\ Ended(r, "failed", FALSE)
        BY <1>6 DEF Cancel, Pending
  <2> QED
      BY <2>1, FailedStep
<1> QED
    BY <1>1, <1>2, <1>3, <1>4, <1>5, <1>6 DEF ClientStep

\* The manager.
LEMMA ManagerStep ==
    ASSUME Setting, RpcInv, Spawn \/ Close \/ CloseEnds
    PROVE  RpcInv' /\ [Contract!Next]_(Contract!vars)
<1>1. /\ UNCHANGED <<nextId, req, endOf, got, stdin, stdout, served, Served>>
      /\ work' \subseteq work
      /\ \/ stage' = stage
         \/ stage = 1 /\ stage' = BootFailed /\ process' = process /\ server = "off"
      /\ \/ server' = server /\ (process' => process)
         \/ server' # "off"
  <2>1. CASE Spawn
        BY <2>1 DEF Spawn, Served
  <2>2. CASE Close
        BY <2>2 DEF Close, Server, Served
  <2>3. CASE CloseEnds
        BY <2>3 DEF CloseEnds, Served
  <2> QED
      BY <2>1, <2>2, <2>3
<1>2. RpcTypes /\ IdsCounted /\ BootOK /\ PendingOK /\ OwnIds /\ NewOK /\ PipeOK /\ AnswersOK /\ GotOK
      BY DEF RpcInv
<1>3. RpcTypes'
      BY <1>1, <1>2 DEF RpcTypes, BootFailed, Ready, Stages
<1>4. IdsCounted'
  <2>1. BootAsks \in Int /\ BootAsks' \in Int /\ BootAsks <= BootAsks'
    <3>1. CASE stage' = stage
          BY <1>1, <1>2, <3>1 DEF BootAsks, RpcTypes, BootFailed, Stages, Ready
    <3>2. CASE stage = 1 /\ stage' = BootFailed
          BY <1>1, <3>2 DEF BootAsks, BootFailed, Stages
    <3> QED
        BY <1>1, <3>1, <3>2
  <2>2. Asked' = Asked
        BY <1>1 DEF Asked
  <2> QED
      BY <1>1, <1>2, <2>1, <2>2, AskedFinite DEF IdsCounted, RpcTypes
<1>5. BootOK'
      BY <1>1, <1>2 DEF BootOK
<1>6. PendingOK' /\ OwnIds' /\ NewOK' /\ PipeOK' /\ AnswersOK' /\ GotOK'
      BY <1>1, <1>2 DEF PendingOK, Pending, OwnIds, NewOK, PipeOK, AnswersOK, GotOK
<1> QED
    BY <1>1, <1>3, <1>4, <1>5, <1>6, Hidden DEF RpcInv

\* The server: what it carries out has been asked for, and not carried out before.
LEMMA ServeStep ==
    ASSUME Setting, RpcInv, Serve
    PROVE  RpcInv' /\ Contract!Next
<1> DEFINE k == Head(stdin)
<1>0. RpcTypes /\ IdsCounted /\ BootOK /\ PendingOK /\ OwnIds /\ NewOK /\ PipeOK /\ AnswersOK /\ GotOK
      BY DEF RpcInv
<1>1. /\ stdin # <<>> /\ stdin' = Tail(stdin)
      /\ work' = work \cup {k} /\ served' = [served EXCEPT ![k] = served[k] + 1]
      /\ UNCHANGED <<nextId, req, process, stage, endOf, got, stdout, server>>
      BY DEF Serve, Outside, client
<1>2. /\ Len(stdin) \in Nat /\ Len(stdin) > 0 /\ k = stdin[1]
      /\ stdin' \in Seq(Nat) /\ Len(stdin') = Len(stdin) - 1
      /\ \A i \in 1..Len(stdin') : stdin'[i] = stdin[i + 1]
      BY <1>0, <1>1, EmptySeq, HeadTailProperties DEF RpcTypes
<1> HIDE DEF k
<1>3. k \in 1..nextId /\ k \notin Served /\ 1 \in 1..Len(stdin)
      BY <1>0, <1>2 DEF PipeOK
<1>10. k \in Ids /\ served[k] = 0
      BY <1>0, <1>3, IdsGiven DEF Served
<1>11. /\ served' = [served EXCEPT ![k] = 1] /\ served' \in [Ids -> 0..1] /\ Served' = Served \cup {k}
  <2>1. served' = [served EXCEPT ![k] = 1]
        BY <1>1, <1>10
  <2>2. \A i \in Ids : served'[i] = IF i = k THEN 1 ELSE served[i]
        BY <1>0, <1>10, <2>1 DEF RpcTypes
  <2> QED
      BY <1>0, <1>10, <2>1, <2>2 DEF RpcTypes, Served
<1>4. \A i \in 1..Len(stdin') : i + 1 \in 1..Len(stdin) /\ i + 1 # 1
      BY <1>2
<1>5. RpcTypes'
      BY <1>0, <1>1, <1>2, <1>3, <1>11 DEF RpcTypes
<1>6. PipeOK'
  <2>1. ASSUME NEW i \in 1..Len(stdin'), NEW j \in 1..Len(stdin')
        PROVE  /\ stdin'[i] \in 1..nextId /\ stdin'[i] \notin Served'
               /\ stdin'[j] = stdin'[i] => j = i
    <3>1. stdin'[i] = stdin[i + 1] /\ stdin'[j] = stdin[j + 1]
          BY <1>2
    <3>2. stdin[i + 1] \in 1..nextId /\ stdin[i + 1] \notin Served /\ stdin[i + 1] # stdin[1]
          BY <1>0, <1>3, <1>4 DEF PipeOK
    <3>3. stdin[j + 1] = stdin[i + 1] => j + 1 = i + 1
          BY <1>0, <1>4 DEF PipeOK
    <3> QED
        BY <1>1, <1>2, <1>11, <3>1, <3>2, <3>3
  <2> QED
      BY <1>1, <2>1 DEF PipeOK
<1>7. PendingOK'
  <2>1. ASSUME NEW q \in Requests, Pending(q)', req[q].pc = "lock"
        PROVE  req[q].id \notin Served' /\ \A i \in 1..Len(stdin') : stdin'[i] # req[q].id
    <3>1. req[q].id \notin Served /\ \A i \in 1..Len(stdin) : stdin[i] # req[q].id
          BY <1>0, <1>1, <2>1 DEF PendingOK, Pending
    <3> QED
      <4>1. req[q].id # k /\ req[q].id \notin Served'
            BY <1>2, <1>3, <1>11, <3>1
      <4> QED
          BY <1>2, <1>4, <3>1, <4>1
  <2> QED
      BY <1>0, <1>1, <2>1 DEF PendingOK, Pending
<1>8. IdsCounted' /\ BootOK' /\ OwnIds' /\ NewOK' /\ AnswersOK' /\ GotOK'
      BY <1>0, <1>1, <1>11 DEF IdsCounted, Asked, BootAsks, BootOK, OwnIds, Pending, NewOK, AnswersOK, GotOK
<1>9. Contract!CarryOut(k) /\ k \in Ids
  <2>1. k \in Ids /\ ~(k > nextId)
        BY <1>0, <1>3, IdsGiven DEF RpcTypes
  <2>2. Told[k] # "new"
        BY <2>1 DEF Told
  <2>3. Told' = Told
        BY <1>1 DEF Told
  <2> QED
      BY <1>1, <1>10, <1>11, <2>1, <2>2, <2>3 DEF Contract!CarryOut
<1> QED
    BY <1>5, <1>6, <1>7, <1>8, <1>9 DEF RpcInv, Contract!Next

\* What the server sends: an answer only to what it has carried out.
LEMMA OutStep ==
    ASSUME Setting, RpcInv,
           \/ Die
           \/ \E k \in Ids : Ping(k) \/ \E kind \in {"answer", "error", "long"} : Reply(k, kind)
    PROVE  RpcInv' /\ [Contract!Next]_(Contract!vars)
<1>0. RpcTypes /\ IdsCounted /\ BootOK /\ PendingOK /\ OwnIds /\ NewOK /\ PipeOK /\ AnswersOK /\ GotOK
      BY DEF RpcInv
<1>1. ASSUME UNCHANGED <<nextId, req, process, stage, endOf, got, stdin, served>>,
             server' = server \/ server' = "dead", work' \subseteq work,
             (stdout \in Seq(LineSet))', AnswersOK'
      PROVE  RpcInv' /\ [Contract!Next]_(Contract!vars)
  <2>0. Served' = Served
        BY <1>1 DEF Served
  <2>1. RpcTypes' /\ BootOK'
        BY <1>0, <1>1, <2>0 DEF RpcTypes, BootOK
  <2>2. IdsCounted' /\ PendingOK' /\ OwnIds' /\ NewOK' /\ PipeOK' /\ GotOK'
        BY <1>0, <1>1, <2>0 DEF IdsCounted, Asked, BootAsks, PendingOK, Pending, OwnIds, NewOK, PipeOK, GotOK
  <2> QED
      BY <1>1, <2>1, <2>2, Hidden DEF RpcInv
<1>2. CASE Die
  <2>1. (stdout \in Seq(LineSet))' /\ AnswersOK'
        BY <1>0, <1>2 DEF Die, Outside, client, RpcTypes, AnswersOK, Served
  <2> QED
      BY <1>1, <1>2, <2>1 DEF Die, Outside, client
<1>3. ASSUME NEW line \in LineSet, stdout' = Append(stdout, line), served' = served,
             line.kind = "answer" => line.id \in Served /\ line.of = line.id
      PROVE  (stdout \in Seq(LineSet))' /\ AnswersOK'
  <2>1. /\ stdout' \in Seq(LineSet) /\ Len(stdout') = Len(stdout) + 1 /\ Len(stdout) \in Nat
        /\ \A i \in 1..Len(stdout) : stdout'[i] = stdout[i]
        /\ stdout'[Len(stdout) + 1] = line
        BY <1>0, <1>3, AppendProperties DEF RpcTypes
  <2>2. \A i \in 1..Len(stdout') : i = Len(stdout) + 1 \/ i \in 1..Len(stdout)
        BY <2>1
  <2>3. Served' = Served
        BY <1>3 DEF Served
  <2> QED
      BY <1>0, <1>3, <2>1, <2>2, <2>3 DEF AnswersOK
<1>4. \A k \in Ids, kind \in {"answer", "error", "long", "ping"}, of \in {0} \cup Ids :
          /\ Line(kind, k, of) \in LineSet /\ Line(kind, k, of).kind = kind
          /\ Line(kind, k, of).id = k /\ Line(kind, k, of).of = of
      BY IdsType DEF Line, LineSet
<1>5. ASSUME NEW k \in Ids, Ping(k) PROVE RpcInv' /\ [Contract!Next]_(Contract!vars)
  <2>1. (stdout \in Seq(LineSet))' /\ AnswersOK'
        BY <1>3, <1>4, <1>5 DEF Ping
  <2> QED
      BY <1>1, <1>5, <2>1 DEF Ping, Outside, client
<1>6. ASSUME NEW k \in Ids, NEW kind \in {"answer", "error", "long"}, Reply(k, kind)
      PROVE  RpcInv' /\ [Contract!Next]_(Contract!vars)
  <2>1. (stdout \in Seq(LineSet))' /\ AnswersOK'
        BY <1>0, <1>3, <1>4, <1>6 DEF Reply, RpcTypes
  <2> QED
      BY <1>1, <1>6, <2>1 DEF Reply, Outside, client
<1> QED
    BY <1>2, <1>5, <1>6

-----------------------------------------------------------------------------
LEMMA McpStep ==
    ASSUME Setting, RpcInv, [McpNext]_mcpVars
    PROVE  RpcInv' /\ [Contract!Next]_(Contract!vars)
<1>1. CASE UNCHANGED mcpVars
  <2>1. RpcInv'
        BY <1>1 DEF mcpVars, client, RpcInv, RpcTypes, Served, IdsCounted, Asked, BootAsks, BootOK,
                    PendingOK, Pending, OwnIds, NewOK, PipeOK, AnswersOK, GotOK
  <2> QED
      BY <1>1, <2>1, Hidden DEF mcpVars, client
<1> QED
    BY <1>1, ManagerStep, RequestStep, ServeStep, OutStep DEF McpNext

\* Whatever is lost, late, cancelled or out of order between the callers and the server,
\* a call has one outcome, an answer is its own, and it is carried out once at most.
THEOREM ImplementsRpcCorrect == McpSpec => ImplementsRpc
<1>0. Setting
      BY McpAssumption
<1>1. McpInit => RpcInv
      BY <1>0, RpcInit
<1>2. RpcInv /\ [McpNext]_mcpVars => RpcInv'
      BY <1>0, McpStep
<1>3. McpInit => Contract!Init
      BY DEF McpInit, Contract!Init, Told, Ids
<1>4. RpcInv /\ [McpNext]_mcpVars => [Contract!Next]_(Contract!vars)
      BY <1>0, McpStep
<1> QED
    BY <1>1, <1>2, <1>3, <1>4, PTL DEF McpSpec, ImplementsRpc, Contract!Spec

-----------------------------------------------------------------------------
(* The types of McpServers: who waits for the lock is under way, and waits  *)
(* once.                                                                    *)

LEMMA RemovedAt ==
    ASSUME NEW S, NEW s \in Seq(S), NEW i \in 1..Len(s)
    PROVE  /\ RemoveAt(s, i) \in Seq(S) /\ Len(RemoveAt(s, i)) = Len(s) - 1
           /\ \A j \in 1..(Len(s) - 1) : RemoveAt(s, i)[j] = s[IF j < i THEN j ELSE j + 1]
<1> DEFINE a == SubSeq(s, 1, i - 1)
           b == SubSeq(s, i + 1, Len(s))
<1>0. Len(s) \in Nat /\ \A j \in 1..Len(s) : s[j] \in S
  OBVIOUS
<1>1. a \in Seq(S) /\ Len(a) = i - 1 /\ \A j \in 1..(i - 1) : a[j] = s[j]
  <2>1. \A j \in 1..(i - 1) : s[j] \in S
    BY <1>0
  <2> QED BY <1>0, <2>1, SubSeqProperties
<1>2. b \in Seq(S) /\ Len(b) = Len(s) - i /\ \A j \in 1..(Len(s) - i) : b[j] = s[i + j]
  <2>1. \A j \in (i + 1)..Len(s) : s[j] \in S
    BY <1>0
  <2> QED BY <1>0, <2>1, SubSeqProperties
<1>3. RemoveAt(s, i) = a \o b
  BY DEF RemoveAt
<1> HIDE DEF a, b
<1>4. /\ a \o b \in Seq(S) /\ Len(a \o b) = Len(a) + Len(b)
      /\ \A j \in 1..(Len(a) + Len(b)) : (a \o b)[j] = IF j <= Len(a) THEN a[j] ELSE b[j - Len(a)]
  BY <1>1, <1>2, ConcatProperties
<1>5. ASSUME NEW j \in 1..(Len(s) - 1) PROVE (a \o b)[j] = s[IF j < i THEN j ELSE j + 1]
  <2>1. (a \o b)[j] = IF j <= Len(a) THEN a[j] ELSE b[j - Len(a)]
    BY <1>0, <1>1, <1>2, <1>4
  <2>2. CASE j < i
    BY <1>0, <1>1, <2>1, <2>2
  <2>3. CASE ~(j < i)
    <3>1. j - (i - 1) \in 1..(Len(s) - i) /\ i + (j - (i - 1)) = j + 1 /\ ~(j <= i - 1)
      BY <1>0, <2>3
    <3> QED BY <1>1, <1>2, <2>1, <2>3, <3>1
  <2> QED BY <2>2, <2>3
<1> QED BY <1>0, <1>1, <1>2, <1>3, <1>4, <1>5

LockOK ==
    /\ lockq \in Seq(Requests)
    /\ \A i, j \in 1..Len(lockq) : lockq[i] = lockq[j] => i = j
    /\ \A i \in 1..Len(lockq) : Pending(lockq[i])
    /\ \A r \in Requests : Pending(r) => \E i \in 1..Len(lockq) : lockq[i] = r
ReqIds == \A r \in Requests : req[r].id \in 0..nextId
Ends ==
    /\ process \in BOOLEAN
    /\ manager \in {"open", "closing", "closed"} /\ server \in {"off", "up", "dead"}
McpTypes == LockOK /\ ReqIds /\ Ends

LEMMA McpTypesHold == ASSUME RpcInv, McpTypes PROVE McpTypeOK
<1>0. Setting
  BY McpAssumption
<1>1. RpcTypes /\ IdsCounted /\ BootOK
  BY DEF RpcInv
<1>2. 1..nextId \subseteq Ids /\ nextId \in Nat
  BY <1>0, <1>1, IdsGiven DEF RpcTypes
<1>3. nextId \in 0..Cardinality(Ids)
  <2>1. Cardinality(Callers) \in Nat /\ Ids = 1..(Cardinality(Callers) + 4)
    BY <1>0, IdsType
  <2>2. Cardinality(Ids) = Cardinality(Callers) + 4
    BY <2>1, FS_Interval
  <2> QED BY <1>2, <2>1, <2>2
<1>4. \A r \in Requests : req[r].pc \in {"idle", "lock", "drain", "read", "done"} /\ req[r].id \in {0} \cup Ids
  <2>1. \A i \in 0..nextId : i \in {0} \cup Ids
    BY <1>2
  <2> QED BY <1>1, <2>1 DEF RpcTypes, ReqSet, Pcs, McpTypes, ReqIds
<1>5. lockq \in Seq(Requests) /\ IsInjective(lockq)
  <2>1. lockq \in Seq(Requests) /\ \A i, j \in 1..Len(lockq) : lockq[i] = lockq[j] => i = j
    BY DEF McpTypes, LockOK
  <2> QED BY <2>1 DEF IsInjective
<1>6. /\ work \subseteq Ids /\ stage \in 0..Ready
      /\ \A k \in Ids : served[k] \in Nat /\ got[k] \subseteq Ids
  BY <1>1, <1>2 DEF RpcTypes
<1>7. \A k \in Ids : endOf[k] \in {"none", "answered", "failed", "void"}
  BY <1>1 DEF RpcTypes, Endings
<1> QED BY <1>3, <1>4, <1>5, <1>6, <1>7, Zenon DEF McpTypes, Ends, McpTypeOK

LEMMA McpTypesStart == ASSUME McpInit PROVE McpTypes
<1>1. Ends
  BY Zenon DEF McpInit, Ends
<1>2. LockOK
  BY IdleReq DEF McpInit, LockOK, Pending
<1>3. ReqIds
  BY DEF McpInit, ReqIds, Unasked
<1> QED BY <1>1, <1>2, <1>3 DEF McpTypes

\* A request that asks waits behind those that wait.
LEMMA AskWaits ==
    ASSUME RpcTypes, LockOK, ReqIds, NEW r \in Requests, Ask(r)
    PROVE  LockOK' /\ ReqIds'
<1> DEFINE new == [pc |-> "lock", id |-> nextId + 1]
<1>1. /\ req[r].pc = "idle" /\ nextId' = nextId + 1 /\ req' = [req EXCEPT ![r] = new]
      /\ lockq' = Append(lockq, r)
  BY DEF Ask
<1>2. new \in ReqSet /\ new.pc = "lock" /\ new.id = nextId + 1 /\ nextId \in Nat
  BY DEF ReqSet, Pcs, RpcTypes
<1> HIDE DEF new
<1>3. req'[r] = new /\ \A q \in Requests : q # r => req'[q] = req[q]
  BY <1>1, <1>2, OneReq DEF RpcTypes
<1>4. /\ lockq' \in Seq(Requests) /\ Len(lockq') = Len(lockq) + 1 /\ Len(lockq) \in Nat
      /\ \A i \in 1..Len(lockq) : lockq'[i] = lockq[i] /\ lockq[i] \in Requests
      /\ lockq'[Len(lockq) + 1] = r
  BY <1>1, AppendProperties DEF LockOK
<1>5. ReqIds'
  BY <1>1, <1>2, <1>3 DEF ReqIds
<1>6. Pending(r)' /\ ~Pending(r) /\ \A q \in Requests : q # r => Pending(q)' = Pending(q)
  BY <1>1, <1>2, <1>3 DEF Pending
<1>7. \A i \in 1..Len(lockq) : lockq[i] # r
  BY <1>6 DEF LockOK
<1>8. \A i \in 1..Len(lockq') : i = Len(lockq) + 1 \/ i \in 1..Len(lockq)
  BY <1>4
<1>9. \A i, j \in 1..Len(lockq') : lockq'[i] = lockq'[j] => i = j
  BY <1>4, <1>7, <1>8 DEF LockOK
<1>10. ASSUME NEW i \in 1..Len(lockq') PROVE req'[lockq'[i]].pc \in {"lock", "drain", "read"}
  <2>1. CASE i = Len(lockq) + 1
    BY <1>2, <1>3, <1>4, <2>1
  <2>2. CASE i \in 1..Len(lockq)
    <3>1. lockq'[i] = lockq[i] /\ lockq[i] \in Requests /\ lockq[i] # r
      BY <1>4, <1>7, <2>2
    <3>2. Pending(lockq[i])
      BY <2>2 DEF LockOK
    <3> QED BY <1>3, <3>1, <3>2 DEF Pending
  <2> QED BY <1>8, <2>1, <2>2
<1>11. ASSUME NEW q \in Requests, Pending(q)' PROVE \E i \in 1..Len(lockq') : lockq'[i] = q
  <2>1. CASE q = r
    BY <1>4, <2>1
  <2>2. CASE q # r
    <3>1. PICK i \in 1..Len(lockq) : lockq[i] = q
      BY <1>6, <1>11, <2>2 DEF LockOK
    <3> QED BY <1>4, <3>1
  <2> QED BY <2>1, <2>2
<1>12. (\A i \in 1..Len(lockq) : Pending(lockq[i]))'
  BY <1>10, Zenon DEF Pending
<1>13. (\A q \in Requests : Pending(q) => \E i \in 1..Len(lockq) : lockq[i] = q)'
  BY <1>11, Zenon
<1> QED BY <1>4, <1>5, <1>9, <1>12, <1>13, Zenon DEF LockOK

\* A request that ends leaves the others waiting in their order.
LEMMA EndedWaits ==
    ASSUME RpcTypes, LockOK, ReqIds, NEW r \in Requests, Pending(r), NEW how, NEW b, Ended(r, how, b)
    PROVE  LockOK' /\ ReqIds'
<1> DEFINE new == IF r = Boot THEN Unasked ELSE [req[r] EXCEPT !.pc = "done"]
           at == CHOOSE i \in DOMAIN lockq : lockq[i] = r
<1>1. nextId' = nextId /\ req' = [req EXCEPT ![r] = new] /\ lockq' = RemoveAt(lockq, at)
  BY DEF Ended
<1>2. new \in ReqSet /\ new.pc \in {"idle", "done"} /\ new.id \in {0, req[r].id} /\ nextId \in Nat
  <2>1. req[r] \in ReqSet /\ nextId \in Nat
    BY DEF RpcTypes
  <2>2. CASE r = Boot
    BY <2>1, <2>2, IdleReq DEF Unasked
  <2>3. CASE r # Boot
    <3>1. "done" \in Pcs
      BY DEF Pcs
    <3> QED BY <2>1, <2>3, <3>1, NewReq
  <2> QED BY <2>2, <2>3
<1>3. at \in 1..Len(lockq) /\ lockq[at] = r /\ Len(lockq) \in Nat
  BY DEF LockOK
<1> HIDE DEF new, at
<1>4. req'[r] = new /\ \A q \in Requests : q # r => req'[q] = req[q]
  BY <1>1, <1>2, OneReq DEF RpcTypes
<1>5. /\ lockq' \in Seq(Requests) /\ Len(lockq') = Len(lockq) - 1
      /\ \A j \in 1..(Len(lockq) - 1) : lockq'[j] = lockq[IF j < at THEN j ELSE j + 1]
  BY <1>1, <1>3, RemovedAt DEF LockOK
<1>6. ReqIds'
  <2>1. new.id \in 0..nextId
    BY <1>2 DEF ReqIds
  <2> QED BY <1>1, <1>4, <2>1 DEF ReqIds
<1>7. ~Pending(r)' /\ \A q \in Requests : q # r => Pending(q)' = Pending(q)
  BY <1>2, <1>4 DEF Pending
<1>8. \A j \in 1..Len(lockq') : \E i \in 1..Len(lockq) :
          i # at /\ i = (IF j < at THEN j ELSE j + 1) /\ lockq'[j] = lockq[i]
  BY <1>3, <1>5
<1>9. \A i, j \in 1..Len(lockq') : lockq'[i] = lockq'[j] => i = j
  <2>1. ASSUME NEW i \in 1..Len(lockq'), NEW j \in 1..Len(lockq'), lockq'[i] = lockq'[j] PROVE i = j
    <3>1. PICK m \in 1..Len(lockq) : m = (IF i < at THEN i ELSE i + 1) /\ lockq'[i] = lockq[m]
      BY <1>8
    <3>2. PICK n \in 1..Len(lockq) : n = (IF j < at THEN j ELSE j + 1) /\ lockq'[j] = lockq[n]
      BY <1>8
    <3>3. m = n
      BY <2>1, <3>1, <3>2 DEF LockOK
    <3>4. i \in Int /\ j \in Int /\ at \in Int
      BY <1>3
    <3> QED BY <3>1, <3>2, <3>3, <3>4
  <2> QED BY <2>1
<1>10. ASSUME NEW j \in 1..Len(lockq') PROVE req'[lockq'[j]].pc \in {"lock", "drain", "read"}
  <2>1. PICK i \in 1..Len(lockq) : i # at /\ lockq'[j] = lockq[i]
    BY <1>8
  <2>2. lockq[i] # r /\ lockq[i] \in Requests /\ Pending(lockq[i])
    BY <1>3, <2>1 DEF LockOK
  <2> QED BY <1>4, <2>1, <2>2 DEF Pending
<1>11. ASSUME NEW q \in Requests, Pending(q)' PROVE \E i \in 1..Len(lockq') : lockq'[i] = q
  <2>1. q # r /\ Pending(q)
    BY <1>7, <1>11
  <2>2. PICK i \in 1..Len(lockq) : lockq[i] = q
    BY <2>1 DEF LockOK
  <2>3. i # at
    BY <1>3, <2>1, <2>2
  <2>4. CASE i < at
    BY <1>3, <1>5, <2>2, <2>4
  <2>5. CASE i > at
    <3>1. i - 1 \in 1..(Len(lockq) - 1) /\ ~(i - 1 < at) /\ (i - 1) + 1 = i
      BY <1>3, <2>5
    <3> QED BY <1>5, <2>2, <3>1
  <2> QED BY <1>3, <2>3, <2>4, <2>5
<1>12. (\A i \in 1..Len(lockq) : Pending(lockq[i]))'
  BY <1>10, Zenon DEF Pending
<1>13. (\A q \in Requests : Pending(q) => \E i \in 1..Len(lockq) : lockq[i] = q)'
  BY <1>11, Zenon
<1> QED BY <1>5, <1>6, <1>9, <1>12, <1>13, Zenon DEF LockOK

LEMMA MovedWaits ==
    ASSUME RpcTypes, LockOK, ReqIds, NEW r \in Requests, Pending(r), NEW to \in {"drain", "read"},
           req' = [req EXCEPT ![r].pc = to], UNCHANGED <<nextId, lockq>>
    PROVE  LockOK' /\ ReqIds'
<1> DEFINE new == [req[r] EXCEPT !.pc = to]
<1>1. req' = [req EXCEPT ![r] = new]
  OBVIOUS
<1>2. new \in ReqSet /\ new.pc = to /\ new.id = req[r].id
  <2>1. to \in Pcs /\ req[r] \in ReqSet
    BY DEF RpcTypes, Pcs
  <2> QED BY <2>1, NewReq
<1> HIDE DEF new
<1>3. req'[r] = new /\ \A q \in Requests : q # r => req'[q] = req[q]
  BY <1>1, <1>2, OneReq DEF RpcTypes
<1>4. \A q \in Requests : Pending(q)' <=> Pending(q)
  BY <1>2, <1>3 DEF Pending
<1>5. ReqIds'
  BY <1>2, <1>3 DEF ReqIds
<1>6. LockOK'
  <2>1. \A i \in 1..Len(lockq) : lockq[i] \in Requests
    BY DEF LockOK
  <2> QED BY <1>4, <2>1 DEF LockOK
<1> QED BY <1>5, <1>6

LEMMA KeptWaits == ASSUME LockOK, ReqIds, UNCHANGED <<nextId, req, lockq>> PROVE LockOK' /\ ReqIds'
BY DEF LockOK, ReqIds, Pending

LEMMA ClientWaits ==
    ASSUME RpcInv, LockOK, ReqIds, NEW r \in Requests, ClientStep(r)
    PROVE  LockOK' /\ ReqIds'
<1>0. RpcTypes
  BY DEF RpcInv
<1>1. CASE Ask(r)
  BY <1>0, <1>1, AskWaits
<1>2. CASE Send(r)
  <2>1. Pending(r)
    BY <1>2 DEF Send, Pending
  <2>2. Ended(r, "failed", TRUE) \/ (req' = [req EXCEPT ![r].pc = "drain"] /\ UNCHANGED <<nextId, lockq>>)
    BY <1>2 DEF Send
  <2> QED BY <1>0, <2>1, <2>2, EndedWaits, MovedWaits
<1>3. CASE Drain(r)
  <2>1. Pending(r)
    BY <1>3 DEF Drain, Pending
  <2>2. Ended(r, "failed", FALSE) \/ (req' = [req EXCEPT ![r].pc = "read"] /\ UNCHANGED <<nextId, lockq>>)
    BY <1>3 DEF Drain
  <2> QED BY <1>0, <2>1, <2>2, EndedWaits, MovedWaits
<1>4. CASE Receive(r)
  <2>1. Pending(r)
    BY <1>4 DEF Receive, Pending
  <2>2. (\E how, b : Ended(r, how, b)) \/ UNCHANGED client
    BY <1>0, <1>4, ReceiveEnds, Zenon
  <2>3. CASE UNCHANGED client
    BY <2>3, KeptWaits DEF client
  <2> QED BY <1>0, <2>1, <2>2, <2>3, EndedWaits
<1>5. CASE ConnectionClosed(r) \/ Timeout(r) \/ Cancel(r)
  <2>1. Pending(r) /\ \E b \in BOOLEAN : Ended(r, "failed", b)
    BY <1>5 DEF ConnectionClosed, Timeout, Cancel, Pending
  <2> QED BY <1>0, <2>1, EndedWaits
<1> QED BY <1>1, <1>2, <1>3, <1>4, <1>5 DEF ClientStep

LEMMA EndsStep == ASSUME RpcInv, Ends, [McpNext]_mcpVars PROVE Ends'
<1>1. ASSUME UNCHANGED <<process, manager, server>> PROVE Ends'
  BY <1>1, Zenon DEF Ends
<1>2. ASSUME NEW r \in Requests, ClientStep(r) PROVE UNCHANGED <<process, manager, server>>
  <2>0. \A how, b : Ended(r, how, b) => UNCHANGED <<process, manager, server>>
    BY Zenon DEF Ended, Server
  <2>1. CASE Ask(r)
    BY <2>1, Zenon DEF Ask, Server
  <2>2. CASE Send(r)
    BY <2>0, <2>2 DEF Send, Server
  <2>3. CASE Drain(r)
    BY <2>0, <2>3, Zenon DEF Drain, Server
  <2>4. CASE Receive(r)
    <3>1. RpcTypes
      BY DEF RpcInv
    <3>2. (\E how, b : Ended(r, how, b)) \/ (UNCHANGED client /\ Server)
      BY <3>1, <2>4, ReceiveEnds, Zenon
    <3> QED BY <2>0, <3>2, Zenon DEF client, Server
  <2>5. CASE ConnectionClosed(r) \/ Timeout(r) \/ Cancel(r)
    BY <2>0, <2>5, Zenon DEF ConnectionClosed, Timeout, Cancel
  <2> QED BY <1>2, <2>1, <2>2, <2>3, <2>4, <2>5, Zenon DEF ClientStep
<1>3. CASE Spawn
  BY <1>3, Zenon DEF Spawn, Ends
<1>4. CASE Close
  <2>1. /\ manager' = (IF stage = Ready THEN "closing" ELSE "closed")
        /\ process' = (IF stage = Ready THEN FALSE ELSE process) /\ server' = server
    BY <1>4, Zenon DEF Close, Server
  <2>2. CASE stage = Ready
    BY <2>1, <2>2, Zenon DEF Ends
  <2>3. CASE stage # Ready
    BY <2>1, <2>3, Zenon DEF Ends
  <2> QED BY <2>2, <2>3
<1>5. CASE CloseEnds \/ Die
  BY <1>5, Zenon DEF CloseEnds, Die, Outside, client, Ends
<1>6. ASSUME NEW k, NEW kind, Serve \/ Ping(k) \/ Reply(k, kind) PROVE UNCHANGED <<process, manager, server>>
  BY <1>6, Zenon DEF Serve, Ping, Reply, Outside, client
<1>7. CASE UNCHANGED mcpVars
  BY <1>7, Zenon DEF mcpVars, client, Ends
<1> QED BY <1>1, <1>2, <1>3, <1>4, <1>5, <1>6, <1>7, Zenon DEF McpNext

LEMMA McpTypesStep == ASSUME RpcInv, McpTypes, [McpNext]_mcpVars PROVE McpTypes'
<1>1. Ends'
  BY EndsStep DEF McpTypes
<1>2. LockOK' /\ ReqIds'
  <2>0. LockOK /\ ReqIds
    BY DEF McpTypes
  <2>1. ASSUME NEW r \in Requests, ClientStep(r) PROVE LockOK' /\ ReqIds'
    BY <2>0, <2>1, ClientWaits
  <2>2. CASE Spawn \/ Close \/ CloseEnds
    BY <2>0, <2>2, KeptWaits DEF Spawn, Close, CloseEnds
  <2>3. ASSUME NEW k, NEW kind, Serve \/ Die \/ Ping(k) \/ Reply(k, kind) PROVE LockOK' /\ ReqIds'
    BY <2>0, <2>3, KeptWaits DEF Serve, Die, Ping, Reply, Outside, client
  <2>4. CASE UNCHANGED mcpVars
    BY <2>0, <2>4, KeptWaits DEF mcpVars, client
  <2> QED BY <2>1, <2>2, <2>3, <2>4, Zenon DEF McpNext
<1> QED BY <1>1, <1>2 DEF McpTypes
=============================================================================
