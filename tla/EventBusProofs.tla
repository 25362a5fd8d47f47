--------------------------- MODULE EventBusProofs ---------------------------
(***************************************************************************)
(* Proofs about AsyncEventBus, for any number of publishers, handlers and  *)
(* worker restarts and for every queue size.  The inductive invariant IInv *)
(* says where an accepted event may be -- in the queue, in the hands of    *)
(* the one live worker, or seen -- and in which order it gets there.       *)
(***************************************************************************)
EXTENDS EventBus, TLAPS

\* At most the worker that self._worker names is alive.
OneWorker == \A w \in Workers : worker[w] \in {"idle", "busy"} => w = active

\* The order of two items, if they are events of one publisher.
Ahead(e, f) == e.type = "event" /\ f.type = "event" /\ e.by = f.by => e.n < f.n

\* An event carries the number of a publish() call that is no longer waiting.
Issued(e) ==
    e.type = "event" =>
        /\ e.by \in Publishers
        /\ e.n <= sent[e.by]
        /\ pub[e.by] = "blocked" => e.n < sent[e.by]

AllIssued ==
    /\ \A i \in 1..Len(queue) : Issued(queue[i])
    /\ \A w \in Workers : Issued(current[w])
    /\ \A s \in Subscribers : \A k \in 1..Len(seen[s]) : Issued(seen[s][k])

QueueOrdered == \A i, j \in 1..Len(queue) : i < j => Ahead(queue[i], queue[j])

CurrentAhead ==
    \A w \in Workers : \A i \in 1..Len(queue) : Ahead(current[w], queue[i])

SeenAhead ==
    \A s \in Subscribers : \A k \in 1..Len(seen[s]) :
        /\ \A i \in 1..Len(queue) : Ahead(seen[s][k], queue[i])
        /\ \A w \in Workers : s \in todo[w] => Ahead(seen[s][k], current[w])

IdleEmpty == \A w \in Workers : worker[w] # "busy" => todo[w] = {} /\ current[w] = Stop

OrderInv == InOrder /\ QueueOrdered /\ CurrentAhead /\ SeenAhead /\ AllIssued /\ IdleEmpty

\* What close() holds and how far it has come.
OwnerInv ==
    /\ owner # "putReport" => inHand = 0
    /\ owner \in {"putStop", "awaitWorker", "returned"} => closed
    /\ ~cancelled /\ owner \in {"open", "join", "putReport", "joinReport"} => ~closed
    /\ ~cancelled /\ owner = "open" => closes = 0
    /\ active = NoOne => \A w \in Workers : worker[w] = "unborn"
    /\ owner = "awaitWorker" => active \in Workers

ControlInv == OneWorker /\ OwnerInv /\ CloseStopsWorker /\ DropsAccounted

\* Every item put and not yet done is in the queue or with the live worker.
Busy == \E w \in Workers : worker[w] = "busy"
CountInv == unfinished = Len(queue) + (IF Busy THEN 1 ELSE 0)

InQueue(p, i) == \E k \in 1..Len(queue) : queue[k] = EventOf(p, i)
InHands(s, p, i) == \E w \in Workers : s \in todo[w] /\ current[w] = EventOf(p, i)

Undisturbed == ~cancelled /\ ~died

\* Nothing accepted gets lost on its way to a handler.
Conserved ==
    Undisturbed /\ (closes = 0 \/ drained) =>
        \A s \in steady, p \in Publishers : \A i \in accepted[p] :
            InQueue(p, i) \/ InHands(s, p, i) \/ WasSeen(s, p, i)

DueAccepted ==
    /\ \A p \in Publishers : due[p] \subseteq accepted[p]
    /\ steady \subseteq subs
    /\ owner # "open" => closes > 0

\* Once the join() of a draining close() is signalled, all that was due is seen.
DueSeen ==
    Undisturbed /\ drained /\ closes > 0 /\ (finished \/ owner # "join") =>
        \A s \in steady, p \in Publishers : \A i \in due[p] : WasSeen(s, p, i)

DeliveryInv == CountInv /\ DueAccepted /\ Conserved /\ DueSeen

-----------------------------------------------------------------------------
USE DEF tasks, history

LEMMA ItemFacts ==
    /\ Stop \in Item
    /\ \A k \in Nat : EventDropped(k) \in Item
    /\ \A p \in Publishers, i \in Nat : EventOf(p, i) \in Item
BY DEF Stop, EventDropped, EventOf, Item

LEMMA EnqueueType ==
    ASSUME TypeOK, NEW e \in Item, Enqueue(e)
    PROVE  queue' \in Seq(Item) /\ unfinished' \in Int
BY DEF Enqueue, TypeOK

LEMMA TaskDoneType ==
    ASSUME TypeOK, TaskDone
    PROVE  unfinished' \in Int /\ finished' \in BOOLEAN
BY DEF TaskDone, TypeOK

LEMMA SealType ==
    ASSUME TypeOK, NEW q \in Seq(Item), NEW u \in Int, Seal(q, u)
    PROVE  /\ queue' \in Seq(Item) /\ unfinished' \in Int /\ closed' \in BOOLEAN
           /\ owner' \in {"putStop", "awaitWorker", "returned"}
<1>1. CASE Len(q) >= MaxSize
  BY <1>1 DEF Seal
<1>2. CASE ~(Len(q) >= MaxSize)
  BY <1>2, ItemFacts DEF Seal
<1>3. QED BY <1>1, <1>2

LEMMA ReportOrSealType ==
    ASSUME TypeOK, ReportOrSeal
    PROVE  /\ queue' \in Seq(Item) /\ unfinished' \in Int /\ closed' \in BOOLEAN
           /\ droppedCount' \in Nat /\ inHand' \in Nat /\ reported' \in Nat
           /\ owner' \in {"putReport", "joinReport", "putStop", "awaitWorker", "returned"}
<1>1. CASE droppedCount > 0 /\ Full
  BY <1>1 DEF ReportOrSeal, TypeOK
<1>a. CASE droppedCount > 0 /\ ~Full
  <2>1. Enqueue(EventDropped(droppedCount)) /\ EventDropped(droppedCount) \in Item
    BY <1>a, ItemFacts DEF ReportOrSeal, TypeOK
  <2>2. QED BY <1>a, <2>1, EnqueueType DEF ReportOrSeal, TypeOK
<1>2. CASE ~(droppedCount > 0)
  <2>1. Seal(queue, unfinished) /\ UNCHANGED <<droppedCount, inHand, reported>>
    BY <1>2 DEF ReportOrSeal
  <2>2. QED BY <2>1, SealType DEF TypeOK
<1>3. QED BY <1>1, <1>a, <1>2

LEMMA TypeStep == TypeOK /\ [Next]_vars => TypeOK'
<1> SUFFICES ASSUME TypeOK, [Next]_vars PROVE TypeOK'
  OBVIOUS
<1>1. ASSUME NEW s \in Subscribers, Subscribe(s) \/ Unsubscribe(s) PROVE TypeOK'
  BY <1>1 DEF Subscribe, Unsubscribe, TypeOK
<1>2. ASSUME NEW p \in Publishers, NEW visible \in BOOLEAN, Publish(p, visible) PROVE TypeOK'
  <2>1. worker' \in [Workers -> {"unborn", "idle", "busy", "done"}] /\ active' \in Workers \cup {NoOne}
    BY <1>2 DEF Publish, EnsureWorker, TypeOK
  <2>2. sent' \in [Publishers -> Nat] /\ EventOf(p, sent[p] + 1) \in Item
    BY <1>2, ItemFacts DEF Publish, TypeOK
  <2>3. /\ queue' \in Seq(Item) /\ unfinished' \in Int /\ droppedCount' \in Nat /\ lost' \in Nat
        /\ pub' \in [Publishers -> {"ready", "blocked"}]
        /\ accepted' \in [Publishers -> SUBSET Nat]
    <3>1. CASE Full
      BY <1>2, <3>1 DEF Publish, TypeOK
    <3>2. CASE ~Full
      <4>1. Enqueue(EventOf(p, sent[p] + 1)) /\ sent[p] + 1 \in Nat
        BY <1>2, <3>2 DEF Publish, TypeOK
      <4>2. queue' \in Seq(Item) /\ unfinished' \in Int
        BY <2>2, <4>1, EnqueueType
      <4>3. QED BY <1>2, <3>2, <4>1, <4>2 DEF Publish, TypeOK
    <3>3. QED BY <3>1, <3>2
  <2>4. QED BY <1>2, <2>1, <2>2, <2>3 DEF Publish, TypeOK
<1>3. ASSUME NEW p \in Publishers, PublishRefused(p) PROVE TypeOK'
  BY <1>3 DEF PublishRefused, TypeOK
<1>4. ASSUME NEW p \in Publishers, PutResumes(p) PROVE TypeOK'
  <2>1. EventOf(p, sent[p]) \in Item
    BY ItemFacts DEF TypeOK
  <2>2. QED BY <1>4, <2>1 DEF PutResumes, Enqueue, TypeOK
<1>5. ASSUME NEW w \in Workers, WorkerTakes(w) PROVE TypeOK'
  BY <1>5 DEF WorkerTakes, TypeOK
<1>6. ASSUME NEW w \in Workers, WorkerStops(w) PROVE TypeOK'
  BY <1>6 DEF WorkerStops, TaskDone, TypeOK
<1>7. ASSUME NEW w \in Workers, NEW s \in Subscribers, NEW fails \in BOOLEAN, Deliver(w, s, fails)
      PROVE TypeOK'
  BY <1>7 DEF Deliver, TypeOK
<1>8. ASSUME NEW w \in Workers, WorkerFinishes(w) PROVE TypeOK'
  BY <1>8, ItemFacts DEF WorkerFinishes, TaskDone, TypeOK
<1>9. ASSUME NEW w \in Workers, WorkerDies(w) PROVE TypeOK'
  <2>1. unfinished' \in Int /\ finished' \in BOOLEAN
    BY <1>9, TaskDoneType DEF WorkerDies, TypeOK
  <2>2. QED BY <1>9, <2>1, ItemFacts DEF WorkerDies, TypeOK
<1>10. CASE CloseDrains
  <2>1. /\ queue' \in Seq(Item) /\ unfinished' \in Int /\ closed' \in BOOLEAN
        /\ droppedCount' \in Nat /\ inHand' \in Nat /\ reported' \in Nat
        /\ owner' \in {"join", "putReport", "joinReport", "putStop", "awaitWorker", "returned"}
    BY <1>10, ReportOrSealType DEF CloseDrains, TypeOK
  <2>2. /\ closes' \in Nat /\ due' = accepted /\ drained' = TRUE /\ finished' = FALSE
        /\ UNCHANGED <<subs, tasks, pub, sent, seen, accepted, steady, lost, cancelled, died>>
    BY <1>10 DEF CloseDrains, TypeOK
  <2>3. QED BY <2>1, <2>2 DEF TypeOK
<1>11. CASE CloseDiscards
  <2>1. Seal(<<>>, unfinished - Len(queue))
    BY <1>11 DEF CloseDiscards
  <2>2. <<>> \in Seq(Item) /\ unfinished - Len(queue) \in Int
    BY DEF TypeOK
  <2>3. /\ queue' \in Seq(Item) /\ unfinished' \in Int /\ closed' \in BOOLEAN
        /\ owner' \in {"putStop", "awaitWorker", "returned"}
    BY <2>1, <2>2, SealType
  <2>4. /\ closes' \in Nat /\ due' = accepted /\ drained' = FALSE /\ finished' = FALSE
        /\ UNCHANGED <<droppedCount, subs, tasks, pub, sent, inHand, seen,
                       accepted, steady, lost, reported, cancelled, died>>
    BY <1>11 DEF CloseDiscards, TypeOK
  <2>5. QED BY <2>3, <2>4 DEF TypeOK
<1>12. CASE CloseAgain
  BY <1>12 DEF CloseAgain, TypeOK
<1>13. CASE JoinReturns
  BY <1>13, ReportOrSealType DEF JoinReturns, TypeOK
<1>14. CASE PutReport
  BY <1>14, ItemFacts DEF PutReport, Enqueue, TypeOK
<1>15. CASE JoinReportReturns
  <2>1. Seal(queue, unfinished) /\ queue \in Seq(Item) /\ unfinished \in Int
    BY <1>15 DEF JoinReportReturns, TypeOK
  <2>2. QED BY <1>15, <2>1, SealType DEF JoinReportReturns, TypeOK
<1>16. CASE PutStop
  BY <1>16, ItemFacts DEF PutStop, Enqueue, TypeOK
<1>17. CASE CloseReturns
  BY <1>17 DEF CloseReturns, TypeOK
<1>18. CASE CancelClose
  <2>1. CASE owner = "awaitWorker" /\ worker[active] # "done"
    <3>1. /\ worker' = [worker EXCEPT ![active] = "done"]
          /\ current' = [current EXCEPT ![active] = Stop]
          /\ todo' = [todo EXCEPT ![active] = {}]
          /\ unfinished' \in Int
      BY <1>18, <2>1 DEF CancelClose, TypeOK
    <3>2. /\ worker' \in [Workers -> {"unborn", "idle", "busy", "done"}]
          /\ current' \in [Workers -> Item]
          /\ todo' \in [Workers -> SUBSET Subscribers]
      BY <3>1, ItemFacts DEF TypeOK
    <3>3. QED BY <1>18, <3>1, <3>2 DEF CancelClose, TypeOK
  <2>2. CASE ~(owner = "awaitWorker" /\ worker[active] # "done")
    BY <1>18, <2>2 DEF CancelClose, TypeOK
  <2>3. QED BY <2>1, <2>2
<1>19. CASE UNCHANGED vars
  BY <1>19 DEF vars, TypeOK
<1>20. QED
  BY <1>1, <1>2, <1>3, <1>4, <1>5, <1>6, <1>7, <1>8, <1>9, <1>10, <1>11, <1>12,
     <1>13, <1>14, <1>15, <1>16, <1>17, <1>18, <1>19
  DEF Next, PublisherStep, WorkerStep, CloseStep

LEMMA InitType == Init => TypeOK
<1> SUFFICES ASSUME Init PROVE TypeOK
  OBVIOUS
<1>1. queue \in Seq(Item) /\ seen \in [Subscribers -> Seq(Item)]
  BY DEF Init
<1>2. /\ worker \in [Workers -> {"unborn", "idle", "busy", "done"}]
      /\ todo \in [Workers -> SUBSET Subscribers]
      /\ current \in [Workers -> Item]
  BY ItemFacts DEF Init
<1>3. /\ pub \in [Publishers -> {"ready", "blocked"}] /\ sent \in [Publishers -> Nat]
      /\ accepted \in [Publishers -> SUBSET Nat] /\ due \in [Publishers -> SUBSET Nat]
  BY DEF Init
<1>4. subs \in SUBSET Subscribers /\ steady \in SUBSET Subscribers
  BY DEF Init
<1>5. /\ unfinished = 0 /\ droppedCount = 0 /\ inHand = 0 /\ closes = 0
      /\ lost = 0 /\ reported = 0 /\ active = NoOne /\ owner = "open"
  BY DEF Init
<1>6. /\ finished \in BOOLEAN /\ closed \in BOOLEAN /\ drained \in BOOLEAN
      /\ cancelled \in BOOLEAN /\ died \in BOOLEAN
  BY Zenon DEF Init
<1>7. unfinished \in Int /\ droppedCount \in Nat /\ inHand \in Nat /\ closes \in Nat
      /\ lost \in Nat /\ reported \in Nat
  BY <1>5
<1>8. active \in Workers \cup {NoOne}
      /\ owner \in {"open", "join", "putReport", "joinReport", "putStop",
                    "awaitWorker", "returned"}
  BY <1>5
<1>9. QED BY <1>1, <1>2, <1>3, <1>4, <1>6, <1>7, <1>8, Zenon DEF TypeOK

\* Every variable keeps its type: the queue holds events, reports and stop
\* marks and nothing else, and the drop counter never goes below zero.
THEOREM TypeCorrect == Spec => []TypeOK
BY InitType, TypeStep, PTL DEF Spec

-----------------------------------------------------------------------------
LEMMA SealControl ==
    ASSUME TypeOK, NEW q, NEW u, Seal(q, u)
    PROVE  /\ closed' = TRUE
           /\ \/ owner' = "putStop"
              \/ owner' = "awaitWorker" /\ active \in Workers
              \/ owner' = "returned" /\ active = NoOne
BY DEF Seal, TypeOK

LEMMA ReportOrSealControl ==
    ASSUME TypeOK, ReportOrSeal, inHand = 0
    PROVE  /\ droppedCount' + inHand' + reported' = droppedCount + reported
           /\ owner' # "putReport" => inHand' = 0
           /\ \/ owner' \in {"putReport", "joinReport"} /\ UNCHANGED closed
              \/ /\ closed' = TRUE
                 /\ \/ owner' = "putStop"
                    \/ owner' = "awaitWorker" /\ active \in Workers
                    \/ owner' = "returned" /\ active = NoOne
<1>1. CASE droppedCount > 0 /\ Full
  BY <1>1 DEF ReportOrSeal, TypeOK
<1>2. CASE droppedCount > 0 /\ ~Full
  BY <1>2 DEF ReportOrSeal, TypeOK
<1>3. CASE ~(droppedCount > 0)
  <2>1. Seal(queue, unfinished) /\ UNCHANGED <<droppedCount, inHand, reported>>
    BY <1>3 DEF ReportOrSeal
  <2>2. /\ closed' = TRUE
        /\ \/ owner' = "putStop"
           \/ owner' = "awaitWorker" /\ active \in Workers
           \/ owner' = "returned" /\ active = NoOne
    BY <2>1, SealControl, Zenon
  <2>3. droppedCount' + inHand' + reported' = droppedCount + reported /\ inHand' = 0
    BY <2>1 DEF TypeOK
  <2>4. QED BY <2>2, <2>3
<1>4. QED BY <1>1, <1>2, <1>3

LEMMA ControlStep == TypeOK /\ ControlInv /\ [Next]_vars => ControlInv'
<1> SUFFICES ASSUME TypeOK, ControlInv, [Next]_vars PROVE ControlInv'
  OBVIOUS
<1> USE DEF ControlInv, OneWorker, OwnerInv, CloseStopsWorker, DropsAccounted, WorkerLive
<1>1. ASSUME NEW s \in Subscribers, Subscribe(s) \/ Unsubscribe(s) PROVE ControlInv'
  BY <1>1 DEF Subscribe, Unsubscribe
<1>2. ASSUME NEW p \in Publishers, NEW visible \in BOOLEAN, Publish(p, visible)
      PROVE ControlInv'
  <2>1. /\ ~closed /\ EnsureWorker
        /\ UNCHANGED <<closed, owner, inHand, closes, reported, cancelled>>
        /\ \/ droppedCount' = droppedCount + 1 /\ lost' = lost + 1
           \/ UNCHANGED <<droppedCount, lost>>
    BY <1>2 DEF Publish
  <2>2. OneWorker' /\ (active' = NoOne => \A w \in Workers : worker'[w] = "unborn")
        /\ (active \in Workers => active' \in Workers)
    BY <2>1, NoOneAssumption DEF EnsureWorker, TypeOK
  <2>3. DropsAccounted'
    BY <2>1 DEF TypeOK
  <2>4. QED BY <2>1, <2>2, <2>3
<1>3. ASSUME NEW p \in Publishers, PublishRefused(p) PROVE ControlInv'
  BY <1>3 DEF PublishRefused
<1>4. ASSUME NEW p \in Publishers, PutResumes(p) PROVE ControlInv'
  BY <1>4 DEF PutResumes
<1>5. ASSUME NEW w \in Workers, WorkerTakes(w) PROVE ControlInv'
  BY <1>5 DEF WorkerTakes, TypeOK
<1>6. ASSUME NEW w \in Workers, WorkerStops(w) PROVE ControlInv'
  BY <1>6 DEF WorkerStops, TypeOK
<1>7. ASSUME NEW w \in Workers, NEW s \in Subscribers, NEW fails \in BOOLEAN, Deliver(w, s, fails)
      PROVE ControlInv'
  BY <1>7 DEF Deliver, TypeOK
<1>8. ASSUME NEW w \in Workers, WorkerFinishes(w) PROVE ControlInv'
  BY <1>8 DEF WorkerFinishes, TypeOK
<1>9. ASSUME NEW w \in Workers, WorkerDies(w) PROVE ControlInv'
  BY <1>9 DEF WorkerDies, TypeOK
<1>10. CASE CloseDrains
  <2>1. UNCHANGED <<worker, active, lost, cancelled>> /\ ~closed /\ owner = "open" /\ inHand = 0
    BY <1>10 DEF CloseDrains
  <2>2. CASE unfinished = 0
    <3>1. ReportOrSeal
      BY <1>10, <2>2 DEF CloseDrains
    <3>2. /\ droppedCount' + inHand' + reported' = droppedCount + reported
          /\ owner' # "putReport" => inHand' = 0
          /\ \/ owner' \in {"putReport", "joinReport"} /\ UNCHANGED closed
             \/ /\ closed' = TRUE
                /\ \/ owner' = "putStop"
                   \/ owner' = "awaitWorker" /\ active \in Workers
                   \/ owner' = "returned" /\ active = NoOne
      BY <2>1, <3>1, ReportOrSealControl, Zenon
    <3>3. DropsAccounted'
      BY <2>1, <3>2 DEF TypeOK
    <3>4. OneWorker' /\ OwnerInv' /\ CloseStopsWorker'
      BY <2>1, <3>2 DEF TypeOK
    <3>5. QED BY <3>3, <3>4
  <2>3. CASE unfinished # 0
    BY <1>10, <2>1, <2>3 DEF CloseDrains
  <2>4. QED BY <2>2, <2>3
<1>11. CASE CloseDiscards
  <2>1. /\ UNCHANGED <<worker, active, lost, cancelled, droppedCount, inHand, reported>>
        /\ Seal(<<>>, unfinished - Len(queue)) /\ owner = "open"
    BY <1>11 DEF CloseDiscards
  <2>2. QED BY <2>1, SealControl DEF TypeOK
<1>12. CASE CloseAgain
  BY <1>12 DEF CloseAgain
<1>13. CASE JoinReturns
  <2>1. /\ UNCHANGED <<worker, active, lost, cancelled, closes>> /\ owner = "join"
        /\ inHand = 0 /\ ReportOrSeal
    BY <1>13 DEF JoinReturns
  <2>2. /\ droppedCount' + inHand' + reported' = droppedCount + reported
        /\ owner' # "putReport" => inHand' = 0
        /\ \/ owner' \in {"putReport", "joinReport"} /\ UNCHANGED closed
           \/ /\ closed' = TRUE
            /\ \/ owner' = "putStop"
               \/ owner' = "awaitWorker" /\ active \in Workers
               \/ owner' = "returned" /\ active = NoOne
    BY <2>1, ReportOrSealControl, Zenon
  <2>3. DropsAccounted'
    BY <2>1, <2>2 DEF TypeOK
  <2>4. OneWorker' /\ OwnerInv' /\ CloseStopsWorker'
    BY <2>1, <2>2 DEF TypeOK
  <2>5. QED BY <2>3, <2>4
<1>14. CASE PutReport
  BY <1>14 DEF PutReport, TypeOK
<1>15. CASE JoinReportReturns
  <2>1. /\ UNCHANGED <<worker, active, lost, cancelled, droppedCount, inHand, reported, closes>>
        /\ Seal(queue, unfinished) /\ owner = "joinReport"
    BY <1>15 DEF JoinReportReturns
  <2>2. QED BY <2>1, SealControl DEF TypeOK
<1>16. CASE PutStop
  BY <1>16 DEF PutStop, TypeOK
<1>17. CASE CloseReturns
  BY <1>17 DEF CloseReturns, TypeOK
<1>18. CASE CancelClose
  <2>1. /\ owner' = "open" /\ inHand' = 0 /\ cancelled' = TRUE
        /\ UNCHANGED <<active, closed, closes>>
        /\ \/ UNCHANGED worker
           \/ active \in Workers /\ worker' = [worker EXCEPT ![active] = "done"]
    BY <1>18 DEF CancelClose, TypeOK
  <2>2. QED BY <2>1, NoOneAssumption DEF TypeOK
<1>19. CASE UNCHANGED vars
  BY <1>19 DEF vars
<1>20. QED
  BY <1>1, <1>2, <1>3, <1>4, <1>5, <1>6, <1>7, <1>8, <1>9, <1>10, <1>11, <1>12,
     <1>13, <1>14, <1>15, <1>16, <1>17, <1>18, <1>19
  DEF Next, PublisherStep, WorkerStep, CloseStep

LEMMA InitControl == Init => ControlInv
BY NoOneAssumption DEF Init, ControlInv, OneWorker, OwnerInv, CloseStopsWorker,
   DropsAccounted, WorkerLive

\* The control part of the invariant: one live worker, and what each stage of
\* close() has already done.
THEOREM ControlCorrect == Spec => [](TypeOK /\ ControlInv)
BY InitType, TypeStep, InitControl, ControlStep, PTL DEF Spec

\* No drop is forgotten: unless close() is cancelled, every overflow drop and
\* every failed handler call is in _dropped_count, in the hands of close(), or
\* in the count of an EventDropped event that has been queued.
THEOREM DropsAccountedCorrect == Spec => []DropsAccounted
BY ControlCorrect, PTL DEF ControlInv

\* When close() returns without having been cancelled no worker is alive, and
\* none is started afterwards.
THEOREM CloseStopsWorkerCorrect == Spec => []CloseStopsWorker
BY ControlCorrect, PTL DEF ControlInv

-----------------------------------------------------------------------------
\* The queue keeps its events, or loses them all, and gains none.
NoNewEvent ==
    \/ queue' = queue
    \/ queue' = <<>>
    \/ \E x \in Item : x.type # "event" /\ queue' \in {Append(queue, x), Append(<<>>, x)}

LEMMA SealNoNewEvent ==
    ASSUME NEW q \in {queue, <<>>}, NEW u, Seal(q, u)
    PROVE  NoNewEvent
BY ItemFacts DEF Seal, NoNewEvent, Stop

LEMMA ReportOrSealNoNewEvent ==
    ASSUME TypeOK, ReportOrSeal
    PROVE  NoNewEvent
<1>1. CASE droppedCount > 0 /\ Full
  BY <1>1 DEF ReportOrSeal, NoNewEvent
<1>2. CASE droppedCount > 0 /\ ~Full
  <2>1. queue' = Append(queue, EventDropped(droppedCount))
    BY <1>2 DEF ReportOrSeal, Enqueue
  <2>2. EventDropped(droppedCount) \in Item /\ EventDropped(droppedCount).type # "event"
    BY ItemFacts DEF TypeOK, EventDropped
  <2>3. QED BY <2>1, <2>2 DEF NoNewEvent
<1>3. CASE ~(droppedCount > 0)
  <2>1. Seal(queue, unfinished)
    BY <1>3 DEF ReportOrSeal
  <2>2. QED BY <2>1, SealNoNewEvent
<1>4. QED BY <1>1, <1>2, <1>3

LEMMA OrderFrame ==
    ASSUME TypeOK, OrderInv, NoNewEvent,
           UNCHANGED <<seen, worker, current, todo, pub, sent>>
    PROVE  OrderInv'
<1> USE DEF OrderInv, InOrder, QueueOrdered, CurrentAhead, SeenAhead, AllIssued,
            IdleEmpty, Ahead, Issued
<1>1. CASE queue' = queue
  BY <1>1
<1>2. CASE queue' = <<>>
  <2>1. Len(queue') = 0
    BY <1>2
  <2>2. QED BY <2>1
<1>3. CASE \E x \in Item : x.type # "event" /\ queue' = Append(<<>>, x)
  <2>1. Len(queue') = 1 /\ queue'[1].type # "event"
    BY <1>3
  <2>2. QED BY <2>1
<1>4. CASE \E x \in Item : x.type # "event" /\ queue' = Append(queue, x)
  <2>1. /\ Len(queue') = Len(queue) + 1 /\ Len(queue) \in Nat
        /\ queue'[Len(queue) + 1].type # "event"
        /\ \A i \in 1..Len(queue) : queue'[i] = queue[i]
    BY <1>4 DEF TypeOK
  <2>2. \A i \in 1..Len(queue') : i \in 1..Len(queue) \/ i = Len(queue) + 1
    BY <2>1
  <2>3. QueueOrdered'
    BY <2>1, <2>2
  <2>4. CurrentAhead' /\ SeenAhead'
    BY <2>1, <2>2
  <2>5. AllIssued'
    BY <2>1, <2>2
  <2>6. InOrder' /\ IdleEmpty'
    OBVIOUS
  <2>7. QED BY <2>3, <2>4, <2>5, <2>6
<1>5. QED BY <1>1, <1>2, <1>3, <1>4 DEF NoNewEvent

\* A new event goes to the end of the queue with the highest number so far.
LEMMA OrderEnqueue ==
    ASSUME TypeOK, OrderInv, NEW p \in Publishers, NEW k \in Nat,
           queue' = Append(queue, EventOf(p, k)),
           UNCHANGED <<seen, current, todo>>,
           \A w \in Workers : worker'[w] = "busy" <=> worker[w] = "busy",
           sent' \in [Publishers -> Nat], pub' \in [Publishers -> {"ready", "blocked"}],
           \A q \in Publishers \ {p} : sent'[q] = sent[q] /\ pub'[q] = pub[q],
           sent'[p] = k, pub'[p] = "ready",
           sent[p] < k \/ (sent[p] = k /\ pub[p] = "blocked")
    PROVE  OrderInv'
<1> USE DEF OrderInv, InOrder, QueueOrdered, CurrentAhead, SeenAhead, AllIssued,
            IdleEmpty
<1> DEFINE e == EventOf(p, k)
<1>1. /\ Len(queue') = Len(queue) + 1 /\ Len(queue) \in Nat
      /\ queue'[Len(queue) + 1] = e
      /\ \A i \in 1..Len(queue) : queue'[i] = queue[i]
  BY ItemFacts DEF TypeOK
<1>2. \A i \in 1..Len(queue') : i \in 1..Len(queue) \/ i = Len(queue) + 1
  BY <1>1
<1>3. \A f \in Item : Issued(f) => Ahead(f, e) /\ Issued(f)'
  BY DEF Issued, Ahead, EventOf, TypeOK, Item
<1>4. Issued(e)'
  BY DEF Issued, EventOf
<1>5. /\ \A i \in 1..Len(queue) : queue[i] \in Item /\ Issued(queue[i])
      /\ \A w \in Workers : current[w] \in Item /\ Issued(current[w])
      /\ \A s \in Subscribers : \A i \in 1..Len(seen[s]) : seen[s][i] \in Item /\ Issued(seen[s][i])
  BY DEF TypeOK
<1> HIDE DEF e
<1>6. QueueOrdered'
  BY <1>1, <1>2, <1>3, <1>5 DEF Ahead
<1>7. CurrentAhead'
  BY <1>1, <1>2, <1>3, <1>5 DEF Ahead
<1>8. SeenAhead'
  BY <1>1, <1>2, <1>3, <1>5 DEF Ahead
<1>9. AllIssued'
  <2>1. \A i \in 1..Len(queue') : Issued(queue[i])'
    <3>1. TAKE i \in 1..Len(queue')
    <3>2. CASE i = Len(queue) + 1
      BY <3>2, <1>1, <1>4 DEF Issued
    <3>3. CASE i \in 1..Len(queue)
      <4>1. queue'[i] = queue[i] /\ queue[i] \in Item /\ Issued(queue[i])
        BY <3>3, <1>1, <1>5
      <4>2. QED BY <4>1 DEF Issued, TypeOK, Item
    <3>4. QED BY <3>2, <3>3, <1>2
  <2>2. \A w \in Workers : Issued(current[w])'
    BY <1>5 DEF Issued, TypeOK, Item
  <2>3. \A s \in Subscribers : \A i \in 1..Len(seen'[s]) : Issued(seen[s][i])'
    <3>1. TAKE s \in Subscribers
    <3>2. TAKE i \in 1..Len(seen'[s])
    <3>3. seen'[s][i] = seen[s][i] /\ seen[s][i] \in Item /\ Issued(seen[s][i])
      BY <1>5
    <3>4. QED BY <3>3 DEF Issued, TypeOK, Item
  <2>4. QED BY <2>1, <2>2, <2>3
<1>10. InOrder' /\ IdleEmpty'
  OBVIOUS
<1>11. QED BY <1>6, <1>7, <1>8, <1>9, <1>10

\* A worker that lets go of its event disturbs no order.
LEMMA WorkerRests ==
    ASSUME TypeOK, OrderInv, NEW w \in Workers,
           \/ worker' = [worker EXCEPT ![w] = "idle"]
           \/ worker' = [worker EXCEPT ![w] = "done"],
           current' = [current EXCEPT ![w] = Stop],
           todo' = [todo EXCEPT ![w] = {}],
           UNCHANGED <<queue, seen, pub, sent>>
    PROVE  OrderInv'
<1> USE DEF OrderInv, InOrder, QueueOrdered, CurrentAhead, SeenAhead, AllIssued, IdleEmpty
<1>1. Stop.type # "event"
  BY DEF Stop
<1>2. CurrentAhead' /\ QueueOrdered' /\ InOrder'
  BY <1>1 DEF Ahead, TypeOK
<1>3. SeenAhead'
  BY <1>1 DEF Ahead, TypeOK
<1>4. AllIssued'
  BY <1>1 DEF Issued, TypeOK
<1>5. IdleEmpty'
  BY DEF TypeOK
<1>6. QED BY <1>2, <1>3, <1>4, <1>5

LEMMA OrderStep == TypeOK /\ ControlInv /\ OrderInv /\ [Next]_vars => OrderInv'
<1> SUFFICES ASSUME TypeOK, ControlInv, OrderInv, [Next]_vars PROVE OrderInv'
  OBVIOUS
<1>1. ASSUME NEW s \in Subscribers, Subscribe(s) \/ Unsubscribe(s) PROVE OrderInv'
  BY <1>1, OrderFrame DEF Subscribe, Unsubscribe, NoNewEvent
<1>2. ASSUME NEW p \in Publishers, NEW visible \in BOOLEAN, Publish(p, visible)
      PROVE OrderInv'
  <2>1. /\ EnsureWorker /\ pub[p] = "ready" /\ sent' = [sent EXCEPT ![p] = @ + 1]
        /\ UNCHANGED <<seen, current, todo>>
    BY <1>2 DEF Publish
  <2>2. \A w \in Workers : worker'[w] = "busy" <=> worker[w] = "busy"
    BY <2>1 DEF EnsureWorker, TypeOK
  <2>3. CASE Full
    <3>1. /\ queue' = queue
          /\ pub' = pub \/ pub' = [pub EXCEPT ![p] = "blocked"]
      BY <1>2, <2>3 DEF Publish
    <3>2. \A f \in Item : Issued(f) => Issued(f)'
      BY <2>1, <3>1 DEF Issued, TypeOK, Item
    <3>3. AllIssued'
      <4>1. \A i \in 1..Len(queue) : queue[i] \in Item /\ Issued(queue[i])
        BY DEF TypeOK, OrderInv, AllIssued
      <4>2. \A w \in Workers : current[w] \in Item /\ Issued(current[w])
        BY DEF TypeOK, OrderInv, AllIssued
      <4>3. \A s \in Subscribers : \A i \in 1..Len(seen[s]) : seen[s][i] \in Item /\ Issued(seen[s][i])
        BY DEF TypeOK, OrderInv, AllIssued
      <4>4. \A i \in 1..Len(queue) : Issued(queue[i])'
        BY <2>1, <3>1, <4>1 DEF Issued, TypeOK, Item
      <4>5. \A w \in Workers : Issued(current[w])'
        BY <2>1, <3>1, <4>2 DEF Issued, TypeOK, Item
      <4>6. \A s \in Subscribers : \A i \in 1..Len(seen[s]) : Issued(seen[s][i])'
        <5>1. TAKE s \in Subscribers
        <5>2. TAKE i \in 1..Len(seen[s])
        <5>3. seen'[s][i] = seen[s][i] /\ seen[s][i] \in Item /\ Issued(seen[s][i])
          BY <2>1, <4>3
        <5>4. QED BY <2>1, <3>1, <5>3 DEF Issued, TypeOK, Item
      <4>7. QED BY <2>1, <3>1, <4>4, <4>5, <4>6 DEF AllIssued
    <3>4. QED
      BY <2>1, <2>2, <3>1, <3>3
      DEF OrderInv, InOrder, QueueOrdered, CurrentAhead, SeenAhead, IdleEmpty, Ahead
  <2>4. CASE ~Full
    <3>1. /\ queue' = Append(queue, EventOf(p, sent[p] + 1)) /\ pub' = pub
          /\ sent[p] + 1 \in Nat /\ sent' \in [Publishers -> Nat]
          /\ sent'[p] = sent[p] + 1
          /\ \A q \in Publishers \ {p} : sent'[q] = sent[q]
      BY <1>2, <2>1, <2>4 DEF Publish, Enqueue, TypeOK
    <3>2. pub' \in [Publishers -> {"ready", "blocked"}] /\ pub'[p] = "ready" /\ sent[p] < sent[p] + 1
      BY <2>1, <3>1 DEF TypeOK
    <3>3. QED BY <2>1, <2>2, <3>1, <3>2, OrderEnqueue
  <2>5. QED BY <2>3, <2>4
<1>3. ASSUME NEW p \in Publishers, PublishRefused(p) PROVE OrderInv'
  <2>1. /\ pub[p] = "ready" /\ sent' = [sent EXCEPT ![p] = @ + 1]
        /\ UNCHANGED <<queue, seen, worker, current, todo, pub>>
    BY <1>3 DEF PublishRefused
  <2>2. AllIssued'
    <3>1. \A i \in 1..Len(queue) : Issued(queue[i])'
      <4>1. TAKE i \in 1..Len(queue)
      <4>2. queue'[i] = queue[i] /\ queue[i] \in Item /\ Issued(queue[i])
        BY <2>1 DEF OrderInv, AllIssued, TypeOK
      <4>3. QED BY <2>1, <4>2 DEF Issued, TypeOK, Item
    <3>2. \A w \in Workers : Issued(current[w])'
      BY <2>1 DEF OrderInv, AllIssued, Issued, TypeOK, Item
    <3>3. \A s \in Subscribers : \A i \in 1..Len(seen[s]) : Issued(seen[s][i])'
      <4>1. TAKE s \in Subscribers
      <4>2. TAKE i \in 1..Len(seen[s])
      <4>3. seen'[s][i] = seen[s][i] /\ seen[s][i] \in Item /\ Issued(seen[s][i])
        BY <2>1 DEF OrderInv, AllIssued, TypeOK
      <4>4. QED BY <2>1, <4>3 DEF Issued, TypeOK, Item
    <3>4. QED BY <2>1, <3>1, <3>2, <3>3 DEF AllIssued
  <2>3. QED
    BY <2>1, <2>2
    DEF OrderInv, InOrder, QueueOrdered, CurrentAhead, SeenAhead, IdleEmpty, Ahead
<1>4. ASSUME NEW p \in Publishers, PutResumes(p) PROVE OrderInv'
  <2>1. /\ pub[p] = "blocked" /\ queue' = Append(queue, EventOf(p, sent[p]))
        /\ UNCHANGED <<seen, worker, current, todo, sent>>
        /\ pub' = [pub EXCEPT ![p] = "ready"] /\ sent[p] \in Nat
        /\ sent' \in [Publishers -> Nat]
    BY <1>4 DEF PutResumes, Enqueue, TypeOK
  <2>2. /\ pub' \in [Publishers -> {"ready", "blocked"}] /\ pub'[p] = "ready"
        /\ \A q \in Publishers \ {p} : pub'[q] = pub[q]
    BY <2>1 DEF TypeOK
  <2>3. QED BY <2>1, <2>2, OrderEnqueue
<1>5. ASSUME NEW w \in Workers, WorkerTakes(w) PROVE OrderInv'
  <2> USE DEF OrderInv, InOrder, QueueOrdered, CurrentAhead, SeenAhead, AllIssued, IdleEmpty
  <2>1. /\ worker[w] = "idle" /\ queue # <<>> /\ queue' = Tail(queue)
        /\ worker' = [worker EXCEPT ![w] = "busy"]
        /\ current' = [current EXCEPT ![w] = Head(queue)]
        /\ todo' = [todo EXCEPT ![w] = subs]
        /\ UNCHANGED <<seen, pub, sent>>
    BY <1>5 DEF WorkerTakes
  <2>2. /\ Len(queue) \in Nat /\ Len(queue) >= 1 /\ Len(queue') = Len(queue) - 1
        /\ Head(queue) = queue[1]
        /\ \A i \in 1..Len(queue') : queue'[i] = queue[i + 1] /\ i + 1 \in 1..Len(queue)
    BY <2>1 DEF TypeOK
  <2>3. QueueOrdered'
    BY <2>2 DEF Ahead
  <2>4. CurrentAhead'
    BY <2>1, <2>2 DEF Ahead, TypeOK
  <2>5. SeenAhead'
    <3>1. TAKE s \in Subscribers
    <3>2. TAKE k \in 1..Len(seen'[s])
    <3>3. \A i \in 1..Len(queue) : Ahead(seen[s][k], queue[i])
      BY <2>1
    <3>4. \A i \in 1..Len(queue') : Ahead(seen'[s][k], queue'[i])
      BY <2>1, <2>2, <3>3
    <3>5. \A v \in Workers : s \in todo'[v] => Ahead(seen'[s][k], current'[v])
      BY <2>1, <2>2, <3>3 DEF TypeOK
    <3>6. QED BY <3>4, <3>5 DEF Ahead
  <2>6. AllIssued'
    BY <2>1, <2>2 DEF Issued, TypeOK
  <2>7. IdleEmpty' /\ InOrder'
    BY <2>1 DEF TypeOK
  <2>8. QED BY <2>3, <2>4, <2>5, <2>6, <2>7
<1>6. ASSUME NEW w \in Workers, WorkerStops(w) PROVE OrderInv'
  <2> USE DEF OrderInv, InOrder, QueueOrdered, CurrentAhead, SeenAhead, AllIssued, IdleEmpty
  <2>1. /\ worker[w] = "idle" /\ queue # <<>> /\ queue' = Tail(queue)
        /\ worker' = [worker EXCEPT ![w] = "done"]
        /\ UNCHANGED <<seen, pub, sent, current, todo>>
    BY <1>6 DEF WorkerStops
  <2>2. /\ Len(queue) \in Nat /\ Len(queue) >= 1 /\ Len(queue') = Len(queue) - 1
        /\ \A i \in 1..Len(queue') : queue'[i] = queue[i + 1] /\ i + 1 \in 1..Len(queue)
    BY <2>1 DEF TypeOK
  <2>3. QueueOrdered'
    <3>1. SUFFICES ASSUME NEW i \in 1..Len(queue'), NEW j \in 1..Len(queue'), i < j
                   PROVE  Ahead(queue'[i], queue'[j])
      BY DEF Ahead
    <3>2. Ahead(queue[i + 1], queue[j + 1])
      BY <2>2, <3>1
    <3>3. QED BY <2>2, <3>2
  <2>4. CurrentAhead' /\ SeenAhead'
    BY <2>1, <2>2 DEF Ahead
  <2>5. AllIssued'
    BY <2>1, <2>2 DEF Issued
  <2>6. IdleEmpty' /\ InOrder'
    BY <2>1 DEF TypeOK
  <2>7. QED BY <2>3, <2>4, <2>5, <2>6
<1>7. ASSUME NEW w \in Workers, NEW s \in Subscribers, NEW fails \in BOOLEAN, Deliver(w, s, fails)
      PROVE OrderInv'
  <2> USE DEF OrderInv, InOrder, QueueOrdered, CurrentAhead, SeenAhead, AllIssued, IdleEmpty
  <2>1. /\ worker[w] = "busy" /\ s \in todo[w]
        /\ seen' = [seen EXCEPT ![s] = Append(@, current[w])]
        /\ todo' = [todo EXCEPT ![w] = @ \ {s}]
        /\ UNCHANGED <<queue, worker, current, pub, sent>>
    BY <1>7 DEF Deliver
  <2>2. \A t \in Subscribers \ {s} : seen'[t] = seen[t]
    BY <2>1 DEF TypeOK
  <2>3. /\ Len(seen[s]) \in Nat /\ Len(seen'[s]) = Len(seen[s]) + 1
        /\ seen'[s][Len(seen[s]) + 1] = current[w]
        /\ \A k \in 1..Len(seen[s]) : seen'[s][k] = seen[s][k]
    BY <2>1 DEF TypeOK
  <2>4. \A k \in 1..Len(seen'[s]) : k \in 1..Len(seen[s]) \/ k = Len(seen[s]) + 1
    BY <2>3
  <2>5. /\ s \notin todo'[w]
        /\ \A v \in Workers : todo'[v] \subseteq todo[v]
        /\ \A v \in Workers : v # w => todo'[v] = {}
    BY <2>1 DEF TypeOK, ControlInv, OneWorker
  <2>6. InOrder'
    <3>1. \A k \in 1..Len(seen[s]) : Ahead(seen[s][k], current[w])
      BY <2>1
    <3>2. TAKE t \in Subscribers
    <3>3. CASE t # s
      BY <3>3, <2>2
    <3>4. CASE t = s
      <4>1. SUFFICES ASSUME NEW i \in 1..Len(seen'[s]), NEW j \in 1..Len(seen'[s]), i < j
                     PROVE  Ahead(seen'[s][i], seen'[s][j])
        BY <3>4 DEF Ahead
      <4>2. i \in 1..Len(seen[s])
        BY <4>1, <2>3
      <4>3. CASE j = Len(seen[s]) + 1
        BY <4>2, <4>3, <3>1, <2>3
      <4>4. CASE j \in 1..Len(seen[s])
        <5>1. Ahead(seen[s][i], seen[s][j])
          BY <4>1, <4>2, <4>4 DEF Ahead
        <5>2. QED BY <5>1, <4>2, <4>4, <2>3
      <4>5. QED BY <4>3, <4>4, <2>4
    <3>5. QED BY <3>3, <3>4
  <2>7. SeenAhead'
    <3>1. TAKE t \in Subscribers
    <3>2. CASE t # s
      BY <3>2, <2>1, <2>2, <2>5
    <3>3. CASE t = s
      BY <3>3, <2>1, <2>3, <2>4, <2>5
    <3>4. QED BY <3>2, <3>3
  <2>8. AllIssued'
    <3>1. /\ \A i \in 1..Len(queue) : Issued(queue[i])'
          /\ \A v \in Workers : Issued(current[v])'
      BY <2>1 DEF Issued
    <3>2. \A t \in Subscribers : \A k \in 1..Len(seen'[t]) : Issued(seen[t][k])'
      <4>1. TAKE t \in Subscribers
      <4>2. CASE t # s
        BY <4>2, <2>1, <2>2 DEF Issued
      <4>3. CASE t = s
        BY <4>3, <2>1, <2>3, <2>4 DEF Issued
      <4>4. QED BY <4>2, <4>3
    <3>3. QED BY <2>1, <3>1, <3>2
  <2>9. QueueOrdered' /\ CurrentAhead' /\ IdleEmpty'
    BY <2>1, <2>5 DEF TypeOK
  <2>10. QED BY <2>6, <2>7, <2>8, <2>9
<1>8. ASSUME NEW w \in Workers, WorkerFinishes(w) \/ WorkerDies(w) PROVE OrderInv'
  <2> USE DEF OrderInv, InOrder, QueueOrdered, CurrentAhead, SeenAhead, AllIssued, IdleEmpty
  <2>1. /\ worker' = [worker EXCEPT ![w] = "idle"] \/ worker' = [worker EXCEPT ![w] = "done"]
        /\ current' = [current EXCEPT ![w] = Stop]
        /\ todo' = [todo EXCEPT ![w] = {}]
        /\ UNCHANGED <<queue, seen, pub, sent>>
    BY <1>8 DEF WorkerFinishes, WorkerDies, TypeOK
  <2>2. QED BY <2>1, WorkerRests
<1>10. CASE CloseDrains
  BY <1>10, OrderFrame, ReportOrSealNoNewEvent DEF CloseDrains, NoNewEvent
<1>11. CASE CloseDiscards
  BY <1>11, OrderFrame, SealNoNewEvent DEF CloseDiscards
<1>12. CASE CloseAgain
  BY <1>12, OrderFrame DEF CloseAgain, NoNewEvent
<1>13. CASE JoinReturns
  BY <1>13, OrderFrame, ReportOrSealNoNewEvent DEF JoinReturns
<1>14. CASE PutReport
  <2>1. queue' = Append(queue, EventDropped(inHand)) /\ EventDropped(inHand) \in Item
    BY <1>14, ItemFacts DEF PutReport, Enqueue, TypeOK
  <2>2. NoNewEvent
    BY <2>1 DEF NoNewEvent, EventDropped
  <2>3. QED BY <1>14, <2>2, OrderFrame DEF PutReport
<1>15. CASE JoinReportReturns
  BY <1>15, OrderFrame, SealNoNewEvent DEF JoinReportReturns
<1>16. CASE PutStop
  <2>1. NoNewEvent
    BY <1>16, ItemFacts DEF PutStop, Enqueue, NoNewEvent, Stop
  <2>2. QED BY <1>16, <2>1, OrderFrame DEF PutStop
<1>17. CASE CloseReturns
  BY <1>17, OrderFrame DEF CloseReturns, NoNewEvent
<1>18. CASE CancelClose
  <2>1. CASE owner = "awaitWorker" /\ worker[active] # "done"
    <3>1. /\ active \in Workers
          /\ worker' = [worker EXCEPT ![active] = "done"]
          /\ current' = [current EXCEPT ![active] = Stop]
          /\ todo' = [todo EXCEPT ![active] = {}]
          /\ UNCHANGED <<queue, seen, pub, sent>>
      BY <1>18, <2>1 DEF CancelClose, ControlInv, OwnerInv
    <3>2. QED BY <3>1, WorkerRests
  <2>2. CASE ~(owner = "awaitWorker" /\ worker[active] # "done")
    BY <1>18, <2>2, OrderFrame DEF CancelClose, NoNewEvent
  <2>3. QED BY <2>1, <2>2
<1>19. CASE UNCHANGED vars
  BY <1>19, OrderFrame DEF vars, NoNewEvent
<1>20. QED
  BY <1>1, <1>2, <1>3, <1>4, <1>5, <1>6, <1>7, <1>8, <1>10, <1>11, <1>12,
     <1>13, <1>14, <1>15, <1>16, <1>17, <1>18, <1>19
  DEF Next, PublisherStep, WorkerStep, CloseStep

LEMMA InitOrder == Init => OrderInv
BY DEF Init, OrderInv, InOrder, QueueOrdered, CurrentAhead, SeenAhead, AllIssued,
       IdleEmpty, Ahead, Issued, Stop

\* "preserves publish order within a process": for any number of publishers,
\* handlers, queue sizes and worker deaths, no handler sees two events of one
\* publisher in the wrong order or twice the same one.
THEOREM InOrderCorrect == Spec => []InOrder
<1>1. Init => TypeOK /\ ControlInv /\ OrderInv
  BY InitType, InitControl, InitOrder
<1>2. TypeOK /\ ControlInv /\ OrderInv /\ [Next]_vars => (TypeOK /\ ControlInv /\ OrderInv)'
  BY TypeStep, ControlStep, OrderStep
<1>3. OrderInv => InOrder
  BY DEF OrderInv
<1>4. QED BY <1>1, <1>2, <1>3, PTL DEF Spec

-----------------------------------------------------------------------------
\* Items come and go together with their entry in the queue's count.
Counted ==
    \/ queue' = queue /\ unfinished' = unfinished
    \/ \E x \in Item : queue' = Append(queue, x) /\ unfinished' = unfinished + 1

LEMMA SealCounted ==
    ASSUME Seal(queue, unfinished) PROVE Counted
BY ItemFacts DEF Seal, Counted

LEMMA ReportOrSealCounted ==
    ASSUME TypeOK, ReportOrSeal PROVE Counted
<1>1. CASE droppedCount > 0 /\ Full
  BY <1>1 DEF ReportOrSeal, Counted
<1>2. CASE droppedCount > 0 /\ ~Full
  BY <1>2, ItemFacts DEF ReportOrSeal, Enqueue, Counted, TypeOK
<1>3. CASE ~(droppedCount > 0)
  BY <1>3, SealCounted DEF ReportOrSeal
<1>4. QED BY <1>1, <1>2, <1>3

LEMMA CountFrame ==
    ASSUME TypeOK, CountInv, Counted,
           \A w \in Workers : worker'[w] = "busy" <=> worker[w] = "busy"
    PROVE  CountInv'
<1>1. Busy' <=> Busy
  BY DEF Busy
<1>2. CASE queue' = queue /\ unfinished' = unfinished
  BY <1>1, <1>2 DEF CountInv
<1>3. CASE \E x \in Item : queue' = Append(queue, x) /\ unfinished' = unfinished + 1
  <2>1. Len(queue') = Len(queue) + 1 /\ unfinished' = unfinished + 1 /\ Len(queue) \in Nat
    BY <1>3 DEF TypeOK
  <2>2. QED BY <1>1, <2>1 DEF CountInv, TypeOK
<1>4. QED BY <1>2, <1>3 DEF Counted

LEMMA CountStep == TypeOK /\ ControlInv /\ CountInv /\ [Next]_vars => CountInv'
<1> SUFFICES ASSUME TypeOK, ControlInv, CountInv, [Next]_vars PROVE CountInv'
  OBVIOUS
<1>1. ASSUME NEW s \in Subscribers, Subscribe(s) \/ Unsubscribe(s) PROVE CountInv'
  BY <1>1, CountFrame DEF Subscribe, Unsubscribe, Counted
<1>2. ASSUME NEW p \in Publishers, NEW visible \in BOOLEAN, Publish(p, visible)
      PROVE CountInv'
  <2>1. Counted
    <3>1. CASE Full
      BY <1>2, <3>1 DEF Publish, Counted
    <3>2. CASE ~Full
      <4>1. Enqueue(EventOf(p, sent[p] + 1)) /\ EventOf(p, sent[p] + 1) \in Item
        BY <1>2, <3>2, ItemFacts DEF Publish, TypeOK
      <4>2. QED BY <4>1 DEF Enqueue, Counted
    <3>3. QED BY <3>1, <3>2
  <2>2. \A w \in Workers : worker'[w] = "busy" <=> worker[w] = "busy"
    BY <1>2 DEF Publish, EnsureWorker, TypeOK
  <2>3. QED BY <2>1, <2>2, CountFrame
<1>3. ASSUME NEW p \in Publishers, PublishRefused(p) PROVE CountInv'
  BY <1>3, CountFrame DEF PublishRefused, Counted
<1>4. ASSUME NEW p \in Publishers, PutResumes(p) PROVE CountInv'
  BY <1>4, CountFrame, ItemFacts DEF PutResumes, Enqueue, Counted, TypeOK
<1>5. ASSUME NEW w \in Workers, WorkerTakes(w) PROVE CountInv'
  <2>1. ~Busy /\ Busy'
    BY <1>5 DEF WorkerTakes, Busy, ControlInv, OneWorker, TypeOK
  <2>2. Len(queue) \in Nat /\ Len(queue') = Len(queue) - 1 /\ unfinished' = unfinished
    BY <1>5 DEF WorkerTakes, TypeOK
  <2>3. QED BY <2>1, <2>2 DEF CountInv, TypeOK
<1>6. ASSUME NEW w \in Workers, WorkerStops(w) PROVE CountInv'
  <2>1. ~Busy /\ ~Busy'
    BY <1>6 DEF WorkerStops, Busy, ControlInv, OneWorker, TypeOK
  <2>2. Len(queue) \in Nat /\ Len(queue') = Len(queue) - 1 /\ unfinished' = unfinished - 1
    BY <1>6 DEF WorkerStops, TaskDone, TypeOK
  <2>3. QED BY <2>1, <2>2 DEF CountInv, TypeOK
<1>7. ASSUME NEW w \in Workers, NEW s \in Subscribers, NEW fails \in BOOLEAN, Deliver(w, s, fails)
      PROVE CountInv'
  BY <1>7, CountFrame DEF Deliver, Counted
<1>8. ASSUME NEW w \in Workers, WorkerFinishes(w) PROVE CountInv'
  <2>1. Busy /\ ~Busy'
    BY <1>8 DEF WorkerFinishes, Busy, ControlInv, OneWorker, TypeOK
  <2>2. queue' = queue /\ unfinished' = unfinished - 1 /\ Len(queue) \in Nat
    BY <1>8 DEF WorkerFinishes, TaskDone, TypeOK
  <2>3. QED BY <2>1, <2>2 DEF CountInv, TypeOK
<1>9. ASSUME NEW w \in Workers, WorkerDies(w) PROVE CountInv'
  <2>1. ~Busy' /\ (Busy <=> worker[w] = "busy")
    BY <1>9 DEF WorkerDies, Busy, ControlInv, OneWorker, TypeOK
  <2>2. /\ queue' = queue /\ Len(queue) \in Nat
        /\ unfinished' = IF worker[w] = "busy" THEN unfinished - 1 ELSE unfinished
    BY <1>9 DEF WorkerDies, TaskDone, TypeOK
  <2>3. QED BY <2>1, <2>2 DEF CountInv, TypeOK
<1>10. CASE CloseDrains
  BY <1>10, CountFrame, ReportOrSealCounted DEF CloseDrains, Counted
<1>11. CASE CloseDiscards
  <2>1. Seal(<<>>, unfinished - Len(queue)) /\ UNCHANGED worker
    BY <1>11 DEF CloseDiscards
  <2>2. /\ unfinished - Len(queue) = IF Busy THEN 1 ELSE 0
        /\ Busy' <=> Busy
    BY <2>1 DEF CountInv, TypeOK, Busy
  <2>3. Len(<<>>) = 0 /\ Len(Append(<<>>, Stop)) = 1
    OBVIOUS
  <2>4. unfinished' = Len(queue') + (IF Busy THEN 1 ELSE 0)
    <3>1. CASE queue' = <<>> /\ unfinished' = unfinished - Len(queue)
      BY <2>2, <2>3, <3>1
    <3>2. CASE queue' = Append(<<>>, Stop) /\ unfinished' = unfinished - Len(queue) + 1
      BY <2>2, <2>3, <3>2
    <3>3. QED BY <2>1, <3>1, <3>2 DEF Seal
  <2>5. QED BY <2>2, <2>4 DEF CountInv
<1>12. CASE CloseAgain
  BY <1>12, CountFrame DEF CloseAgain, Counted
<1>13. CASE JoinReturns
  BY <1>13, CountFrame, ReportOrSealCounted DEF JoinReturns
<1>14. CASE PutReport
  BY <1>14, CountFrame, ItemFacts DEF PutReport, Enqueue, Counted, TypeOK
<1>15. CASE JoinReportReturns
  BY <1>15, CountFrame, SealCounted DEF JoinReportReturns
<1>16. CASE PutStop
  BY <1>16, CountFrame, ItemFacts DEF PutStop, Enqueue, Counted
<1>17. CASE CloseReturns
  BY <1>17, CountFrame DEF CloseReturns, Counted
<1>18. CASE CancelClose
  <2>1. CASE owner = "awaitWorker" /\ worker[active] # "done"
    <3>1. /\ active \in Workers /\ worker' = [worker EXCEPT ![active] = "done"]
          /\ queue' = queue /\ Len(queue) \in Nat
          /\ unfinished' = IF worker[active] = "busy" THEN unfinished - 1 ELSE unfinished
      BY <1>18, <2>1 DEF CancelClose, ControlInv, OwnerInv, TypeOK
    <3>2. ~Busy' /\ (Busy <=> worker[active] = "busy")
      BY <3>1 DEF Busy, ControlInv, OneWorker, TypeOK
    <3>3. QED BY <3>1, <3>2 DEF CountInv, TypeOK
  <2>2. CASE ~(owner = "awaitWorker" /\ worker[active] # "done")
    BY <1>18, <2>2, CountFrame DEF CancelClose, Counted
  <2>3. QED BY <2>1, <2>2
<1>19. CASE UNCHANGED vars
  BY <1>19, CountFrame DEF vars, Counted
<1>20. QED
  BY <1>1, <1>2, <1>3, <1>4, <1>5, <1>6, <1>7, <1>8, <1>9, <1>10, <1>11, <1>12,
     <1>13, <1>14, <1>15, <1>16, <1>17, <1>18, <1>19
  DEF Next, PublisherStep, WorkerStep, CloseStep

-----------------------------------------------------------------------------
\* A step keeps every event on its way: what was queued, in hands or seen still
\* is one of the three, and no event is newly accepted or due.
Delivering ==
    \A s \in steady, p \in Publishers, i \in Nat :
        InQueue(p, i) \/ InHands(s, p, i) \/ WasSeen(s, p, i)
            => (InQueue(p, i) \/ InHands(s, p, i) \/ WasSeen(s, p, i))'

LEMMA CountedDelivering ==
    ASSUME TypeOK, Counted, UNCHANGED <<current, todo, seen>>
    PROVE  Delivering
<1>1. \A k \in 1..Len(queue) : k \in 1..Len(queue') /\ queue'[k] = queue[k]
  <2>1. CASE queue' = queue
    BY <2>1
  <2>2. CASE \E x \in Item : queue' = Append(queue, x)
    BY <2>2 DEF TypeOK
  <2>3. QED BY <2>1, <2>2 DEF Counted
<1>2. QED BY <1>1 DEF Delivering, InQueue, InHands, WasSeen

LEMMA ConservedFrame ==
    ASSUME TypeOK, Conserved, Delivering, steady' \subseteq steady,
           UNCHANGED <<accepted, drained, closes>>,
           cancelled => cancelled', died => died'
    PROVE  Conserved'
<1>1. SUFFICES ASSUME Undisturbed', (closes = 0 \/ drained),
                      NEW s \in steady', NEW p \in Publishers, NEW i \in accepted[p]
               PROVE  (InQueue(p, i) \/ InHands(s, p, i) \/ WasSeen(s, p, i))'
  BY DEF Conserved, InQueue, InHands, WasSeen
<1>2. Undisturbed /\ s \in steady /\ i \in Nat
  BY <1>1 DEF Undisturbed, TypeOK
<1>3. InQueue(p, i) \/ InHands(s, p, i) \/ WasSeen(s, p, i)
  BY <1>1, <1>2 DEF Conserved
<1>4. QED BY <1>2, <1>3 DEF Delivering

\* Handlers forget nothing, so what was due and seen stays seen.
LEMMA DueSeenFrame ==
    ASSUME TypeOK, DueSeen, steady' \subseteq steady,
           UNCHANGED <<due, drained, closes>>,
           cancelled => cancelled', died => died',
           finished' => finished, owner' # "join" => owner # "join" \/ finished,
           \A s \in Subscribers, p \in Publishers, i \in Nat : WasSeen(s, p, i) => WasSeen(s, p, i)'
    PROVE  DueSeen'
<1>1. SUFFICES ASSUME Undisturbed', drained, closes > 0, finished' \/ owner' # "join",
                      NEW s \in steady', NEW p \in Publishers, NEW i \in due[p]
               PROVE  WasSeen(s, p, i)'
  BY DEF DueSeen, WasSeen
<1>2. Undisturbed /\ (finished \/ owner # "join") /\ s \in steady
  BY <1>1 DEF Undisturbed
<1>3. WasSeen(s, p, i)
  BY <1>1, <1>2 DEF DueSeen
<1>4. s \in Subscribers /\ i \in Nat
  BY <1>2 DEF TypeOK
<1>5. QED BY <1>3, <1>4

\* When the count reaches zero every accepted event has been seen.
LEMMA AllSeen ==
    ASSUME TypeOK, Conserved, Undisturbed, closes = 0 \/ drained,
           \A p \in Publishers, i \in Nat : ~InQueue(p, i),
           \A s \in steady, p \in Publishers, i \in Nat : ~InHands(s, p, i)
    PROVE  \A s \in steady, p \in Publishers : \A i \in accepted[p] : WasSeen(s, p, i)
BY DEF Conserved, TypeOK

LEMMA NothingQueued ==
    ASSUME TypeOK, \A k \in 1..Len(queue) : queue[k].type # "event"
    PROVE  \A p \in Publishers, i \in Nat : ~InQueue(p, i)
BY DEF InQueue, EventOf

LEMMA EmptyHands ==
    ASSUME TypeOK, \A w \in Workers : todo[w] = {}
    PROVE  \A s \in steady, p \in Publishers, i \in Nat : ~InHands(s, p, i)
BY DEF InHands

LEMMA QueueFrame ==
    ASSUME TypeOK, DeliveryInv, CountInv', Counted,
           UNCHANGED <<current, todo, seen, accepted, due, drained, closes>>,
           steady' \subseteq steady, steady' \subseteq subs',
           cancelled => cancelled', died => died',
           finished' => finished, owner' # "join" => owner # "join" \/ finished,
           owner' # "open" => owner # "open"
    PROVE  DeliveryInv'
<1>1. Delivering
  BY CountedDelivering
<1>2. Conserved'
  BY <1>1, ConservedFrame DEF DeliveryInv
<1>3. \A s \in Subscribers, p \in Publishers, i \in Nat : WasSeen(s, p, i) => WasSeen(s, p, i)'
  BY DEF WasSeen
<1>4. DueSeen'
  BY <1>3, DueSeenFrame DEF DeliveryInv
<1>5. DueAccepted'
  BY DEF DeliveryInv, DueAccepted
<1>6. QED BY <1>2, <1>4, <1>5 DEF DeliveryInv

LEMMA DeliveryStep ==
    TypeOK /\ ControlInv /\ IdleEmpty /\ DeliveryInv /\ [Next]_vars => DeliveryInv'
<1> SUFFICES ASSUME TypeOK, ControlInv, IdleEmpty, DeliveryInv, [Next]_vars
             PROVE  DeliveryInv'
  OBVIOUS
<1>0. CountInv' /\ TypeOK'
  BY CountStep, TypeStep DEF DeliveryInv
<1>1. ASSUME NEW s \in Subscribers, Subscribe(s) \/ Unsubscribe(s) PROVE DeliveryInv'
  <2>1. /\ Counted /\ steady' \subseteq steady /\ steady' \subseteq subs'
        /\ UNCHANGED <<current, todo, seen, accepted, due, drained, closes, cancelled,
                       died, finished, owner>>
    BY <1>1 DEF Subscribe, Unsubscribe, Counted, DeliveryInv, DueAccepted
  <2>2. QED BY <1>0, <2>1, QueueFrame
<1>2. ASSUME NEW p \in Publishers, NEW k \in Nat,
             \/ Counted /\ UNCHANGED accepted
             \/ /\ Enqueue(EventOf(p, k))
                /\ accepted' = [accepted EXCEPT ![p] = @ \cup {k}],
             UNCHANGED <<subs, current, todo, seen, due, drained, steady, closes,
                         cancelled, died, finished, owner>>
      PROVE  DeliveryInv'
  <2>1. Counted
    BY <1>2, ItemFacts DEF Enqueue, Counted
  <2>2. Delivering
    BY <1>2, <2>1, CountedDelivering
  <2>3. Conserved'
    <3>1. SUFFICES ASSUME Undisturbed', (closes = 0 \/ drained), NEW s \in steady,
                          NEW q \in Publishers, NEW i \in accepted'[q]
                   PROVE  (InQueue(q, i) \/ InHands(s, q, i) \/ WasSeen(s, q, i))'
      BY <1>2 DEF Conserved, InQueue, InHands, WasSeen
    <3>2. Undisturbed
      BY <1>2, <3>1 DEF Undisturbed
    <3>3. CASE i \in accepted[q]
      <4>1. InQueue(q, i) \/ InHands(s, q, i) \/ WasSeen(s, q, i)
        BY <3>1, <3>2, <3>3 DEF Conserved, DeliveryInv
      <4>2. i \in Nat
        BY <3>3 DEF TypeOK
      <4>3. QED BY <2>2, <4>1, <4>2 DEF Delivering
    <3>4. CASE i \notin accepted[q]
      <4>1. q = p /\ i = k /\ queue' = Append(queue, EventOf(p, k))
        BY <1>2, <3>4 DEF TypeOK, Enqueue
      <4>2. Len(queue) + 1 \in 1..Len(queue') /\ queue'[Len(queue) + 1] = EventOf(q, i)
        BY <4>1, ItemFacts DEF TypeOK
      <4>3. InQueue(q, i)'
        BY <4>2 DEF InQueue, EventOf
      <4>4. QED BY <4>3
    <3>5. QED BY <3>3, <3>4
  <2>4. \A s \in Subscribers, q \in Publishers, i \in Nat : WasSeen(s, q, i) => WasSeen(s, q, i)'
    BY <1>2 DEF WasSeen
  <2>5. DueSeen'
    BY <1>2, <2>4, DueSeenFrame DEF DeliveryInv
  <2>6. DueAccepted'
    BY <1>2 DEF DeliveryInv, DueAccepted, TypeOK
  <2>7. QED BY <1>0, <2>3, <2>5, <2>6 DEF DeliveryInv
<1>3. ASSUME NEW p \in Publishers, NEW visible \in BOOLEAN, Publish(p, visible)
      PROVE DeliveryInv'
  <2>1. UNCHANGED <<subs, current, todo, seen, due, drained, steady, closes,
                    cancelled, died, finished, owner>>
    BY <1>3 DEF Publish
  <2>2. sent[p] + 1 \in Nat
    BY DEF TypeOK
  <2>3. \/ Counted /\ UNCHANGED accepted
        \/ /\ Enqueue(EventOf(p, sent[p] + 1))
           /\ accepted' = [accepted EXCEPT ![p] = @ \cup {sent[p] + 1}]
    BY <1>3 DEF Publish, Counted
  <2>4. QED BY <2>1, <2>2, <2>3, <1>2
<1>4. ASSUME NEW p \in Publishers, PublishRefused(p) PROVE DeliveryInv'
  <2>1. Counted /\ UNCHANGED <<current, todo, seen, accepted, due, drained, closes, steady,
                               subs, cancelled, died, finished, owner>>
    BY <1>4 DEF PublishRefused, Counted
  <2>2. QED BY <1>0, <2>1, QueueFrame DEF DeliveryInv, DueAccepted
<1>5. ASSUME NEW p \in Publishers, PutResumes(p) PROVE DeliveryInv'
  <2>1. /\ Enqueue(EventOf(p, sent[p]))
        /\ accepted' = [accepted EXCEPT ![p] = @ \cup {sent[p]}]
        /\ UNCHANGED <<subs, current, todo, seen, due, drained, steady, closes,
                       cancelled, died, finished, owner>>
    BY <1>5 DEF PutResumes
  <2>2. sent[p] \in Nat
    BY DEF TypeOK
  <2>3. QED BY <2>1, <2>2, <1>2
<1>6. ASSUME NEW w \in Workers, WorkerTakes(w) PROVE DeliveryInv'
  <2>1. /\ worker[w] = "idle" /\ queue # <<>> /\ queue' = Tail(queue)
        /\ current' = [current EXCEPT ![w] = Head(queue)]
        /\ todo' = [todo EXCEPT ![w] = subs]
        /\ UNCHANGED <<subs, seen, accepted, due, drained, steady, closes,
                       cancelled, died, finished, owner>>
    BY <1>6 DEF WorkerTakes
  <2>2. Delivering
    <3>1. SUFFICES ASSUME NEW s \in steady, NEW p \in Publishers, NEW i \in Nat,
                          InQueue(p, i) \/ InHands(s, p, i) \/ WasSeen(s, p, i)
                   PROVE  (InQueue(p, i) \/ InHands(s, p, i) \/ WasSeen(s, p, i))'
      BY DEF Delivering
    <3>2. CASE InQueue(p, i)
      <4>1. PICK k \in 1..Len(queue) : queue[k] = EventOf(p, i)
        BY <3>2 DEF InQueue
      <4>2. CASE k = 1
        <5>1. current'[w] = EventOf(p, i) /\ s \in todo'[w]
          BY <2>1, <4>1, <4>2 DEF TypeOK, DeliveryInv, DueAccepted
        <5>2. InHands(s, p, i)'
          BY <5>1 DEF InHands, EventOf
        <5>3. QED BY <5>2
      <4>3. CASE k > 1
        <5>1. k - 1 \in 1..Len(queue') /\ queue'[k - 1] = queue[k]
          BY <2>1, <4>1, <4>3 DEF TypeOK
        <5>2. InQueue(p, i)'
          BY <4>1, <5>1 DEF InQueue, EventOf
        <5>3. QED BY <5>2
      <4>4. QED BY <4>1, <4>2, <4>3 DEF TypeOK
    <3>3. CASE InHands(s, p, i)
      <4>1. PICK v \in Workers : s \in todo[v] /\ current[v] = EventOf(p, i)
        BY <3>3 DEF InHands
      <4>2. v # w
        BY <2>1, <4>1 DEF IdleEmpty
      <4>3. s \in todo'[v] /\ current'[v] = EventOf(p, i)
        BY <2>1, <4>1, <4>2 DEF TypeOK
      <4>4. InHands(s, p, i)'
        BY <4>3 DEF InHands, EventOf
      <4>5. QED BY <4>4
    <3>4. CASE WasSeen(s, p, i)
      BY <2>1, <3>4 DEF WasSeen, EventOf
    <3>5. QED BY <3>1, <3>2, <3>3, <3>4
  <2>3. Conserved'
    BY <2>1, <2>2, ConservedFrame DEF DeliveryInv
  <2>4. \A s \in Subscribers, p \in Publishers, i \in Nat : WasSeen(s, p, i) => WasSeen(s, p, i)'
    BY <2>1 DEF WasSeen
  <2>5. DueSeen'
    BY <2>1, <2>4, DueSeenFrame DEF DeliveryInv
  <2>6. QED BY <1>0, <2>1, <2>3, <2>5 DEF DeliveryInv, DueAccepted
<1>7. ASSUME NEW w \in Workers, WorkerStops(w) \/ WorkerFinishes(w) PROVE DeliveryInv'
  <2>1. /\ TaskDone
        /\ \A v \in Workers : todo[v] = {} /\ todo'[v] = {}
        /\ UNCHANGED <<subs, seen, accepted, due, drained, steady, closes,
                       cancelled, died, owner>>
        /\ \/ /\ queue' = Tail(queue) /\ queue # <<>> /\ queue[1].type = "stop" /\ ~Busy
           \/ queue' = queue /\ Busy
    <3>1. CASE WorkerStops(w)
      BY <3>1 DEF WorkerStops, IdleEmpty, ControlInv, OneWorker, Busy, TypeOK
    <3>2. CASE WorkerFinishes(w)
      BY <3>2 DEF WorkerFinishes, IdleEmpty, ControlInv, OneWorker, Busy, TypeOK
    <3>3. QED BY <1>7, <3>1, <3>2
  <2>2. Delivering
    <3>1. SUFFICES ASSUME NEW s \in steady, NEW p \in Publishers, NEW i \in Nat,
                          InQueue(p, i) \/ InHands(s, p, i) \/ WasSeen(s, p, i)
                   PROVE  (InQueue(p, i) \/ InHands(s, p, i) \/ WasSeen(s, p, i))'
      BY DEF Delivering
    <3>2. ~InHands(s, p, i)
      BY <2>1 DEF InHands
    <3>3. CASE InQueue(p, i)
      <4>1. PICK k \in 1..Len(queue) : queue[k] = EventOf(p, i)
        BY <3>3 DEF InQueue
      <4>2. CASE queue' = queue
        BY <4>1, <4>2 DEF InQueue, EventOf
      <4>3. CASE queue' = Tail(queue) /\ queue # <<>> /\ queue[1].type = "stop"
        <5>1. k # 1
          BY <4>1, <4>3 DEF EventOf
        <5>2. k - 1 \in 1..Len(queue') /\ queue'[k - 1] = queue[k]
          BY <4>1, <4>3, <5>1 DEF TypeOK
        <5>3. QED BY <4>1, <5>2 DEF InQueue, EventOf
      <4>4. QED BY <2>1, <4>2, <4>3
    <3>4. CASE WasSeen(s, p, i)
      BY <2>1, <3>4 DEF WasSeen, EventOf
    <3>5. QED BY <3>1, <3>2, <3>3, <3>4
  <2>3. Conserved'
    BY <2>1, <2>2, ConservedFrame DEF DeliveryInv
  <2>4. \A s \in Subscribers, p \in Publishers, i \in Nat : WasSeen(s, p, i) => WasSeen(s, p, i)'
    BY <2>1 DEF WasSeen
  <2>5. DueSeen'
    <3>1. CASE unfinished # 1
      BY <2>1, <2>4, <3>1, DueSeenFrame DEF DeliveryInv, TaskDone
    <3>2. CASE unfinished = 1
      <4>1. \A k \in 1..Len(queue) : queue[k].type # "event"
        <5>1. CASE Busy
          <6>1. Len(queue) = 0
            BY <3>2, <5>1 DEF DeliveryInv, CountInv, TypeOK
          <6>2. QED BY <6>1
        <5>2. CASE ~Busy
          <6>1. Len(queue) = 1 /\ queue[1].type = "stop"
            BY <2>1, <3>2, <5>2 DEF DeliveryInv, CountInv, TypeOK
          <6>2. QED BY <6>1
        <5>3. QED BY <5>1, <5>2
      <4>2. SUFFICES ASSUME Undisturbed', drained, closes > 0,
                            NEW s \in steady, NEW p \in Publishers, NEW i \in due[p]
                     PROVE  WasSeen(s, p, i)'
        BY <2>1 DEF DueSeen, WasSeen
      <4>3. Undisturbed
        BY <2>1, <4>2 DEF Undisturbed
      <4>4. WasSeen(s, p, i)
        BY <2>1, <4>1, <4>2, <4>3, AllSeen, NothingQueued, EmptyHands
        DEF DeliveryInv, DueAccepted
      <4>5. QED BY <2>4, <4>4 DEF TypeOK
    <3>3. QED BY <3>1, <3>2
  <2>6. QED BY <1>0, <2>1, <2>3, <2>5 DEF DeliveryInv, DueAccepted
<1>8. ASSUME NEW w \in Workers, NEW s \in Subscribers, NEW fails \in BOOLEAN, Deliver(w, s, fails)
      PROVE DeliveryInv'
  <2>1. /\ worker[w] = "busy" /\ s \in todo[w]
        /\ seen' = [seen EXCEPT ![s] = Append(@, current[w])]
        /\ todo' = [todo EXCEPT ![w] = @ \ {s}]
        /\ UNCHANGED <<queue, current, subs, accepted, due, drained, steady, closes,
                       cancelled, died, finished, owner>>
    BY <1>8 DEF Deliver
  <2>2. /\ \A t \in Subscribers \ {s} : seen'[t] = seen[t]
        /\ Len(seen[s]) \in Nat /\ Len(seen'[s]) = Len(seen[s]) + 1
        /\ seen'[s][Len(seen[s]) + 1] = current[w]
        /\ \A k \in 1..Len(seen[s]) : seen'[s][k] = seen[s][k]
    BY <2>1 DEF TypeOK
  <2>3. \A t \in Subscribers, p \in Publishers, i \in Nat : WasSeen(t, p, i) => WasSeen(t, p, i)'
    <3>1. SUFFICES ASSUME NEW t \in Subscribers, NEW p \in Publishers, NEW i \in Nat,
                          NEW k \in 1..Len(seen[t]), seen[t][k] = EventOf(p, i)
                   PROVE  WasSeen(t, p, i)'
      BY DEF WasSeen
    <3>2. k \in 1..Len(seen'[t]) /\ seen'[t][k] = seen[t][k]
      BY <2>2
    <3>3. QED BY <3>1, <3>2 DEF WasSeen, EventOf
  <2>4. Delivering
    <3>1. SUFFICES ASSUME NEW t \in steady, NEW p \in Publishers, NEW i \in Nat,
                          InQueue(p, i) \/ InHands(t, p, i) \/ WasSeen(t, p, i)
                   PROVE  (InQueue(p, i) \/ InHands(t, p, i) \/ WasSeen(t, p, i))'
      BY DEF Delivering
    <3>2. CASE InQueue(p, i)
      BY <2>1, <3>2 DEF InQueue, EventOf
    <3>3. CASE InHands(t, p, i)
      <4>1. PICK v \in Workers : t \in todo[v] /\ current[v] = EventOf(p, i)
        BY <3>3 DEF InHands
      <4>2. CASE v = w /\ t = s
        <5>1. Len(seen[s]) + 1 \in 1..Len(seen'[s]) /\ seen'[s][Len(seen[s]) + 1] = EventOf(p, i)
          BY <2>2, <4>1, <4>2
        <5>2. WasSeen(t, p, i)'
          BY <4>2, <5>1 DEF WasSeen, EventOf
        <5>3. QED BY <5>2
      <4>3. CASE ~(v = w /\ t = s)
        <5>1. t \in todo'[v] /\ current'[v] = EventOf(p, i)
          BY <2>1, <4>1, <4>3 DEF TypeOK
        <5>2. InHands(t, p, i)'
          BY <5>1 DEF InHands, EventOf
        <5>3. QED BY <5>2
      <4>4. QED BY <4>2, <4>3
    <3>4. CASE WasSeen(t, p, i)
      <4>1. t \in Subscribers
        BY DEF TypeOK
      <4>2. QED BY <2>3, <3>4, <4>1
    <3>5. QED BY <3>1, <3>2, <3>3, <3>4
  <2>5. Conserved'
    BY <2>1, <2>4, ConservedFrame DEF DeliveryInv
  <2>6. DueSeen'
    BY <2>1, <2>3, DueSeenFrame DEF DeliveryInv
  <2>7. QED BY <1>0, <2>1, <2>5, <2>6 DEF DeliveryInv, DueAccepted
<1>9. ASSUME died' \/ cancelled',
             UNCHANGED <<subs, accepted, due, steady>>,
             owner' # "open" => closes' > 0
      PROVE  DeliveryInv'
  BY <1>0, <1>9 DEF DeliveryInv, DueAccepted, Conserved, DueSeen, Undisturbed
<1>10. ASSUME NEW w \in Workers, WorkerDies(w) PROVE DeliveryInv'
  BY <1>9, <1>10 DEF WorkerDies, DeliveryInv, DueAccepted
<1>11. CASE CloseDrains
  <2>1. /\ owner = "open" /\ closes' = closes + 1 /\ due' = accepted /\ drained' = TRUE
        /\ finished' = FALSE
        /\ UNCHANGED <<subs, current, todo, seen, accepted, steady, cancelled, died, worker>>
    BY <1>11 DEF CloseDrains
  <2>2. CASE cancelled
    BY <1>0, <2>1, <2>2 DEF DeliveryInv, DueAccepted, Conserved, DueSeen, Undisturbed, TypeOK
  <2>3. CASE ~cancelled
    <3>1. closes = 0
      BY <2>1, <2>3 DEF ControlInv, OwnerInv
    <3>2. Counted
      BY <1>11, ReportOrSealCounted DEF CloseDrains, Counted
    <3>3. Delivering
      BY <2>1, <3>2, CountedDelivering
    <3>4. Conserved'
      <4>1. SUFFICES ASSUME Undisturbed', NEW s \in steady, NEW p \in Publishers,
                            NEW i \in accepted[p]
                     PROVE  (InQueue(p, i) \/ InHands(s, p, i) \/ WasSeen(s, p, i))'
        BY <2>1 DEF Conserved, InQueue, InHands, WasSeen
      <4>2. Undisturbed /\ i \in Nat
        BY <2>1, <4>1 DEF Undisturbed, TypeOK
      <4>3. InQueue(p, i) \/ InHands(s, p, i) \/ WasSeen(s, p, i)
        BY <3>1, <4>2 DEF DeliveryInv, Conserved
      <4>4. QED BY <3>3, <4>2, <4>3 DEF Delivering
    <3>5. DueSeen'
      <4>1. CASE unfinished # 0
        <5>1. owner' = "join"
          BY <1>11, <4>1 DEF CloseDrains
        <5>2. QED BY <2>1, <5>1 DEF DueSeen
      <4>2. CASE unfinished = 0
        <5>1. Len(queue) = 0 /\ ~Busy
          BY <4>2 DEF DeliveryInv, CountInv, TypeOK
        <5>2. /\ \A k \in 1..Len(queue) : queue[k].type # "event"
              /\ \A w \in Workers : todo[w] = {}
          BY <5>1 DEF IdleEmpty, Busy
        <5>3. SUFFICES ASSUME Undisturbed', NEW s \in steady, NEW p \in Publishers,
                              NEW i \in accepted[p]
                       PROVE  WasSeen(s, p, i)'
          BY <2>1 DEF DueSeen, WasSeen
        <5>4. Undisturbed
          BY <2>1, <5>3 DEF Undisturbed
        <5>5. WasSeen(s, p, i)
          BY <3>1, <5>2, <5>3, <5>4, AllSeen, NothingQueued, EmptyHands DEF DeliveryInv
        <5>6. QED BY <2>1, <5>5 DEF WasSeen, EventOf
      <4>3. QED BY <4>1, <4>2
    <3>6. QED BY <1>0, <2>1, <3>1, <3>4, <3>5 DEF DeliveryInv, DueAccepted
  <2>4. QED BY <2>2, <2>3
<1>12. CASE CloseDiscards
  <2>1. /\ closes' = closes + 1 /\ due' = accepted /\ drained' = FALSE
        /\ UNCHANGED <<subs, accepted, steady>>
    BY <1>12 DEF CloseDiscards
  <2>2. closes' > 0 /\ closes' # 0
    BY <2>1 DEF TypeOK
  <2>3. QED BY <1>0, <2>1, <2>2 DEF DeliveryInv, DueAccepted, Conserved, DueSeen
<1>13. CASE CloseAgain
  <2>1. cancelled /\ closes' > 0
    BY <1>13 DEF CloseAgain, ControlInv, OwnerInv, TypeOK
  <2>2. cancelled' /\ UNCHANGED <<subs, accepted, due, steady>>
    BY <1>13, <2>1 DEF CloseAgain
  <2>3. QED BY <1>9, <2>1, <2>2
<1>14. CASE JoinReturns
  <2>1. /\ owner = "join" /\ finished /\ ~finished' /\ Counted
        /\ UNCHANGED <<current, todo, seen, accepted, due, drained, closes, steady, subs,
                       cancelled, died>>
    BY <1>14, ReportOrSealCounted DEF JoinReturns
  <2>2. QED BY <1>0, <2>1, QueueFrame DEF DeliveryInv, DueAccepted
<1>15. CASE PutReport \/ JoinReportReturns \/ PutStop \/ CloseReturns
  <2>1. Counted
    <3>1. CASE PutReport
      BY <3>1, ItemFacts DEF PutReport, Enqueue, Counted, TypeOK
    <3>2. CASE JoinReportReturns
      BY <3>2, SealCounted DEF JoinReportReturns
    <3>3. CASE PutStop
      BY <3>3, ItemFacts DEF PutStop, Enqueue, Counted
    <3>4. CASE CloseReturns
      BY <3>4 DEF CloseReturns, Counted
    <3>5. QED BY <1>15, <3>1, <3>2, <3>3, <3>4
  <2>2. /\ owner \in {"putReport", "joinReport", "putStop", "awaitWorker"}
        /\ finished' => finished
        /\ UNCHANGED <<current, todo, seen, accepted, due, drained, closes, steady, subs,
                       cancelled, died>>
    BY <1>15 DEF PutReport, JoinReportReturns, PutStop, CloseReturns
  <2>3. QED BY <1>0, <2>1, <2>2, QueueFrame DEF DeliveryInv, DueAccepted
<1>16. CASE CancelClose
  <2>1. cancelled' /\ owner' = "open" /\ UNCHANGED <<subs, accepted, due, steady>>
    BY <1>16 DEF CancelClose
  <2>2. QED BY <1>9, <2>1
<1>17. CASE UNCHANGED vars
  <2>1. Counted /\ UNCHANGED <<current, todo, seen, accepted, due, drained, closes, steady,
                               subs, cancelled, died, finished, owner>>
    BY <1>17 DEF vars, Counted
  <2>2. QED BY <1>0, <2>1, QueueFrame DEF DeliveryInv, DueAccepted
<1>18. QED
  BY <1>1, <1>3, <1>4, <1>5, <1>6, <1>7, <1>8, <1>10, <1>11, <1>12, <1>13, <1>14,
     <1>15, <1>16, <1>17
  DEF Next, PublisherStep, WorkerStep, CloseStep

LEMMA InitDelivery == Init => DeliveryInv
BY DEF Init, DeliveryInv, CountInv, Busy, DueAccepted, Conserved, DueSeen

\* close(drain=True) keeps its word for everything queued before the call: when
\* it returns undisturbed, every handler subscribed all along has seen it all.
THEOREM DrainDeliversCorrect == Spec => []DrainDelivers
<1>1. Init => TypeOK /\ ControlInv /\ OrderInv /\ DeliveryInv
  BY InitType, InitControl, InitOrder, InitDelivery
<1>2. OrderInv => IdleEmpty
  BY DEF OrderInv
<1>3. TypeOK /\ ControlInv /\ OrderInv /\ DeliveryInv /\ [Next]_vars
        => (TypeOK /\ ControlInv /\ OrderInv /\ DeliveryInv)'
  BY <1>2, TypeStep, ControlStep, OrderStep, DeliveryStep
<1>4. DeliveryInv => DrainDelivers
  BY DEF DeliveryInv, DueAccepted, DueSeen, DrainDelivers, CleanlyClosed, Undisturbed
<1>5. QED BY <1>1, <1>3, <1>4, PTL DEF Spec
=============================================================================
