------------------------------ MODULE EventBus ------------------------------
(***************************************************************************)
(* AsyncEventBus (core/event_bus.py): the one channel between the agent    *)
(* loop and its observers.  Publisher tasks put events on a bounded        *)
(* asyncio.Queue, one worker task takes them off and calls every           *)
(* subscriber in turn, and the task that owns the bus closes it.           *)
(*                                                                         *)
(* A task is switched only where the code awaits, so one action stands for *)
(* everything a task does between two awaits.  The owner is the caller of  *)
(* runtime.run_agent_turn: when it is cancelled inside close() its finally *)
(* clause calls close() once more.                                         *)
(***************************************************************************)
EXTENDS Integers, Sequences, FiniteSets

CONSTANTS
    Publishers,    \* tasks that call publish()
    Subscribers,   \* handlers that may be subscribed
    Workers,       \* worker tasks that may be created; bounds the restarts
    NoOne,         \* no publisher and no worker
    MaxSize,       \* maxsize of the queue
    MaxEvents,     \* bound: publish() calls of each publisher
    MaxCloses      \* bound: close() calls of the owner

ASSUME NoOneAssumption == NoOne \notin Publishers \cup Workers
ASSUME BoundAssumption == MaxSize \in Nat \ {0} /\ MaxEvents \in [Publishers -> Nat] /\ MaxCloses \in Nat

VARIABLES
    queue,         \* self._queue
    unfinished,    \* the queue's count of items put and not yet task_done()
    finished,      \* the owner's pending join() has been signalled
    closed,        \* self._closed
    droppedCount,  \* self._dropped_count
    subs,          \* self._subscribers
    worker,        \* state of each worker task
    active,        \* self._worker
    current,       \* the event each worker is delivering
    todo,          \* the handlers of its snapshot it has still to call
    pub,           \* what each publisher is doing
    sent,          \* publish() calls each publisher has made
    owner,         \* where the owner is inside close()
    inHand,        \* the count that close() has read and reset but not yet queued
    closes,        \* close() calls so far
    \* history
    seen,          \* the events each handler has been called with
    accepted,      \* the numbers of each publisher's events that were queued
    due,           \* accepted, when the latest close() began
    drained,       \* the latest close() was a draining one
    steady,        \* handlers subscribed from the start and never removed
    lost,          \* events dropped on overflow and handler calls that failed
    reported,      \* sum of the counts of the EventDropped events queued
    cancelled,     \* close() was cancelled at some time
    died           \* a worker task was cancelled at some time

tasks == <<worker, active, current, todo>>
history == <<seen, accepted, due, drained, steady, lost, reported, cancelled, died>>
vars == <<queue, unfinished, finished, closed, droppedCount, subs, worker,
          active, current, todo, pub, sent, owner, inHand, closes, history>>

-----------------------------------------------------------------------------
Item == [type : {"event", "dropped", "stop"}, by : Publishers \cup {NoOne}, n : Nat]

EventOf(p, i) == [type |-> "event", by |-> p, n |-> i]
EventDropped(k) == [type |-> "dropped", by |-> NoOne, n |-> k]
Stop == [type |-> "stop", by |-> NoOne, n |-> 0]

Full == Len(queue) >= MaxSize

WorkerLive == {w \in Workers : worker[w] \in {"idle", "busy"}}
Joining == owner \in {"join", "joinReport"}
Closing == owner \in {"join", "putReport", "joinReport", "putStop", "awaitWorker"}

\* asyncio.Queue.put once there is room.
Enqueue(e) ==
    /\ queue' = Append(queue, e)
    /\ unfinished' = unfinished + 1

\* Mutant: the count is compared before it is decreased.
TaskDoneTooLate ==
    /\ unfinished' = unfinished - 1
    /\ finished' = (finished \/ (unfinished = 0 /\ Joining))

\* asyncio.Queue.task_done: the last one wakes whoever waits in join().
TaskDone ==
    /\ unfinished' = unfinished - 1
    /\ finished' = (finished \/ (unfinished = 1 /\ Joining))

\* Mutant: every publish() starts a worker.
StartsAnotherWorker ==
    \E w \in Workers :
        /\ worker[w] = "unborn"
        /\ active' = w
        /\ worker' = [worker EXCEPT ![w] = "idle"]

\* _ensure_worker: a new worker only when there is none or it has ended.
EnsureWorker ==
    IF active = NoOne \/ worker[active] = "done"
    THEN \E w \in Workers :
            /\ worker[w] = "unborn"
            /\ active' = w
            /\ worker' = [worker EXCEPT ![w] = "idle"]
    ELSE UNCHANGED <<active, worker>>

-----------------------------------------------------------------------------
Init ==
    /\ queue = <<>> /\ unfinished = 0 /\ finished = FALSE
    /\ closed = FALSE /\ droppedCount = 0
    /\ subs = Subscribers   \* run_agent_turn subscribes before anything is published
    /\ worker = [w \in Workers |-> "unborn"] /\ active = NoOne
    /\ current = [w \in Workers |-> Stop]
    /\ todo = [w \in Workers |-> {}]
    /\ pub = [p \in Publishers |-> "ready"]
    /\ sent = [p \in Publishers |-> 0]
    /\ owner = "open" /\ inHand = 0 /\ closes = 0
    /\ seen = [s \in Subscribers |-> <<>>]
    /\ accepted = [p \in Publishers |-> {}]
    /\ due = [p \in Publishers |-> {}] /\ drained = FALSE
    /\ steady = subs
    /\ lost = 0 /\ reported = 0 /\ cancelled = FALSE /\ died = FALSE

-----------------------------------------------------------------------------
Subscribe(s) ==
    /\ s \notin subs
    /\ subs' = subs \cup {s}
    /\ UNCHANGED <<queue, unfinished, finished, closed, droppedCount, tasks,
                   pub, sent, owner, inHand, closes, history>>

Unsubscribe(s) ==
    /\ s \in subs
    /\ subs' = subs \ {s}
    /\ steady' = steady \ {s}
    /\ UNCHANGED <<queue, unfinished, finished, closed, droppedCount, tasks,
                   pub, sent, owner, inHand, closes, seen, accepted, due, drained,
                   lost, reported, cancelled, died>>

\* publish() up to its first await: refuse, drop, queue, or wait for room.
Publish(p, visible) ==
    /\ pub[p] = "ready" /\ sent[p] < MaxEvents[p]
    /\ ~closed
    /\ EnsureWorker
    /\ sent' = [sent EXCEPT ![p] = @ + 1]
    /\ \/ /\ Full /\ ~visible
          /\ droppedCount' = droppedCount + 1
          /\ lost' = lost + 1
          /\ UNCHANGED <<queue, unfinished, pub, accepted>>
       \/ /\ Full /\ visible
          /\ pub' = [pub EXCEPT ![p] = "blocked"]
          /\ UNCHANGED <<queue, unfinished, droppedCount, lost, accepted>>
       \/ /\ ~Full
          /\ Enqueue(EventOf(p, sent[p] + 1))
          /\ accepted' = [accepted EXCEPT ![p] = @ \cup {sent[p] + 1}]
          /\ UNCHANGED <<pub, droppedCount, lost>>
    /\ UNCHANGED <<finished, closed, subs, current, todo, owner, inHand, closes,
                   seen, due, drained, steady, reported, cancelled, died>>

PublishRefused(p) ==
    /\ pub[p] = "ready" /\ sent[p] < MaxEvents[p]
    /\ closed
    /\ sent' = [sent EXCEPT ![p] = @ + 1]
    /\ UNCHANGED <<queue, unfinished, finished, closed, droppedCount, subs,
                   tasks, pub, owner, inHand, closes, history>>

\* A put() that waited resumes; nothing looks at _closed again.
PutResumes(p) ==
    /\ pub[p] = "blocked" /\ ~Full
    /\ Enqueue(EventOf(p, sent[p]))
    /\ pub' = [pub EXCEPT ![p] = "ready"]
    /\ accepted' = [accepted EXCEPT ![p] = @ \cup {sent[p]}]
    /\ UNCHANGED <<finished, closed, droppedCount, subs, tasks, sent, owner,
                   inHand, closes, seen, due, drained, steady, lost, reported,
                   cancelled, died>>

-----------------------------------------------------------------------------
\* _run takes the head of the queue; _deliver snapshots the subscribers.
WorkerTakes(w) ==
    /\ worker[w] = "idle" /\ queue # <<>>
    /\ Head(queue).type # "stop"
    /\ queue' = Tail(queue)
    /\ worker' = [worker EXCEPT ![w] = "busy"]
    /\ current' = [current EXCEPT ![w] = Head(queue)]
    /\ todo' = [todo EXCEPT ![w] = subs]
    /\ UNCHANGED <<unfinished, finished, closed, droppedCount, subs, active,
                   pub, sent, owner, inHand, closes, history>>

WorkerStops(w) ==
    /\ worker[w] = "idle" /\ queue # <<>>
    /\ Head(queue).type = "stop"
    /\ queue' = Tail(queue)
    /\ TaskDone
    /\ worker' = [worker EXCEPT ![w] = "done"]
    /\ UNCHANGED <<closed, droppedCount, subs, active, current, todo,
                   pub, sent, owner, inHand, closes, history>>

\* One handler of the snapshot is called; its exception only counts.
Deliver(w, s, fails) ==
    /\ worker[w] = "busy" /\ s \in todo[w]
    /\ seen' = [seen EXCEPT ![s] = Append(@, current[w])]
    /\ todo' = [todo EXCEPT ![w] = @ \ {s}]
    /\ IF fails
       THEN droppedCount' = droppedCount + 1 /\ lost' = lost + 1
       ELSE UNCHANGED <<droppedCount, lost>>
    /\ UNCHANGED <<queue, unfinished, finished, closed, subs, worker, active,
                   current, pub, sent, owner, inHand, closes, accepted, due, drained,
                   steady, reported, cancelled, died>>

WorkerFinishes(w) ==
    /\ worker[w] = "busy" /\ todo[w] = {}
    /\ TaskDone
    /\ worker' = [worker EXCEPT ![w] = "idle"]
    /\ current' = [current EXCEPT ![w] = Stop]
    /\ UNCHANGED <<queue, closed, droppedCount, subs, active, todo,
                   pub, sent, owner, inHand, closes, history>>

\* CancelledError inside a handler is no Exception: it ends the worker, whose
\* finally clause still marks the item done.
WorkerDies(w) ==
    /\ worker[w] \in {"idle", "busy"}
    /\ worker' = [worker EXCEPT ![w] = "done"]
    /\ current' = [current EXCEPT ![w] = Stop]
    /\ todo' = [todo EXCEPT ![w] = {}]
    /\ died' = TRUE
    /\ IF worker[w] = "busy" THEN TaskDone ELSE UNCHANGED <<unfinished, finished>>
    /\ UNCHANGED <<queue, closed, droppedCount, subs, active, pub,
                   sent, owner, inHand, closes, seen, accepted, due, drained, steady,
                   lost, reported, cancelled>>

-----------------------------------------------------------------------------
\* The end of close(): set _closed, put the stop mark, wait for the worker.
Seal(q, u) ==
    /\ closed' = TRUE
    /\ IF Len(q) >= MaxSize
       THEN /\ owner' = "putStop"
            /\ queue' = q /\ unfinished' = u
       ELSE /\ queue' = Append(q, Stop) /\ unfinished' = u + 1
            /\ owner' = IF active = NoOne THEN "returned" ELSE "awaitWorker"

\* After the first join(): report what was dropped, or seal at once.
ReportOrSeal ==
    IF droppedCount > 0
    THEN /\ droppedCount' = 0
         /\ UNCHANGED closed
         /\ IF Full
            THEN /\ owner' = "putReport"
                 /\ inHand' = droppedCount
                 /\ UNCHANGED <<queue, unfinished, reported>>
            ELSE /\ owner' = "joinReport"
                 /\ Enqueue(EventDropped(droppedCount))
                 /\ reported' = reported + droppedCount
                 /\ UNCHANGED inHand
    ELSE /\ Seal(queue, unfinished)
         /\ UNCHANGED <<droppedCount, inHand, reported>>

\* Mutant: the two sides of `if drain` are swapped.
CloseDrainsNothing ==
    /\ owner = "open" /\ closes < MaxCloses /\ ~closed
    /\ closes' = closes + 1
    /\ due' = accepted /\ drained' = TRUE
    /\ finished' = FALSE
    /\ Seal(<<>>, unfinished - Len(queue))
    /\ UNCHANGED <<droppedCount, subs, tasks, pub, sent, inHand, seen,
                   accepted, steady, lost, reported, cancelled, died>>

CloseDrains ==
    /\ owner = "open" /\ closes < MaxCloses /\ ~closed
    /\ closes' = closes + 1
    /\ due' = accepted /\ drained' = TRUE
    /\ finished' = FALSE
    /\ IF unfinished = 0
       THEN ReportOrSeal
       ELSE /\ owner' = "join"
            /\ UNCHANGED <<queue, unfinished, closed, droppedCount, inHand, reported>>
    /\ UNCHANGED <<subs, tasks, pub, sent, seen, accepted, steady, lost,
                   cancelled, died>>

\* close(drain=False) throws the queue away first (_clear_queue).
CloseDiscards ==
    /\ owner = "open" /\ closes < MaxCloses /\ ~closed
    /\ closes' = closes + 1
    /\ due' = accepted /\ drained' = FALSE
    /\ finished' = FALSE
    /\ Seal(<<>>, unfinished - Len(queue))
    /\ UNCHANGED <<droppedCount, subs, tasks, pub, sent, inHand, seen,
                   accepted, steady, lost, reported, cancelled, died>>

CloseAgain ==
    /\ owner = "open" /\ closes < MaxCloses /\ closed
    /\ closes' = closes + 1
    /\ owner' = "returned"
    /\ UNCHANGED <<queue, unfinished, finished, closed, droppedCount, subs,
                   tasks, pub, sent, inHand, history>>

JoinReturns ==
    /\ owner = "join" /\ finished
    /\ finished' = FALSE
    /\ ReportOrSeal
    /\ UNCHANGED <<subs, tasks, pub, sent, closes, seen, accepted, due, drained,
                   steady, lost, cancelled, died>>

\* Mutant: the count is reset once the report has been queued.
ResetAfterPut ==
    /\ owner = "putReport" /\ ~Full
    /\ owner' = "joinReport"
    /\ Enqueue(EventDropped(inHand))
    /\ reported' = reported + inHand
    /\ inHand' = 0 /\ droppedCount' = 0
    /\ UNCHANGED <<finished, closed, subs, tasks, pub, sent,
                   closes, seen, accepted, due, drained, steady, lost, cancelled, died>>

PutReport ==
    /\ owner = "putReport" /\ ~Full
    /\ owner' = "joinReport"
    /\ Enqueue(EventDropped(inHand))
    /\ reported' = reported + inHand
    /\ inHand' = 0
    /\ UNCHANGED <<finished, closed, droppedCount, subs, tasks, pub, sent,
                   closes, seen, accepted, due, drained, steady, lost, cancelled, died>>

JoinReportReturns ==
    /\ owner = "joinReport" /\ finished
    /\ finished' = FALSE
    /\ Seal(queue, unfinished)
    /\ UNCHANGED <<droppedCount, subs, tasks, pub, sent, inHand, closes, history>>

PutStop ==
    /\ owner = "putStop" /\ ~Full
    /\ Enqueue(Stop)
    /\ owner' = IF active = NoOne THEN "returned" ELSE "awaitWorker"
    /\ UNCHANGED <<finished, closed, droppedCount, subs, tasks, pub, sent,
                   inHand, closes, history>>

\* Mutant: close() does not await the worker.
CloseReturnsAtOnce ==
    /\ owner = "awaitWorker"
    /\ owner' = "returned"
    /\ UNCHANGED <<queue, unfinished, finished, closed, droppedCount, subs,
                   tasks, pub, sent, inHand, closes, history>>

CloseReturns ==
    /\ owner = "awaitWorker" /\ worker[active] = "done"
    /\ owner' = "returned"
    /\ UNCHANGED <<queue, unfinished, finished, closed, droppedCount, subs,
                   tasks, pub, sent, inHand, closes, history>>

\* The owner is cancelled at one of the awaits of close().  Cancelling a task
\* that awaits another one cancels that one: in "awaitWorker" the worker dies.
CancelClose ==
    /\ Closing
    /\ owner' = "open" /\ inHand' = 0 /\ finished' = FALSE
    /\ cancelled' = TRUE
    /\ IF owner = "awaitWorker" /\ worker[active] # "done"
       THEN /\ worker' = [worker EXCEPT ![active] = "done"]
            /\ current' = [current EXCEPT ![active] = Stop]
            /\ todo' = [todo EXCEPT ![active] = {}]
            /\ unfinished' = IF worker[active] = "busy" THEN unfinished - 1
                                                      ELSE unfinished
       ELSE UNCHANGED <<worker, current, todo, unfinished>>
    /\ UNCHANGED <<queue, closed, droppedCount, subs, active, pub,
                   sent, closes, seen, accepted, due, drained, steady, lost,
                   reported, died>>

-----------------------------------------------------------------------------
PublisherStep(p) ==
    \/ \E visible \in BOOLEAN : Publish(p, visible)
    \/ PublishRefused(p)
    \/ PutResumes(p)

WorkerStep(w) ==
    \/ WorkerTakes(w)
    \/ WorkerStops(w)
    \/ \E s \in Subscribers, fails \in BOOLEAN : Deliver(w, s, fails)
    \/ WorkerFinishes(w)

CloseStep ==
    \/ JoinReturns
    \/ PutReport
    \/ JoinReportReturns
    \/ PutStop
    \/ CloseReturns

Next ==
    \/ \E s \in Subscribers : Subscribe(s) \/ Unsubscribe(s)
    \/ \E p \in Publishers : PublisherStep(p)
    \/ \E w \in Workers : WorkerStep(w) \/ WorkerDies(w)
    \/ CloseDrains
    \/ CloseDiscards
    \/ CloseAgain
    \/ CloseStep
    \/ CancelClose

Spec == Init /\ [][Next]_vars

\* The event loop runs every task that is ready, and handlers return: the
\* worker, an owner inside close() and a put() that has room are never starved.
\* Nobody is obliged to publish, subscribe, close, cancel or die.
Fairness ==
    /\ \A w \in Workers : WF_vars(WorkerStep(w))
    /\ \A p \in Publishers : WF_vars(PutResumes(p))
    /\ WF_vars(CloseStep)

FairSpec == Spec /\ Fairness

-----------------------------------------------------------------------------
TypeOK ==
    /\ queue \in Seq(Item) /\ unfinished \in Int /\ finished \in BOOLEAN
    /\ closed \in BOOLEAN /\ droppedCount \in Nat
    /\ subs \in SUBSET Subscribers
    /\ worker \in [Workers -> {"unborn", "idle", "busy", "done"}]
    /\ active \in Workers \cup {NoOne}
    /\ current \in [Workers -> Item]
    /\ todo \in [Workers -> SUBSET Subscribers]
    /\ pub \in [Publishers -> {"ready", "blocked"}]
    /\ sent \in [Publishers -> Nat]
    /\ owner \in {"open", "join", "putReport", "joinReport", "putStop",
                  "awaitWorker", "returned"}
    /\ inHand \in Nat /\ closes \in Nat
    /\ seen \in [Subscribers -> Seq(Item)]
    /\ accepted \in [Publishers -> SUBSET Nat]
    /\ due \in [Publishers -> SUBSET Nat] /\ drained \in BOOLEAN
    /\ steady \in SUBSET Subscribers
    /\ lost \in Nat /\ reported \in Nat
    /\ cancelled \in BOOLEAN /\ died \in BOOLEAN

\* "preserves publish order within a process": no handler is ever called with
\* two events of one publisher in the wrong order, or twice with one, whatever
\* workers die and are replaced while publishers wait for room.
InOrder ==
    \A s \in Subscribers : \A i, j \in 1..Len(seen[s]) :
        i < j /\ seen[s][i].type = "event" /\ seen[s][j].type = "event"
              /\ seen[s][i].by = seen[s][j].by
            => seen[s][i].n < seen[s][j].n

\* Every event dropped on overflow and every failed handler call is still
\* counted or has been queued in an EventDropped report, however drops happen
\* while close() reads, resets and reports the count.
DropsAccounted == ~cancelled => lost = droppedCount + inHand + reported

WasSeen(s, p, i) == \E k \in 1..Len(seen[s]) : seen[s][k] = EventOf(p, i)

CleanlyClosed == owner = "returned" /\ ~cancelled /\ ~died

\* Once close(drain=True) has returned, every handler that was subscribed all
\* along has been called with every event queued before close() was called.
DrainDelivers ==
    CleanlyClosed /\ drained =>
        \A s \in steady, p \in Publishers : \A i \in due[p] : WasSeen(s, p, i)

\* When close() has returned the worker task has ended and no later publish()
\* starts another, so no handler runs behind the back of the owner.
CloseStopsWorker == owner = "returned" /\ ~cancelled => WorkerLive = {}

\* close() returns unless it is cancelled or a worker died: it never waits for
\* a join() or a put() that nobody will release.
CloseTerminates == Closing ~> (~Closing \/ died)

\* plan/03: close(drain=True) handles the remaining events before it ends, and
\* only low-priority events are dropped.  Not so for a put() waiting for room
\* when close() queues the stop mark: it lands behind the mark.
NoEventOutlivesClose ==
    CleanlyClosed /\ drained =>
        \A s \in steady, p \in Publishers : \A i \in accepted[p] : WasSeen(s, p, i)
=============================================================================
