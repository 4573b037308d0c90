----------------------------- MODULE Scheduler -----------------------------
(***************************************************************************)
(* The scheduler of uARM's device clocks (scheduler.h). A scheduler is a     *)
(* record s of the fields of class Scheduler:                               *)
(*   accTime     the time of the machine                                    *)
(*   nextUpdate  the time up to which nothing is due, kept for the CPU loop *)
(*   tasks       period, lastUpdate, nextUpdate and batchedTicks of a task  *)
(*   queue       the links of the list of scheduled tasks; queue[-1] is its *)
(*               head, and a link above MaxTask ends it                     *)
(* The methods are operators that map one record to the next. Times are     *)
(* unsigned and wrap around at Wrap.                                        *)
(***************************************************************************)
EXTENDS Integers

CONSTANTS
    MaxTask,   \* SCHEDULER_TASK_MAX
    Wrap,      \* 2^64
    Second     \* 1_sec

ASSUME SchedulerAssumption ==
    /\ MaxTask \in Nat /\ MaxTask < 255
    /\ Wrap \in Nat \ {0} /\ Second \in 1 .. Wrap - 1

TaskTypes == 0 .. MaxTask
NoTask == 255
Front == -1

New ==
    [accTime |-> 0, nextUpdate |-> Second,
     tasks |-> [t \in TaskTypes |-> [period |-> 0, lastUpdate |-> 0, nextUpdate |-> 0, batchedTicks |-> 0]],
     queue |-> [i \in {Front} \cup TaskTypes |-> NoTask]]

UpdateNextUpdate(s) ==
    [s EXCEPT !.nextUpdate = IF s.queue[Front] <= MaxTask THEN s.tasks[s.queue[Front]].nextUpdate
                             ELSE (s.accTime + Second) % Wrap]

-----------------------------------------------------------------------------
\* A loop along the links: the links, the link to be read next, and what has been done.
LoopStart(q) == [queue |-> q, idx |-> Front, inserted |-> FALSE, deleted |-> FALSE, done |-> FALSE]

\* One iteration of the loop of RescheduleTaskImpl. Task t is unlinked where it is found
\* and linked in before the first task that is due later. rest is the link that t had
\* before the loop.
WalkStep(tasks, t, rest, w) ==
    LET found == w.queue[w.idx] = t
        q1    == IF found THEN [w.queue EXCEPT ![w.idx] = rest] ELSE w.queue
        next  == q1[w.idx]
        here  == ~w.inserted /\ (next > MaxTask \/ tasks[next].nextUpdate > tasks[t].nextUpdate)
        q2    == IF here THEN [q1 EXCEPT ![w.idx] = t, ![t] = next] ELSE q1
        ends  == next > MaxTask \/ ((w.inserted \/ here) /\ (w.deleted \/ found))
    IN  IF w.done THEN w
        ELSE [queue |-> q2, idx |-> IF ends THEN w.idx ELSE next,
              inserted |-> w.inserted \/ here, deleted |-> w.deleted \/ found, done |-> ends]

\* The loop reads each link once at most, so that MaxTask + 2 iterations are enough.
Walk(tasks, t, start) ==
    LET loop[n \in 0 .. MaxTask + 2] ==
          IF n = 0 THEN start ELSE WalkStep(tasks, t, start.queue[t], loop[n - 1])
    IN  loop[MaxTask + 2].queue

\* Fault: the walk ends as soon as the task is linked in.
EagerEnqueued(s, t) ==
    [s EXCEPT !.queue = Walk(s.tasks, t, [LoopStart(s.queue) EXCEPT !.deleted = TRUE])]

Enqueued(s, t) == [s EXCEPT !.queue = Walk(s.tasks, t, LoopStart(s.queue))]

\* One iteration of the loop of UnscheduleTask, and the loop.
UnlinkStep(t, w) ==
    LET next == w.queue[w.idx]
    IN  IF w.done THEN w
        ELSE IF next = t THEN [w EXCEPT !.queue[w.idx] = w.queue[t], !.done = TRUE]
        ELSE IF next > MaxTask THEN [w EXCEPT !.done = TRUE]
        ELSE [w EXCEPT !.idx = next]

Unlink(t, start) ==
    LET loop[n \in 0 .. MaxTask + 2] == IF n = 0 THEN start ELSE UnlinkStep(t, loop[n - 1])
    IN  loop[MaxTask + 2].queue

UnscheduleTask(s, t) ==
    UpdateNextUpdate([s EXCEPT !.tasks[t].batchedTicks = 0, !.queue = Unlink(t, LoopStart(@))])

\* Ticks that passed since the last update.
Accumulated(s, t) == ((s.accTime - s.tasks[t].lastUpdate) % Wrap) \div s.tasks[t].period

\* Fault: a task that was not scheduled continues where it was left.
StaleLastTick(s, t) == s.tasks[t].lastUpdate

\* The time of the last tick: for a task that was not scheduled, the tick before now on
\* the grid of its last due time.
LastTick(s, t) ==
    LET k == s.tasks[t]
    IN  IF k.batchedTicks = 0
        THEN ((((s.accTime - k.nextUpdate) % Wrap) \div k.period) * k.period + k.nextUpdate) % Wrap
        ELSE k.lastUpdate

\* RescheduleTaskImpl. A batch of 0 ticks unschedules the task; atLeast enlarges the
\* batch to all ticks that have passed.
Reschedule(s, t, batchTicks, atLeast) ==
    IF batchTicks = 0 THEN UnscheduleTask(s, t)
    ELSE LET batch == IF atLeast /\ Accumulated(s, t) > batchTicks THEN Accumulated(s, t) ELSE batchTicks
             last  == LastTick(s, t)
             k     == [s.tasks[t] EXCEPT !.batchedTicks = batch, !.lastUpdate = last,
                         !.nextUpdate = (last + batch * s.tasks[t].period) % Wrap]
         IN  UpdateNextUpdate(Enqueued([s EXCEPT !.tasks[t] = k], t))

RescheduleTask(s, t, batchTicks) == Reschedule(s, t, batchTicks, FALSE)
RescheduleTaskAtLeast(s, t, batchTicks) == Reschedule(s, t, batchTicks, TRUE)

ScheduleTask(s, t, period, batchTicks) ==
    RescheduleTask([s EXCEPT !.tasks[t].period = period, !.tasks[t].lastUpdate = s.accTime,
                             !.tasks[t].batchedTicks = 0], t, batchTicks)

\* The end of an iteration of Advance: the delegate has handled the batch and asks for
\* another one of batchTicks. The scheduler s is the one that the delegate left behind.
Dispatched(s, t, batchTicks) ==
    RescheduleTask([s EXCEPT !.tasks[t].lastUpdate =
                        (@ + s.tasks[t].batchedTicks * s.tasks[t].period) % Wrap], t, batchTicks)

\* The task that Advance dispatches next, or NoTask.
DueTask(s) ==
    LET t == s.queue[Front]
    IN  IF t <= MaxTask /\ s.tasks[t].nextUpdate <= s.accTime THEN t ELSE NoTask

-----------------------------------------------------------------------------
\* The links lead from the front through the n tasks of list.
Node(list, i) == IF i = 0 THEN Front ELSE list[i]
After(list, n, i) == IF i = n THEN NoTask ELSE list[i + 1]
Leads(queue, list, n) == \A i \in 0 .. n : queue[Node(list, i)] = After(list, n, i)

\* The links form a list of exactly the tasks that have a batch, each once, in the order
\* of their due times.
InOrder(s) ==
    \E n \in 0 .. MaxTask + 1 : \E list \in [1 .. n -> TaskTypes] :
        /\ Leads(s.queue, list, n)
        /\ \A t \in TaskTypes :
             s.tasks[t].batchedTicks > 0 <=> \E i \in 1 .. n : list[i] = t
        /\ \A i, j \in 1 .. n : i < j =>
             list[i] # list[j] /\ s.tasks[list[i]].nextUpdate <= s.tasks[list[j]].nextUpdate
=============================================================================
