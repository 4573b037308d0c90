------------------------------ MODULE SocTime ------------------------------
(***************************************************************************)
(* The clocks of the PXA system on a chip as socRun drives them: the CPU    *)
(* runs or sleeps up to the next update, the scheduler advances and         *)
(* dispatches what is due (socPXA.cpp). While the CPU sleeps the ticks of   *)
(* the OS timer (pxa_TIMR.c) are batched up to its next interrupt, and      *)
(* whatever interrupt comes first cuts the batch short from within a        *)
(* dispatch. Three tasks stand for all: the timer, PCM output, which the    *)
(* user suspends and resumes, and the DMA and serial task, which runs on    *)
(* demand.                                                                  *)
(***************************************************************************)
EXTENDS Scheduler

CONSTANTS
    TimerPeriod, AuxPeriod,     \* periods of the timer and of the on-demand task
    PcmPeriods,                 \* period of PCM with output disabled and enabled
    TimerWrap,                  \* 2^32, the range of the timer's counter
    Overshoot,                  \* time by which a round of socRun may miss the next update: the
                                \* cycle that CyclesToNextUpdate rounds up, which at 1 MIPS is
                                \* longer than a period of the timer, and the last instruction
    MaxTime                     \* bound: the time up to which the machine runs

ASSUME SocTimeAssumption ==
    /\ MaxTask = 2 /\ {TimerPeriod, AuxPeriod} \subseteq Nat \ {0}
    /\ PcmPeriods \in [BOOLEAN -> Nat \ {0}]
    /\ TimerWrap \in Nat /\ TimerWrap > 1
    /\ Overshoot \in Nat \ {0}
    /\ MaxTime \in Nat /\ MaxTime + TimerWrap * TimerPeriod < Wrap
    /\ MaxTime + AuxPeriod < Wrap /\ \A b \in BOOLEAN : MaxTime + PcmPeriods[b] < Wrap

TIMER == 0
PCM == 1
AUX == 2

VARIABLES
    s,             \* the scheduler
    advancing,     \* the loop of Scheduler::Advance is under way
    sleeping,      \* soc->sleeping
    pcmSuspended,  \* soc->pcmSuspended
    pcmOutput,     \* soc->enablePcmOutput
    oscr, osmr,    \* timer: counter and match register
    oier, ossr,    \* timer: interrupt enabled, interrupt pending
    ticks          \* history: ticks that the timer has been given

timer == <<oscr, osmr, oier, ossr>>
vars == <<s, advancing, sleeping, pcmSuspended, pcmOutput, oscr, osmr, oier, ossr, ticks>>

Times == 0 .. Wrap - 1
Counts == 0 .. TimerWrap - 1

TypeOK ==
    /\ s.accTime \in 0 .. MaxTime /\ s.nextUpdate \in Times
    /\ s.tasks \in [TaskTypes -> [period : Nat, lastUpdate : Times, nextUpdate : Times, batchedTicks : Counts]]
    /\ s.queue \in [{Front} \cup TaskTypes -> TaskTypes \cup {NoTask}]
    /\ {advancing, sleeping, pcmSuspended, pcmOutput, oier, ossr} \subseteq BOOLEAN
    /\ oscr \in Counts /\ osmr \in Counts /\ ticks \in Nat

\* socSetupScheduler.
Setup ==
    ScheduleTask(ScheduleTask(ScheduleTask(New, TIMER, TimerPeriod, 1), AUX, AuxPeriod, 1),
                 PCM, PcmPeriods[FALSE], 1)

Init ==
    /\ s = Setup /\ advancing = FALSE /\ sleeping = FALSE
    /\ pcmSuspended = FALSE /\ pcmOutput = FALSE
    /\ oscr = 0 /\ osmr = 0 /\ oier = FALSE /\ ossr = FALSE /\ ticks = 0

-----------------------------------------------------------------------------
(***************************************************************************)
(* pxa_TIMR.c, with one of the four match registers                        *)
(***************************************************************************)

\* Fault: a pending match is ignored, and one that lies ahead is taken a tick late.
LateTicksToNextInterrupt(counter, match, enabled, pending) ==
    IF ~enabled THEN TimerWrap - 1
    ELSE LET delta == (match - counter) % TimerWrap
         IN  IF delta = 0 \/ delta = TimerWrap - 1 THEN TimerWrap - 1 ELSE delta + 1

\* pxaTimrTicksToNextInterrupt.
TicksToNextInterrupt(counter, match, enabled, pending) ==
    IF ~enabled THEN TimerWrap - 1
    ELSE IF pending THEN 1
    ELSE LET delta == (match - counter) % TimerWrap
         IN  IF delta = 0 THEN TimerWrap - 1 ELSE delta

\* Does a batch of n ticks from the given counter reach the match? A single tick is
\* compared after it, a batch also before it.
Matches(counter, match, n) ==
    IF n = 1 THEN (counter + 1) % TimerWrap = match
    ELSE n >= (match - counter) % TimerWrap

\* A write to a register of the timer by the running CPU. The match is compared anew,
\* except after a write to the counter.
WriteTimer ==
    /\ ~advancing /\ ~sleeping
    /\ \/ /\ osmr' \in Counts /\ UNCHANGED <<oscr, oier>>
          /\ ossr' = (ossr \/ (oier /\ oscr = osmr'))
       \/ /\ oier' \in BOOLEAN /\ UNCHANGED <<oscr, osmr>>
          /\ ossr' = (ossr \/ (oier' /\ oscr = osmr))
       \/ /\ ossr' = (oier /\ oscr = osmr) /\ UNCHANGED <<oscr, osmr, oier>>
       \/ /\ oscr' \in Counts /\ UNCHANGED <<osmr, oier, ossr>>
    /\ UNCHANGED <<s, advancing, sleeping, pcmSuspended, pcmOutput, ticks>>

-----------------------------------------------------------------------------
(***************************************************************************)
(* socPXA.cpp                                                              *)
(***************************************************************************)

\* Bound: a batch of the timer is handled before its ticks overflow 32 bits.
BatchFits(time) == time < s.tasks[TIMER].lastUpdate + TimerWrap * TimerPeriod

\* One round of socRun. The CPU runs or sleeps up to the next update; the last
\* instruction may take longer, and the time slice may end sooner.
Advance ==
    /\ ~advancing
    /\ \E time \in 1 .. ((s.nextUpdate - s.accTime) % Wrap) + Overshoot :
         /\ s.accTime + time <= MaxTime /\ BatchFits(s.accTime + time)
         /\ s' = [s EXCEPT !.accTime = @ + time]
         /\ advancing' = (s.accTime + time >= s.nextUpdate)
    /\ UNCHANGED <<sleeping, pcmSuspended, pcmOutput, timer, ticks>>

\* Fault: the timer goes on ticking one by one after a wakeup and forgets the ticks
\* of the batch that was cut short.
ForgetfulWakeup(sch) ==
    IF sleeping THEN RescheduleTask(UnscheduleTask(sch, TIMER), TIMER, 1) ELSE sch

\* socWakeup: the ticks that have passed are delivered in one batch.
Wakeup(sch) == IF sleeping THEN RescheduleTaskAtLeast(sch, TIMER, 1) ELSE sch

\* The timer is due. A match raises the interrupt, which wakes the CPU unless it is
\* masked, while the dispatch is still under way.
DispatchTimer ==
    /\ advancing /\ DueTask(s) = TIMER
    /\ LET n    == s.tasks[TIMER].batchedTicks
           fire == oier /\ Matches(oscr, osmr, n)
       IN  /\ oscr' = (oscr + n) % TimerWrap /\ ticks' = ticks + n
           /\ ossr' = (ossr \/ fire)
           /\ \E wake \in (IF ossr' THEN BOOLEAN ELSE {FALSE}) :
                LET sch == IF wake THEN Wakeup(s) ELSE s
                IN  /\ sleeping' = (sleeping /\ ~wake)
                    /\ s' = Dispatched(sch, TIMER,
                              IF sleeping' THEN TicksToNextInterrupt(oscr', osmr, oier, ossr') ELSE 1)
    /\ UNCHANGED <<advancing, pcmSuspended, pcmOutput, osmr, oier>>

\* PCM is due. Pulling samples may raise interrupts.
DispatchPcm ==
    /\ advancing /\ DueTask(s) = PCM
    /\ \E wake \in BOOLEAN :
         /\ sleeping' = (sleeping /\ ~wake)
         /\ s' = Dispatched(IF wake THEN Wakeup(s) ELSE s, PCM, IF pcmSuspended /\ pcmOutput THEN 0 ELSE 1)
    /\ UNCHANGED <<advancing, pcmSuspended, pcmOutput, timer, ticks>>

\* The on-demand task is due. It may raise interrupts, ask for itself again while it
\* runs, and goes on as long as a device needs it.
DispatchAux ==
    /\ advancing /\ DueTask(s) = AUX
    /\ \E wake \in BOOLEAN, again \in BOOLEAN, required \in {0, 1} :
         LET sch == IF wake THEN Wakeup(s) ELSE s
         IN  /\ sleeping' = (sleeping /\ ~wake)
             /\ s' = Dispatched(IF again THEN RescheduleTask(sch, AUX, 1) ELSE sch, AUX, required)
    /\ UNCHANGED <<advancing, pcmSuspended, pcmOutput, timer, ticks>>

\* The loop of Advance ends.
AdvanceEnds ==
    /\ advancing /\ DueTask(s) = NoTask
    /\ s' = UpdateNextUpdate(s) /\ advancing' = FALSE
    /\ UNCHANGED <<sleeping, pcmSuspended, pcmOutput, timer, ticks>>

\* socSleep: an instruction puts the CPU to sleep.
Sleep ==
    /\ ~advancing /\ ~sleeping /\ sleeping' = TRUE
    /\ s' = RescheduleTaskAtLeast(s, TIMER, TicksToNextInterrupt(oscr, osmr, oier, ossr))
    /\ UNCHANGED <<advancing, pcmSuspended, pcmOutput, timer, ticks>>

\* socPrvReschedule: the CPU has given DMA or a serial port something to do.
Demand ==
    /\ ~advancing /\ ~sleeping
    /\ s' = RescheduleTask(s, AUX, 1)
    /\ UNCHANGED <<advancing, sleeping, pcmSuspended, pcmOutput, timer, ticks>>

\* socSetPcmSuspended, between two time slices.
SetPcmSuspended ==
    /\ ~advancing /\ pcmSuspended' = ~pcmSuspended
    /\ s' = IF pcmOutput THEN RescheduleTask(s, PCM, IF pcmSuspended' THEN 0 ELSE 1) ELSE s
    /\ UNCHANGED <<advancing, sleeping, pcmOutput, timer, ticks>>

\* socSetPcmOutputEnabled, between two time slices.
SetPcmOutputEnabled ==
    /\ ~advancing /\ pcmOutput' = ~pcmOutput
    /\ s' = ScheduleTask(s, PCM, PcmPeriods[pcmOutput'], IF pcmSuspended THEN 0 ELSE 1)
    /\ UNCHANGED <<advancing, sleeping, pcmSuspended, timer, ticks>>

Dispatch == DispatchTimer \/ DispatchPcm \/ DispatchAux \/ AdvanceEnds

Next ==
    \/ Advance \/ Dispatch
    \/ WriteTimer \/ Sleep \/ Demand \/ SetPcmSuspended \/ SetPcmOutputEnabled

Spec == Init /\ [][Next]_vars

-----------------------------------------------------------------------------
(***************************************************************************)
(* Properties                                                              *)
(***************************************************************************)

\* The links form a list of exactly the tasks that have a batch, each once, in the order
\* of their due times, whatever the delegate did to the list while it was being walked.
QueueSound == InOrder(s)

\* When the CPU loop asks for the cycles to the next update, that time lies ahead, so that
\* the unsigned difference in CyclesToNextUpdate cannot wrap, and nothing is due before it.
NextUpdateAhead ==
    ~advancing =>
        /\ s.nextUpdate > s.accTime
        /\ \A t \in TaskTypes : s.tasks[t].batchedTicks > 0 => s.tasks[t].nextUpdate >= s.nextUpdate

\* The last update of the timer moves by the ticks that it is given.
TicksKept ==
    s'.tasks[TIMER].lastUpdate = s.tasks[TIMER].lastUpdate + (ticks' - ticks) * TimerPeriod

\* The timer is a tick or more behind when its own interrupt wakes the CPU: socWakeup
\* enlarges the batch that is being handled, and Advance counts ticks that were not given.
LateWakeup ==
    /\ sleeping /\ ~sleeping' /\ ticks' > ticks
    /\ s.accTime >= s.tasks[TIMER].nextUpdate + TimerPeriod
    /\ s.accTime - s'.tasks[TIMER].lastUpdate \in 0 .. TimerPeriod - 1

\* The timer is given every tick once, through sleep, batches and wakeups in the middle of
\* a dispatch. It loses ticks in one case only, that its own interrupt wakes the CPU while
\* it is a tick or more behind: the ticks up to the present, and no others.
TimerKeepsTime == [][TicksKept \/ LateWakeup]_vars

\* A sleeping CPU does not sleep through a match of the timer: the batch under way ends
\* no later than the tick at which the counter reaches it.
NoMatchSleptThrough ==
    (sleeping /\ oier) =>
        LET delta == (osmr - oscr) % TimerWrap
        IN  s.tasks[TIMER].batchedTicks <=
              IF ossr THEN 1 ELSE IF delta = 0 THEN TimerWrap ELSE delta

\* A task that is scheduled again after it was unscheduled continues from its last
\* theoretic tick: the new ticks lie on the grid of the old ones.
ContinuesFromLastTick ==
    [][(/\ s.tasks[PCM].batchedTicks = 0 /\ s'.tasks[PCM].batchedTicks > 0
        /\ pcmOutput' = pcmOutput)
       => (s'.tasks[PCM].nextUpdate - s.tasks[PCM].nextUpdate) % s.tasks[PCM].period = 0]_vars
=============================================================================
