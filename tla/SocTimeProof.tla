----------------------------- MODULE SocTimeProof -----------------------------
(***************************************************************************)
(* Theorems about SocTime, for any periods, any range of the timer's       *)
(* counter and any time up to which the machine runs.                      *)
(***************************************************************************)
EXTENDS SocTime, SchedulerProof

-----------------------------------------------------------------------------
(***************************************************************************)
(* The inductive invariant.                                                *)
(***************************************************************************)

\* The batch of the timer starts at its last update, which has passed. Its ticks do not
\* overflow, and it ends less than a tick ago or ahead if no round misses it by more.
TimerOK(sch) ==
    LET k == sch.tasks[TIMER]
    IN  /\ k.period = TimerPeriod /\ k.batchedTicks \in 1 .. TimerWrap - 1
        /\ k.lastUpdate + k.batchedTicks * TimerPeriod = k.nextUpdate
        /\ k.lastUpdate <= sch.accTime /\ sch.accTime < k.lastUpdate + TimerWrap * TimerPeriod
        /\ Overshoot < TimerPeriod => sch.accTime < k.nextUpdate + TimerPeriod

\* The other tasks are never batched.
OneTick(sch, t, period) ==
    /\ sch.tasks[t].period = period /\ sch.tasks[t].batchedTicks \in {0, 1}
    /\ sch.tasks[t].batchedTicks = 1 =>
         sch.tasks[t].nextUpdate = (sch.tasks[t].lastUpdate + period) % Wrap

SchedulerOK(sch, pcmPeriod) ==
    /\ sch \in Schedulers /\ sch.accTime <= MaxTime /\ InOrder(sch) /\ HeadKnown(sch)
    /\ TimerOK(sch) /\ OneTick(sch, AUX, AuxPeriod) /\ OneTick(sch, PCM, pcmPeriod)

\* Nothing is due.
Ahead(sch) ==
    \A t \in TaskTypes : sch.tasks[t].batchedTicks > 0 => sch.tasks[t].nextUpdate > sch.accTime

\* The timer ticks one by one, or the batch that a wakeup has cut short is due.
Single(sch) == sch.tasks[TIMER].batchedTicks = 1 \/ sch.tasks[TIMER].nextUpdate <= sch.accTime

Flags ==
    /\ advancing \in BOOLEAN /\ sleeping \in BOOLEAN /\ pcmSuspended \in BOOLEAN /\ pcmOutput \in BOOLEAN
    /\ oier \in BOOLEAN /\ ossr \in BOOLEAN /\ oscr \in Counts /\ osmr \in Counts /\ ticks \in Nat

\* The ticks that the timer has been given are the time of its last update.
Punctual == ticks * TimerPeriod = s.tasks[TIMER].lastUpdate

IInv ==
    /\ Flags /\ SchedulerOK(s, PcmPeriods[pcmOutput])
    /\ ~advancing => Ahead(s)
    /\ ~sleeping => Single(s)
    /\ Overshoot < TimerPeriod => Punctual
    /\ NoMatchSleptThrough
-----------------------------------------------------------------------------
(***************************************************************************)
(* The methods of the scheduler on the tasks of the system on a chip.      *)
(***************************************************************************)
LEMMA Constants ==
    /\ TaskTypes = {TIMER, PCM, AUX} /\ TIMER \in TaskTypes /\ PCM \in TaskTypes /\ AUX \in TaskTypes
    /\ TIMER # PCM /\ TIMER # AUX /\ PCM # AUX /\ NoTask \notin TaskTypes
    /\ TimerPeriod \in Nat \ {0} /\ AuxPeriod \in Nat \ {0}
    /\ PcmPeriods \in [BOOLEAN -> Nat \ {0}]
    /\ TimerWrap \in Nat /\ TimerWrap > 1 /\ Overshoot \in Nat \ {0}
    /\ MaxTime \in Nat /\ Wrap \in Nat
    /\ MaxTime + TimerWrap * TimerPeriod < Wrap /\ MaxTime + AuxPeriod < Wrap
    /\ \A b \in BOOLEAN : MaxTime + PcmPeriods[b] < Wrap
<1>1. TaskTypes = 0 .. 2 /\ TaskTypes = {0, 1, 2}
  BY SocTimeAssumption DEF TaskTypes
<1> QED
  BY <1>1, SocTimeAssumption, SchedulerAssumption DEF TIMER, PCM, AUX, NoTask

LEMMA OKParts ==
    ASSUME NEW sch, NEW pp, SchedulerOK(sch, pp)
    PROVE  /\ sch \in Schedulers /\ sch.accTime \in Nat /\ sch.accTime <= MaxTime
           /\ InOrder(sch) /\ HeadKnown(sch)
           /\ TimerOK(sch) /\ OneTick(sch, AUX, AuxPeriod) /\ OneTick(sch, PCM, pp)
           /\ \A t \in TaskTypes : InOrderBut(sch, t)
           /\ \A t \in TaskTypes : /\ sch.tasks[t].lastUpdate \in Nat /\ sch.tasks[t].nextUpdate \in Nat
                                   /\ sch.tasks[t].batchedTicks \in Nat
BY ScheduleFields, WithoutTask DEF SchedulerOK

\* The head of the list.
LEMMA OKHead ==
    ASSUME NEW sch, NEW pp, SchedulerOK(sch, pp)
    PROVE  /\ sch.queue[Front] \in TaskTypes /\ sch.queue[Front] <= MaxTask
           /\ sch.tasks[sch.queue[Front]].batchedTicks > 0
           /\ sch.nextUpdate = sch.tasks[sch.queue[Front]].nextUpdate
           /\ \A t \in TaskTypes : sch.tasks[t].batchedTicks > 0 =>
                sch.nextUpdate <= sch.tasks[t].nextUpdate
<1>1. sch \in Schedulers /\ InOrder(sch) /\ HeadKnown(sch) /\ TimerOK(sch)
  BY DEF SchedulerOK
<1>2. TIMER \in TaskTypes
  BY Constants
<1>3. sch.tasks[TIMER].batchedTicks > 0
  BY <1>1, Constants DEF TimerOK
<1>4. /\ sch.queue[Front] \in TaskTypes /\ sch.queue[Front] <= MaxTask
      /\ sch.tasks[sch.queue[Front]].batchedTicks > 0
      /\ \A u \in TaskTypes : sch.tasks[u].batchedTicks > 0 =>
           sch.tasks[sch.queue[Front]].nextUpdate <= sch.tasks[u].nextUpdate
  BY <1>1, <1>2, <1>3, HeadFirst
<1> QED
  BY <1>1, <1>4 DEF HeadKnown

\* A scheduler in which only the timer, or only one of the other tasks, has changed.
LEMMA TimerChanged ==
    ASSUME NEW sch, NEW pp, SchedulerOK(sch, pp), NEW r, Keeps(r, sch, TIMER), TimerOK(r)
    PROVE  /\ SchedulerOK(r, pp) /\ r.accTime = sch.accTime
           /\ r.tasks[PCM] = sch.tasks[PCM] /\ r.tasks[AUX] = sch.tasks[AUX]
BY Constants DEF SchedulerOK, Keeps, OneTick

LEMMA PcmChanged ==
    ASSUME NEW sch, NEW pp, SchedulerOK(sch, pp), NEW r, Keeps(r, sch, PCM), NEW np, OneTick(r, PCM, np)
    PROVE  /\ SchedulerOK(r, np) /\ r.accTime = sch.accTime
           /\ r.tasks[TIMER] = sch.tasks[TIMER] /\ r.tasks[AUX] = sch.tasks[AUX]
BY Constants DEF SchedulerOK, Keeps, OneTick, TimerOK

LEMMA AuxChanged ==
    ASSUME NEW sch, NEW pp, SchedulerOK(sch, pp), NEW r, Keeps(r, sch, AUX), OneTick(r, AUX, AuxPeriod)
    PROVE  /\ SchedulerOK(r, pp) /\ r.accTime = sch.accTime
           /\ r.tasks[TIMER] = sch.tasks[TIMER] /\ r.tasks[PCM] = sch.tasks[PCM]
BY Constants DEF SchedulerOK, Keeps, OneTick, TimerOK

\* A batch that is not empty and not longer than one tick.
LEMMA HasOneTick ==
    ASSUME NEW r, NEW t, NEW p \in Nat, NEW b \in {0, 1}, HasBatch(r, t, p, b)
    PROVE  OneTick(r, t, p)
<1>1. 1 * p = p
  OBVIOUS
<1> QED
  BY <1>1 DEF HasBatch, OneTick

\* The ticks that have passed since the last update of the timer.
LEMMA TicksPassed ==
    ASSUME NEW last \in Nat, NEW n \in Nat \ {0}, NEW p \in Nat \ {0}, NEW next \in Nat, NEW acc \in Nat,
           last + n * p = next, last <= acc
    PROVE  LET a == (acc - last) \div p
           IN  /\ a \in Nat /\ last + a * p <= acc /\ acc < last + a * p + p
               /\ next <= acc => a >= n
               /\ acc < next => a < n
               /\ acc < next + p => a <= n
<1>1. PICK x \in Nat : x = acc - last
  OBVIOUS
<1>2. x = (x \div p) * p + (x % p) /\ x % p \in 0 .. p - 1 /\ x \div p \in Nat
  <2>1. x \in Int
    OBVIOUS
  <2> QED
    BY <2>1, DivMod, DivNat
<1>3. PICK a \in Nat : a = x \div p
  BY <1>2
<1>4. PICK y \in Nat : y = a * p
  OBVIOUS
<1>5. last + y <= acc /\ acc < last + y + p
  BY <1>1, <1>2, <1>3, <1>4
<1>6. PICK z \in Nat : z = n * p
  OBVIOUS
<1>7. a > n => y >= z + p
  <2>1. ASSUME a > n PROVE y >= z + p
    <3>1. PICK c \in Nat : a = n + 1 + c
      <4>1. a - (n + 1) \in Nat /\ a = n + 1 + (a - (n + 1))
        BY <2>1
      <4> QED
        BY <4>1
    <3>2. a * p = n * p + p + c * p /\ c * p >= 0
      BY <3>1
    <3> QED
      BY <3>2, <1>4, <1>6
  <2> QED
    BY <2>1
<1>8. a < n => z >= y + p
  <2>1. ASSUME a < n PROVE z >= y + p
    <3>1. PICK c \in Nat : n = a + 1 + c
      <4>1. n - (a + 1) \in Nat /\ n = a + 1 + (n - (a + 1))
        BY <2>1
      <4> QED
        BY <4>1
    <3>2. n * p = a * p + p + c * p /\ c * p >= 0
      BY <3>1
    <3> QED
      BY <3>2, <1>4, <1>6
  <2> QED
    BY <2>1
<1>9. last + z = next
  BY <1>6
<1>10. acc < next + p => a <= n
  BY <1>5, <1>7, <1>9
<1>11. next <= acc => a >= n
  BY <1>5, <1>8, <1>9
<1>12. acc < next => a < n
  <2>1. a = n => y = z
    BY <1>4, <1>6
  <2> QED
    BY <1>5, <1>7, <1>9, <2>1
<1> QED
  BY <1>1, <1>3, <1>4, <1>5, <1>10, <1>11, <1>12

LEMMA TimerAccumulated ==
    ASSUME NEW sch, NEW pp, SchedulerOK(sch, pp)
    PROVE  LET k == sch.tasks[TIMER]
               a == Accumulated(sch, TIMER)
           IN  /\ a \in 0 .. TimerWrap - 1 /\ k.lastUpdate + a * TimerPeriod <= sch.accTime
               /\ sch.accTime < k.lastUpdate + a * TimerPeriod + TimerPeriod
               /\ k.nextUpdate <= sch.accTime => a >= k.batchedTicks
               /\ sch.accTime < k.nextUpdate => a < k.batchedTicks
               /\ sch.accTime < k.nextUpdate + TimerPeriod => a <= k.batchedTicks
<1>1. PICK acc \in Nat : acc = sch.accTime
  BY OKParts
<1>2. /\ sch.tasks[TIMER].lastUpdate \in Nat /\ sch.tasks[TIMER].nextUpdate \in Nat
      /\ sch.tasks[TIMER].batchedTicks \in Nat
  BY OKParts, Constants
<1>t. TimerOK(sch)
  BY OKParts
<1>3. PICK last \in Nat : last = sch.tasks[TIMER].lastUpdate
  BY <1>2
<1>4. PICK next \in Nat : next = sch.tasks[TIMER].nextUpdate
  BY <1>2
<1>5. PICK n \in Nat \ {0} : n = sch.tasks[TIMER].batchedTicks
  BY <1>2, <1>t DEF TimerOK
<1>6. PICK p \in Nat \ {0} : p = TimerPeriod /\ p = sch.tasks[TIMER].period
  BY Constants, <1>t DEF TimerOK
<1>7. last + n * p = next /\ last <= acc /\ acc < last + TimerWrap * p
  BY <1>1, <1>3, <1>4, <1>5, <1>6, <1>t DEF TimerOK
<1>8. PICK a : a = (acc - last) \div p
  OBVIOUS
<1>9. /\ a \in Nat /\ last + a * p <= acc /\ acc < last + a * p + p
      /\ next <= acc => a >= n
      /\ acc < next => a < n
      /\ acc < next + p => a <= n
  BY <1>7, <1>8, TicksPassed
<1>w. a \in 0 .. TimerWrap - 1
  <2>1. PICK v \in Nat \ {0} : v = TimerWrap
    BY Constants
  <2>2. last + v * p = last + v * p /\ last + v * p \in Nat
    OBVIOUS
  <2>3. PICK end \in Nat : end = last + v * p
    BY <2>2
  <2>4. acc < end => a < v
    BY <1>7, <1>8, <2>3, TicksPassed
  <2> QED
    BY <1>7, <1>9, <2>1, <2>3, <2>4
<1>10. Accumulated(sch, TIMER) = a
  <2>1. acc - last \in Int /\ 0 <= acc - last /\ acc - last < Wrap
    BY <1>1, <1>7, OKParts, Constants
  <2>2. (acc - last) % Wrap = acc - last
    BY <2>1, ClockOnce
  <2> QED
    BY <1>1, <1>3, <1>6, <1>8, <2>2 DEF Accumulated
<1> QED
  BY <1>1, <1>3, <1>4, <1>5, <1>6, <1>9, <1>10, <1>w
\* A new batch of the timer that starts at a time that has passed, and ends less than a
\* tick ago, or ahead, if no round misses it by more.
LEMMA TimerBatch ==
    ASSUME NEW sch, NEW pp, SchedulerOK(sch, pp), NEW r, Keeps(r, sch, TIMER),
           NEW b \in 1 .. TimerWrap - 1, HasBatch(r, TIMER, TimerPeriod, b),
           NEW last \in Nat, r.tasks[TIMER].lastUpdate = last, last <= sch.accTime,
           sch.accTime < last + TimerWrap * TimerPeriod,
           Overshoot < TimerPeriod => sch.accTime < last + b * TimerPeriod + TimerPeriod
    PROVE  /\ SchedulerOK(r, pp) /\ r.accTime = sch.accTime
           /\ r.tasks[PCM] = sch.tasks[PCM] /\ r.tasks[AUX] = sch.tasks[AUX]
           /\ r.tasks[TIMER].batchedTicks = b /\ r.tasks[TIMER].nextUpdate = last + b * TimerPeriod
<1>1. PICK p \in Nat \ {0} : p = TimerPeriod
  BY Constants
<1>2. PICK x \in Nat : x = b * p
  BY Constants
<1>3. x < TimerWrap * p
  <2>1. PICK c \in Nat \ {0} : TimerWrap = b + c
    <3>1. TimerWrap - b \in Nat \ {0} /\ TimerWrap = b + (TimerWrap - b)
      BY Constants
    <3> QED
      BY <3>1
  <2>2. TimerWrap * p = b * p + c * p /\ c * p > 0
    BY <2>1, Constants
  <2> QED
    BY <1>2, <2>2
<1>4. last + x \in Int /\ 0 <= last + x /\ last + x < Wrap
  <2>1. PICK y \in Int : y = TimerWrap * p
    BY Constants
  <2>2. sch.accTime \in Nat /\ sch.accTime <= MaxTime
    BY OKParts
  <2> QED
    BY <1>1, <1>3, <2>1, <2>2, Constants
<1>5. (last + x) % Wrap = last + x
  BY <1>4, ClockOnce
<1>6. r.tasks[TIMER].batchedTicks = b /\ r.tasks[TIMER].nextUpdate = last + x /\ r.tasks[TIMER].period = p
  BY <1>1, <1>2, <1>5, Constants DEF HasBatch
<1>7. r.accTime = sch.accTime
  BY DEF Keeps
<1>8. TimerOK(r)
  BY <1>1, <1>2, <1>6, <1>7 DEF TimerOK
<1> QED
  BY <1>1, <1>2, <1>6, <1>8, TimerChanged

\* RescheduleTaskAtLeast on the timer, which is always scheduled.
LEMMA TimerAtLeast ==
    ASSUME NEW sch, NEW pp, SchedulerOK(sch, pp), NEW b \in 1 .. TimerWrap - 1,
           NEW r, r = RescheduleTaskAtLeast(sch, TIMER, b)
    PROVE  /\ Keeps(r, sch, TIMER)
           /\ HasBatch(r, TIMER, TimerPeriod,
                       IF Accumulated(sch, TIMER) > b THEN Accumulated(sch, TIMER) ELSE b)
           /\ r.tasks[TIMER].lastUpdate = sch.tasks[TIMER].lastUpdate
<1>1. PICK yes \in BOOLEAN : yes = TRUE
  OBVIOUS
<1>2. r = Reschedule(sch, TIMER, b, yes)
  BY <1>1 DEF RescheduleTaskAtLeast
<1>3. PICK p \in Nat \ {0} : p = TimerPeriod
  BY Constants
<1>4. sch \in Schedulers /\ TIMER \in TaskTypes /\ InOrderBut(sch, TIMER) /\ TimerOK(sch)
  BY OKParts, Constants
<1>5. sch.tasks[TIMER].period = p /\ sch.tasks[TIMER].batchedTicks # 0
  BY <1>3, <1>4, Constants DEF TimerOK
<1>6. PICK batch : batch = IF b = 0 THEN 0 ELSE Batch(sch, TIMER, b, yes)
  OBVIOUS
<1>7. b \in Nat /\ b > 0
  BY Constants
<1>8. /\ Keeps(r, sch, TIMER) /\ HasBatch(r, TIMER, p, batch)
      /\ b > 0 => r.tasks[TIMER].lastUpdate = LastTick(sch, TIMER)
  BY <1>2, <1>4, <1>5, <1>6, <1>7, RescheduleKeeps
<1>9. batch = IF Accumulated(sch, TIMER) > b THEN Accumulated(sch, TIMER) ELSE b
  BY <1>1, <1>6, <1>7 DEF Batch
<1>10. LastTick(sch, TIMER) = sch.tasks[TIMER].lastUpdate
  BY <1>5 DEF LastTick
<1> QED
  BY <1>3, <1>7, <1>8, <1>9, <1>10

\* A wakeup cuts the batch of the timer down to the ticks that have passed, or to one.
LEMMA TimerWoken ==
    ASSUME NEW sch, NEW pp, SchedulerOK(sch, pp), NEW r, r = RescheduleTaskAtLeast(sch, TIMER, 1)
    PROVE  /\ SchedulerOK(r, pp) /\ r.accTime = sch.accTime
           /\ r.tasks[PCM] = sch.tasks[PCM] /\ r.tasks[AUX] = sch.tasks[AUX] /\ Single(r)
           /\ r.tasks[TIMER].lastUpdate = sch.tasks[TIMER].lastUpdate
           /\ sch.tasks[TIMER].nextUpdate <= sch.accTime =>
                /\ sch.accTime - r.tasks[TIMER].nextUpdate \in 0 .. TimerPeriod - 1
                /\ sch.accTime < sch.tasks[TIMER].nextUpdate + TimerPeriod =>
                     r.tasks[TIMER].nextUpdate = sch.tasks[TIMER].nextUpdate
<1>1. PICK acc \in Nat : acc = sch.accTime
  BY OKParts
<1>2. PICK last \in Nat : last = sch.tasks[TIMER].lastUpdate
  BY OKParts, Constants
<1>3. PICK next \in Nat : next = sch.tasks[TIMER].nextUpdate
  BY OKParts, Constants
<1>4. PICK p \in Nat \ {0} : p = TimerPeriod
  BY Constants
<1>5. PICK n \in 1 .. TimerWrap - 1 : n = sch.tasks[TIMER].batchedTicks
  BY OKParts DEF TimerOK
<1>6. last + n * p = next /\ acc < last + TimerWrap * p
  BY <1>1, <1>2, <1>3, <1>4, <1>5, OKParts DEF TimerOK
<1>7. PICK a \in 0 .. TimerWrap - 1 : a = Accumulated(sch, TIMER)
  BY <1>5, TimerAccumulated
<1>8. /\ last + a * p <= acc /\ acc < last + a * p + p
      /\ next <= acc => a >= n
      /\ acc < next + p => a <= n
  BY <1>1, <1>2, <1>3, <1>4, <1>5, <1>7, TimerAccumulated
<1>9. PICK b \in 1 .. TimerWrap - 1 : b = IF a > 1 THEN a ELSE 1
  BY Constants
<1>10. Keeps(r, sch, TIMER) /\ HasBatch(r, TIMER, TimerPeriod, b) /\ r.tasks[TIMER].lastUpdate = last
  <2>1. 1 \in 1 .. TimerWrap - 1
    BY Constants
  <2> QED
    BY <1>2, <1>7, <1>9, <2>1, TimerAtLeast
<1>11. last <= acc /\ acc < last + b * p + p
  <2>1. last <= acc
    BY <1>1, <1>2, OKParts DEF TimerOK
  <2>2. CASE a = 0
    <3>1. a * p = 0 /\ b * p = p
      BY <1>9, <2>2
    <3> QED
      BY <1>8, <2>1, <3>1
  <2>3. CASE a # 0
    <3>1. b = a
      BY <1>9, <2>3
    <3> QED
      BY <1>8, <2>1, <3>1
  <2> QED
    BY <2>2, <2>3
<1>12. /\ SchedulerOK(r, pp) /\ r.accTime = sch.accTime
       /\ r.tasks[PCM] = sch.tasks[PCM] /\ r.tasks[AUX] = sch.tasks[AUX]
       /\ r.tasks[TIMER].batchedTicks = b /\ r.tasks[TIMER].nextUpdate = last + b * p
  BY <1>1, <1>4, <1>6, <1>10, <1>11, TimerBatch
<1>13. Single(r)
  <2>1. CASE b = 1
    BY <1>12, <2>1 DEF Single
  <2>2. CASE b # 1
    <3>1. b = a
      BY <1>9, <2>2
    <3> QED
      BY <1>1, <1>8, <1>12, <3>1 DEF Single
  <2> QED
    BY <2>1, <2>2
<1>14. ASSUME next <= acc
       PROVE  acc - (last + b * p) \in 0 .. p - 1 /\ (acc < next + p => last + b * p = next)
  <2>1. a >= n /\ n \in Nat /\ n > 0 /\ a \in Nat
    BY <1>8, <1>14, Constants
  <2>2. b = a
    BY <1>9, <2>1
  <2>3. PICK y \in Nat : y = b * p
    BY <2>1, <2>2
  <2>4. acc - (last + y) \in 0 .. p - 1
    BY <1>8, <2>2, <2>3
  <2>5. acc < next + p => b = n
    BY <1>8, <2>1, <2>2
  <2> QED
    BY <1>6, <2>3, <2>4, <2>5
<1> QED
  BY <1>1, <1>2, <1>3, <1>4, <1>5, <1>10, <1>12, <1>13, <1>14

\* When the CPU goes to sleep, the timer gets the batch that was asked for.
LEMMA TimerAsleep ==
    ASSUME NEW sch, NEW pp, SchedulerOK(sch, pp), Ahead(sch), Single(sch), NEW b \in 1 .. TimerWrap - 1,
           NEW r, r = RescheduleTaskAtLeast(sch, TIMER, b)
    PROVE  /\ SchedulerOK(r, pp) /\ Ahead(r)
           /\ r.tasks[TIMER].lastUpdate = sch.tasks[TIMER].lastUpdate
           /\ r.tasks[TIMER].batchedTicks = b
<1>1. PICK acc \in Nat : acc = sch.accTime
  BY OKParts
<1>2. PICK last \in Nat : last = sch.tasks[TIMER].lastUpdate
  BY OKParts, Constants
<1>3. PICK next \in Nat : next = sch.tasks[TIMER].nextUpdate
  BY OKParts, Constants
<1>4. PICK p \in Nat \ {0} : p = TimerPeriod
  BY Constants
<1>5. PICK n \in 1 .. TimerWrap - 1 : n = sch.tasks[TIMER].batchedTicks
  BY OKParts DEF TimerOK
<1>6. last + n * p = next /\ last <= acc /\ acc < last + TimerWrap * p
  BY <1>1, <1>2, <1>3, <1>4, <1>5, OKParts DEF TimerOK
<1>7. acc < next /\ n = 1
  <2>1. n > 0 /\ n \in Nat
    BY Constants
  <2>2. acc < next
    BY <1>1, <1>3, <1>5, <2>1, Constants DEF Ahead
  <2> QED
    BY <1>1, <1>3, <1>5, <2>2 DEF Single
<1>8. Accumulated(sch, TIMER) = 0
  <2>1. PICK a : a = Accumulated(sch, TIMER)
    OBVIOUS
  <2>2. a \in 0 .. TimerWrap - 1 /\ (acc < next => a < n)
    BY <1>1, <1>3, <1>5, <2>1, TimerAccumulated
  <2> QED
    BY <1>7, <2>1, <2>2
<1>9. b \in Nat /\ b > 0
  BY Constants
<1>10. Keeps(r, sch, TIMER) /\ HasBatch(r, TIMER, TimerPeriod, b) /\ r.tasks[TIMER].lastUpdate = last
  BY <1>2, <1>8, <1>9, TimerAtLeast
<1>11. acc < last + b * p
  <2>1. PICK c \in Nat : b = 1 + c
    <3>1. b - 1 \in Nat /\ b = 1 + (b - 1)
      BY <1>9
    <3> QED
      BY <3>1
  <2>2. b * p = p + c * p /\ c * p >= 0 /\ n * p = p /\ c * p \in Int
    BY <1>7, <2>1
  <2> QED
    BY <1>6, <1>7, <2>2
<1>12. PICK x \in Nat : x = b * p
  BY <1>9
<1>13. acc < last + b * p + p
  BY <1>11, <1>12
<1>14. /\ SchedulerOK(r, pp) /\ r.accTime = sch.accTime
       /\ r.tasks[PCM] = sch.tasks[PCM] /\ r.tasks[AUX] = sch.tasks[AUX]
       /\ r.tasks[TIMER].batchedTicks = b /\ r.tasks[TIMER].nextUpdate = last + b * p
  BY <1>1, <1>4, <1>6, <1>10, <1>13, TimerBatch
<1>15. Ahead(r)
  BY <1>1, <1>11, <1>14, Constants DEF Ahead
<1> QED
  BY <1>2, <1>10, <1>14, <1>15

\* The dispatch of the timer leaves it with a batch that starts where the last one ended.
LEMMA TimerDispatched ==
    ASSUME NEW sch, NEW pp, SchedulerOK(sch, pp), sch.tasks[TIMER].nextUpdate <= sch.accTime,
           NEW b \in 1 .. TimerWrap - 1, NEW r, r = Dispatched(sch, TIMER, b)
    PROVE  /\ SchedulerOK(r, pp)
           /\ r.tasks[TIMER].lastUpdate = sch.tasks[TIMER].nextUpdate
           /\ r.tasks[TIMER].batchedTicks = b
<1>1. PICK acc \in Nat : acc = sch.accTime
  BY OKParts
<1>2. PICK last \in Nat : last = sch.tasks[TIMER].lastUpdate
  BY OKParts, Constants
<1>3. PICK next \in Nat : next = sch.tasks[TIMER].nextUpdate
  BY OKParts, Constants
<1>4. PICK p \in Nat \ {0} : p = TimerPeriod
  BY Constants
<1>5. PICK n \in 1 .. TimerWrap - 1 : n = sch.tasks[TIMER].batchedTicks
  BY OKParts DEF TimerOK
<1>6. /\ last + n * p = next /\ acc < last + TimerWrap * p /\ sch.tasks[TIMER].period = p
      /\ Overshoot < TimerPeriod => acc < next + p
  BY <1>1, <1>2, <1>3, <1>4, <1>5, OKParts DEF TimerOK
<1>7. next % Wrap = next
  <2>1. next < Wrap
    <3>1. sch.tasks[TIMER].nextUpdate \in Clock
      BY OKParts, ScheduleFields, Constants
    <3> QED
      BY <1>3, <3>1, Constants DEF Clock
  <2> QED
    BY <2>1, ClockOnce
<1>8. b \in Nat /\ b > 0 /\ n \in Nat /\ n > 0
  BY Constants
<1>9. /\ Keeps(r, sch, TIMER) /\ HasBatch(r, TIMER, p, b)
      /\ r.tasks[TIMER].lastUpdate = next
  <2>1. sch \in Schedulers /\ TIMER \in TaskTypes /\ InOrder(sch)
    BY OKParts, Constants
  <2>2. /\ Keeps(r, sch, TIMER) /\ HasBatch(r, TIMER, p, b)
        /\ b > 0 /\ sch.tasks[TIMER].batchedTicks > 0 =>
             r.tasks[TIMER].lastUpdate =
               (sch.tasks[TIMER].lastUpdate + sch.tasks[TIMER].batchedTicks * p) % Wrap
    BY <1>6, <1>8, <2>1, DispatchedKeeps
  <2> QED
    BY <1>2, <1>5, <1>6, <1>7, <1>8, <2>2
<1>10. acc < next + TimerWrap * p /\ (Overshoot < TimerPeriod => acc < next + b * p + p)
  <2>1. PICK x \in Nat : x = b * p
    BY <1>8
  <2>2. PICK y \in Nat : y = n * p
    BY <1>8
  <2>3. PICK z \in Nat : z = TimerWrap * p
    BY Constants
  <2> QED
    BY <1>6, <2>1, <2>2, <2>3
<1>11. next <= acc
  BY <1>1, <1>3
<1>12. SchedulerOK(r, pp) /\ r.tasks[TIMER].batchedTicks = b
  BY <1>1, <1>4, <1>9, <1>10, <1>11, TimerBatch
<1> QED
  BY <1>3, <1>9, <1>12
\* PCM or the on-demand task, with its period.
LEMMA OtherChanged ==
    ASSUME NEW sch, NEW pp \in Nat \ {0}, SchedulerOK(sch, pp), NEW t \in {PCM, AUX},
           NEW p, p = (IF t = PCM THEN pp ELSE AuxPeriod), NEW r, Keeps(r, sch, t), OneTick(r, t, p)
    PROVE  SchedulerOK(r, pp) /\ r.accTime = sch.accTime /\ r.tasks[TIMER] = sch.tasks[TIMER]
<1>1. CASE t = PCM
  BY <1>1, PcmChanged
<1>2. CASE t = AUX
  BY <1>2, AuxChanged, Constants
<1> QED
  BY <1>1, <1>2

\* RescheduleTask with one tick or none.
LEMMA OtherRescheduled ==
    ASSUME NEW sch, NEW pp \in Nat \ {0}, MaxTime + pp < Wrap, SchedulerOK(sch, pp), NEW t \in {PCM, AUX},
           NEW b \in {0, 1}, NEW r, r = RescheduleTask(sch, t, b)
    PROVE  /\ SchedulerOK(r, pp) /\ r.accTime = sch.accTime /\ r.tasks[TIMER] = sch.tasks[TIMER]
           /\ Ahead(sch) => Ahead(r)
<1>1. PICK p \in Nat \ {0} : p = (IF t = PCM THEN pp ELSE AuxPeriod)
  BY Constants
<1>2. PICK no \in BOOLEAN : no = FALSE
  OBVIOUS
<1>3. r = Reschedule(sch, t, b, no) /\ b = (IF b = 0 THEN 0 ELSE Batch(sch, t, b, no)) /\ b \in Nat
  <2>1. r = Reschedule(sch, t, b, no)
    BY <1>2 DEF RescheduleTask
  <2>2. b = IF b = 0 THEN 0 ELSE Batch(sch, t, b, no)
    BY <1>2 DEF Batch
  <2> QED
    BY <2>1, <2>2
<1>4. sch \in Schedulers /\ t \in TaskTypes /\ InOrderBut(sch, t) /\ OneTick(sch, t, p) /\ sch.tasks[t].period = p
  <2>1. sch \in Schedulers /\ t \in TaskTypes /\ InOrderBut(sch, t) /\ OneTick(sch, t, p)
    BY <1>1, OKParts, Constants
  <2> QED
    BY <2>1 DEF OneTick
<1>5. /\ Keeps(r, sch, t) /\ HasBatch(r, t, p, b)
      /\ b > 0 => r.tasks[t].lastUpdate = LastTick(sch, t)
  BY <1>3, <1>4, RescheduleKeeps
<1>6. OneTick(r, t, p)
  BY <1>5, HasOneTick
<1>7. SchedulerOK(r, pp) /\ r.accTime = sch.accTime /\ r.tasks[TIMER] = sch.tasks[TIMER]
  BY <1>1, <1>5, <1>6, OtherChanged
<1>8. ASSUME Ahead(sch) PROVE Ahead(r)
  <2>1. ASSUME NEW u \in TaskTypes, r.tasks[u].batchedTicks > 0 PROVE r.tasks[u].nextUpdate > r.accTime
    <3>1. CASE u # t
      BY <1>5, <1>7, <1>8, <2>1, <3>1 DEF Ahead, Keeps
    <3>2. CASE u = t
      <4>1. b = 1
        BY <1>5, <2>1, <3>2 DEF HasBatch
      <4>2. r.tasks[t].lastUpdate = LastTick(sch, t) /\ r.tasks[t].nextUpdate = (LastTick(sch, t) + p) % Wrap
        BY <1>5, <1>6, <4>1 DEF HasBatch, OneTick
      <4>3. CASE sch.tasks[t].batchedTicks = 0
        <5>1. sch.accTime \in Nat /\ sch.accTime + p < Wrap
          BY <1>1, OKParts, Constants
        <5>2. (LastTick(sch, t) + p) % Wrap \in sch.accTime + 1 .. sch.accTime + p
          BY <1>4, <4>3, <5>1, TickAhead
        <5> QED
          BY <1>7, <3>2, <4>2, <5>1, <5>2
      <4>4. CASE sch.tasks[t].batchedTicks = 1
        <5>1. LastTick(sch, t) = sch.tasks[t].lastUpdate
          BY <4>4 DEF LastTick
        <5>2. sch.tasks[t].nextUpdate = (LastTick(sch, t) + p) % Wrap
          BY <1>4, <4>4, <5>1 DEF OneTick
        <5> QED
          BY <1>4, <1>7, <1>8, <3>2, <4>2, <4>4, <5>2 DEF Ahead
      <4> QED
        BY <1>4, <4>3, <4>4 DEF OneTick
    <3> QED
      BY <3>1, <3>2
  <2> QED
    BY <2>1 DEF Ahead
<1> QED
  BY <1>7, <1>8

LEMMA OtherDispatched ==
    ASSUME NEW sch, NEW pp \in Nat \ {0}, SchedulerOK(sch, pp), NEW t \in {PCM, AUX},
           NEW b \in {0, 1}, NEW r, r = Dispatched(sch, t, b)
    PROVE  SchedulerOK(r, pp) /\ r.accTime = sch.accTime /\ r.tasks[TIMER] = sch.tasks[TIMER]
<1>1. PICK p \in Nat \ {0} : p = (IF t = PCM THEN pp ELSE AuxPeriod)
  BY Constants
<1>2. sch \in Schedulers /\ t \in TaskTypes /\ InOrder(sch) /\ sch.tasks[t].period = p /\ b \in Nat
  BY <1>1, OKParts, Constants DEF OneTick
<1>3. Keeps(r, sch, t) /\ HasBatch(r, t, p, b)
  BY <1>2, DispatchedKeeps
<1>4. OneTick(r, t, p)
  BY <1>3, HasOneTick
<1> QED
  BY <1>1, <1>3, <1>4, OtherChanged

LEMMA PcmScheduled ==
    ASSUME NEW sch, NEW pp, SchedulerOK(sch, pp), NEW np \in Nat \ {0}, MaxTime + np < Wrap,
           NEW b \in {0, 1}, NEW r, r = ScheduleTask(sch, PCM, np, b)
    PROVE  /\ SchedulerOK(r, np) /\ r.tasks[TIMER] = sch.tasks[TIMER] /\ r.accTime = sch.accTime
           /\ Ahead(sch) => Ahead(r)
<1>1. sch \in Schedulers /\ PCM \in TaskTypes /\ InOrder(sch) /\ sch.accTime \in Nat /\ sch.accTime + np < Wrap
  BY OKParts, Constants
<1>2. /\ Keeps(r, sch, PCM) /\ HasBatch(r, PCM, np, b)
      /\ b = 1 => r.tasks[PCM].nextUpdate \in sch.accTime + 1 .. sch.accTime + np
  BY <1>1, ScheduleKeeps
<1>3. OneTick(r, PCM, np)
  BY <1>2, HasOneTick
<1>4. SchedulerOK(r, np) /\ r.accTime = sch.accTime /\ r.tasks[TIMER] = sch.tasks[TIMER]
  BY <1>2, <1>3, PcmChanged
<1>5. ASSUME Ahead(sch) PROVE Ahead(r)
  <2>1. ASSUME NEW u \in TaskTypes, r.tasks[u].batchedTicks > 0 PROVE r.tasks[u].nextUpdate > r.accTime
    <3>1. CASE u # PCM
      BY <1>2, <1>4, <1>5, <2>1, <3>1 DEF Ahead, Keeps
    <3>2. CASE u = PCM
      BY <1>1, <1>2, <1>4, <2>1, <3>2 DEF HasBatch
    <3> QED
      BY <3>1, <3>2
  <2> QED
    BY <2>1 DEF Ahead
<1> QED
  BY <1>4, <1>5
-----------------------------------------------------------------------------
(***************************************************************************)
(* The initial state.                                                      *)
(***************************************************************************)
LEMMA NewInOrder ==
    /\ New \in Schedulers /\ InOrder(New) /\ New.accTime = 0
    /\ \A t \in TaskTypes : New.tasks[t].nextUpdate = 0 /\ New.tasks[t].batchedTicks = 0
<1>1. PICK r : r = New
  OBVIOUS
<1>2. /\ r.accTime = 0 /\ r.nextUpdate = Second
      /\ r.tasks = [t \in TaskTypes |-> [period |-> 0, lastUpdate |-> 0, nextUpdate |-> 0, batchedTicks |-> 0]]
      /\ r.queue = [i \in {Front} \cup TaskTypes |-> NoTask]
      /\ r = [accTime |-> r.accTime, nextUpdate |-> r.nextUpdate, tasks |-> r.tasks, queue |-> r.queue]
  BY <1>1 DEF New
<1>3. 0 \in Clock /\ Second \in Clock
  BY SchedulerAssumption DEF Clock
<1>4. r.tasks \in [TaskTypes -> Tasks] /\ r.queue \in Links
  BY <1>2, <1>3 DEF Tasks, Links
<1>5. r \in Schedulers
  BY <1>2, <1>3, <1>4 DEF Schedulers
<1>6. \A t \in TaskTypes : r.tasks[t].nextUpdate = 0 /\ r.tasks[t].batchedTicks = 0
  BY <1>2
<1>7. InOrder(r)
  <2>1. PICK list \in [1 .. 0 -> TaskTypes] : TRUE
    <3>1. [i \in 1 .. 0 |-> 0] \in [1 .. 0 -> TaskTypes]
      OBVIOUS
    <3> QED
      BY <3>1
  <2>2. Leads(r.queue, list, 0)
    BY <1>2 DEF Leads, Node, After
  <2>3. \A t \in TaskTypes : r.tasks[t].batchedTicks > 0 <=> \E i \in 1 .. 0 : list[i] = t
    BY <1>6
  <2>4. 0 \in 0 .. MaxTask + 1
    BY SchedulerAssumption
  <2>5. \A i, j \in 1 .. 0 : i < j =>
          list[i] # list[j] /\ r.tasks[list[i]].nextUpdate <= r.tasks[list[j]].nextUpdate
    OBVIOUS
  <2>6. PICK n \in 0 .. MaxTask + 1 : n = 0
    BY <2>4
  <2>7. list \in [1 .. n -> TaskTypes] /\ Leads(r.queue, list, n)
    BY <2>2, <2>6
  <2> QED
    BY <2>3, <2>5, <2>6, <2>7 DEF InOrder
<1> QED
  BY <1>1, <1>2, <1>5, <1>6, <1>7

LEMMA SetupOK == SchedulerOK(Setup, PcmPeriods[FALSE]) /\ Ahead(Setup) /\ Single(Setup)
                 /\ Setup.tasks[TIMER].lastUpdate = 0
<1>1. PICK r0 : r0 = New
  OBVIOUS
<1>2. PICK r1 : r1 = ScheduleTask(r0, TIMER, TimerPeriod, 1)
  OBVIOUS
<1>3. PICK r2 : r2 = ScheduleTask(r1, AUX, AuxPeriod, 1)
  OBVIOUS
<1>4. PICK pp : pp = PcmPeriods[FALSE]
  OBVIOUS
<1>5. PICK r3 : r3 = ScheduleTask(r2, PCM, pp, 1)
  OBVIOUS
<1>s. Setup = r3
  BY <1>1, <1>2, <1>3, <1>4, <1>5 DEF Setup
<1>c. /\ TimerPeriod \in Nat \ {0} /\ AuxPeriod \in Nat \ {0} /\ pp \in Nat \ {0}
      /\ 0 + TimerPeriod < Wrap /\ 0 + AuxPeriod < Wrap /\ 0 + pp < Wrap /\ 1 \in {0, 1}
      /\ TIMER \in TaskTypes /\ AUX \in TaskTypes /\ PCM \in TaskTypes
  <2>1. PICK b \in BOOLEAN : b = FALSE
    OBVIOUS
  <2>2. pp \in Nat \ {0} /\ 0 + pp < Wrap
    <3>1. PcmPeriods[b] \in Nat \ {0}
      BY <2>1, Constants
    <3>2. MaxTime + PcmPeriods[b] < Wrap /\ MaxTime \in Nat /\ Wrap \in Nat
      BY <2>1, Constants
    <3>3. pp = PcmPeriods[b]
      BY <1>4, <2>1
    <3> QED
      BY <3>1, <3>2, <3>3
  <2>3. TimerWrap * TimerPeriod >= TimerPeriod /\ TimerWrap * TimerPeriod \in Int
    <3>1. PICK c \in Nat : TimerWrap = 1 + c
      <4>1. TimerWrap - 1 \in Nat /\ TimerWrap = 1 + (TimerWrap - 1)
        BY Constants
      <4> QED
        BY <4>1
    <3>2. TimerPeriod \in Nat
      BY Constants
    <3>3. TimerWrap * TimerPeriod = TimerPeriod + c * TimerPeriod /\ c * TimerPeriod \in Nat
      BY <3>1, <3>2
    <3> QED
      BY <3>2, <3>3
  <2> QED
    BY <2>2, <2>3, Constants
<1>6. r0 \in Schedulers /\ InOrder(r0) /\ r0.accTime = 0 /\ r0.tasks[TIMER].nextUpdate = 0
  BY <1>1, <1>c, NewInOrder
<1>7. /\ Keeps(r1, r0, TIMER) /\ HasBatch(r1, TIMER, TimerPeriod, 1)
      /\ r1.tasks[TIMER].lastUpdate =
           ((((r0.accTime - r0.tasks[TIMER].nextUpdate) % Wrap) \div TimerPeriod) * TimerPeriod
              + r0.tasks[TIMER].nextUpdate) % Wrap
  BY <1>2, <1>6, <1>c, ScheduleKeeps
<1>8. r1.tasks[TIMER].lastUpdate = 0
  <2>1. 0 % Wrap = 0
    BY ClockOnce, SchedulerAssumption
  <2>2. 0 \div TimerPeriod = 0
    BY <1>c, DivUnique
  <2>3. 0 * TimerPeriod + 0 = 0 /\ 0 - 0 = 0
    BY <1>c
  <2> QED
    BY <1>6, <1>7, <2>1, <2>2, <2>3
<1>9. r1 \in Schedulers /\ InOrder(r1) /\ r1.accTime = 0
  BY <1>6, <1>7 DEF Keeps
<1>10. /\ Keeps(r2, r1, AUX) /\ HasBatch(r2, AUX, AuxPeriod, 1)
       /\ r2.tasks[AUX].nextUpdate \in r1.accTime + 1 .. r1.accTime + AuxPeriod
  BY <1>3, <1>9, <1>c, ScheduleKeeps
<1>11. r2 \in Schedulers /\ InOrder(r2) /\ r2.accTime = 0
  BY <1>9, <1>10 DEF Keeps
<1>12. /\ Keeps(r3, r2, PCM) /\ HasBatch(r3, PCM, pp, 1)
       /\ r3.tasks[PCM].nextUpdate \in r2.accTime + 1 .. r2.accTime + pp
  BY <1>5, <1>11, <1>c, ScheduleKeeps
<1>13. /\ r3 \in Schedulers /\ InOrder(r3) /\ HeadKnown(r3) /\ r3.accTime = 0
       /\ r3.tasks[TIMER] = r1.tasks[TIMER] /\ r3.tasks[AUX] = r2.tasks[AUX]
  BY <1>10, <1>11, <1>12, Constants DEF Keeps
<1>14. OneTick(r3, AUX, AuxPeriod) /\ OneTick(r3, PCM, pp)
  <2>1. HasBatch(r3, AUX, AuxPeriod, 1)
    BY <1>10, <1>13 DEF HasBatch
  <2> QED
    BY <1>12, <1>c, <2>1, HasOneTick
<1>15. r3.tasks[TIMER].nextUpdate = TimerPeriod /\ r3.tasks[TIMER].batchedTicks = 1 /\ r3.tasks[TIMER].period = TimerPeriod
  <2>1. 0 + 1 * TimerPeriod = TimerPeriod /\ TimerPeriod \in Int
    BY <1>c
  <2>2. TimerPeriod % Wrap = TimerPeriod
    BY <1>c, ClockOnce
  <2> QED
    BY <1>7, <1>8, <1>13, <2>1, <2>2 DEF HasBatch
<1>16. TimerOK(r3)
  <2>1. 1 \in 1 .. TimerWrap - 1 /\ 0 + 1 * TimerPeriod = TimerPeriod /\ 0 < TimerPeriod + TimerPeriod
        /\ 0 < 0 + TimerWrap * TimerPeriod
    <3>1. PICK v \in Nat \ {0} : v = TimerWrap
      BY Constants
    <3>2. PICK q \in Nat \ {0} : q = TimerPeriod
      BY Constants
    <3>3. v * q > 0 /\ v * q \in Int
      OBVIOUS
    <3> QED
      BY <3>1, <3>2, <3>3, Constants
  <2> QED
    BY <1>8, <1>13, <1>15, <2>1 DEF TimerOK
<1>17. Ahead(r3)
  <2>1. r3.tasks[TIMER].nextUpdate > 0
    BY <1>15, <1>c
  <2>2. r3.tasks[AUX].nextUpdate > 0
    BY <1>9, <1>10, <1>13, <1>c
  <2>3. r3.tasks[PCM].nextUpdate > 0
    BY <1>11, <1>12, <1>c
  <2> QED
    BY <1>13, <2>1, <2>2, <2>3, Constants DEF Ahead
<1>18. 0 <= MaxTime
  BY Constants
<1> QED
  BY <1>s, <1>4, <1>8, <1>13, <1>14, <1>15, <1>16, <1>17, <1>18 DEF SchedulerOK, Single

LEMMA InitIInv == Init => IInv
<1> SUFFICES ASSUME Init PROVE IInv
  OBVIOUS
<1>1. /\ s = Setup /\ advancing = FALSE /\ sleeping = FALSE /\ pcmSuspended = FALSE /\ pcmOutput = FALSE
      /\ oscr = 0 /\ osmr = 0 /\ oier = FALSE /\ ossr = FALSE /\ ticks = 0
  BY DEF Init
<1>2. Flags
  <2>1. 0 \in Counts
    BY Constants DEF Counts
  <2>2. FALSE \in BOOLEAN /\ 0 \in Nat
    OBVIOUS
  <2> QED
    BY <1>1, <2>1, <2>2 DEF Flags
<1>3. Punctual
  <2>1. 0 * TimerPeriod = 0
    BY Constants
  <2> QED
    BY <1>1, <2>1, SetupOK DEF Punctual
<1>4. NoMatchSleptThrough
  BY <1>1 DEF NoMatchSleptThrough
<1> QED
  BY <1>1, <1>2, <1>3, <1>4, SetupOK DEF IInv
-----------------------------------------------------------------------------
(***************************************************************************)
(* The actions.                                                            *)
(***************************************************************************)
LEMMA PcmPeriod ==
    ASSUME IInv
    PROVE  PcmPeriods[pcmOutput] \in Nat \ {0} /\ MaxTime + PcmPeriods[pcmOutput] < Wrap
BY Constants DEF IInv, Flags

\* The ticks that the timer asks for while the CPU sleeps: at least one, and not beyond
\* the next interrupt.
SleepBound(counter, match, pending) ==
    LET delta == (match - counter) % TimerWrap
    IN  IF pending THEN 1 ELSE IF delta = 0 THEN TimerWrap ELSE delta

LEMMA TicksInRange ==
    ASSUME NEW counter \in Counts, NEW match \in Counts, NEW enabled \in BOOLEAN, NEW pending \in BOOLEAN,
           NEW n, n = TicksToNextInterrupt(counter, match, enabled, pending)
    PROVE  n \in 1 .. TimerWrap - 1 /\ (enabled => n <= SleepBound(counter, match, pending))
<1>1. PICK w \in Nat \ {0} : w = TimerWrap /\ w > 1
  BY Constants
<1>2. match - counter \in Int
  BY Constants DEF Counts
<1>3. PICK delta : delta = (match - counter) % w
  OBVIOUS
<1>4. delta \in 0 .. w - 1
  BY <1>2, <1>3, DivMod
<1>5. n = IF ~enabled THEN w - 1 ELSE IF pending THEN 1 ELSE IF delta = 0 THEN w - 1 ELSE delta
  BY <1>1, <1>3 DEF TicksToNextInterrupt
<1>6. SleepBound(counter, match, pending) = IF pending THEN 1 ELSE IF delta = 0 THEN w ELSE delta
  BY <1>1, <1>3 DEF SleepBound
<1>7. n \in 1 .. w - 1
  BY <1>1, <1>4, <1>5
<1>8. enabled => n <= (IF pending THEN 1 ELSE IF delta = 0 THEN w ELSE delta)
  BY <1>1, <1>4, <1>5
<1> QED
  BY <1>1, <1>6, <1>7, <1>8

LEMMA NoMatch ==
    NoMatchSleptThrough <=>
      (sleeping /\ oier => s.tasks[TIMER].batchedTicks <= SleepBound(oscr, osmr, ossr))
BY DEF NoMatchSleptThrough, SleepBound

\* The scheduler that a delegate leaves behind, whether it has woken the CPU or not.
LEMMA WakeupOK ==
    ASSUME IInv, NEW wake \in BOOLEAN, NEW sch, sch = IF wake THEN Wakeup(s) ELSE s
    PROVE  /\ SchedulerOK(sch, PcmPeriods[pcmOutput]) /\ sch.accTime = s.accTime
           /\ sch.tasks[TIMER].lastUpdate = s.tasks[TIMER].lastUpdate
           /\ s.tasks[TIMER].nextUpdate <= s.accTime =>
                \/ sch.tasks[TIMER].nextUpdate = s.tasks[TIMER].nextUpdate
                \/ /\ wake /\ sleeping /\ s.accTime >= s.tasks[TIMER].nextUpdate + TimerPeriod
                   /\ s.accTime - sch.tasks[TIMER].nextUpdate \in 0 .. TimerPeriod - 1
           /\ ~(sleeping /\ ~wake) => Single(sch)
           /\ (sleeping /\ ~wake) => sch = s
<1>1. PICK pp : pp = PcmPeriods[pcmOutput]
  OBVIOUS
<1>2. SchedulerOK(s, pp) /\ (~sleeping => Single(s))
  BY <1>1 DEF IInv
<1>3. CASE wake /\ sleeping
  <2>1. sch = RescheduleTaskAtLeast(s, TIMER, 1)
    BY <1>3 DEF Wakeup
  <2>2. /\ SchedulerOK(sch, pp) /\ sch.accTime = s.accTime /\ Single(sch)
        /\ sch.tasks[TIMER].lastUpdate = s.tasks[TIMER].lastUpdate
        /\ s.tasks[TIMER].nextUpdate <= s.accTime =>
             /\ s.accTime - sch.tasks[TIMER].nextUpdate \in 0 .. TimerPeriod - 1
             /\ s.accTime < s.tasks[TIMER].nextUpdate + TimerPeriod =>
                  sch.tasks[TIMER].nextUpdate = s.tasks[TIMER].nextUpdate
    BY <1>2, <2>1, TimerWoken
  <2>3. s.accTime \in Nat /\ s.tasks[TIMER].nextUpdate \in Nat
    BY <1>2, OKParts, Constants
  <2> QED
    BY <1>1, <1>3, <2>2, <2>3, Constants
<1>4. CASE ~(wake /\ sleeping)
  <2>1. sch = s
    BY <1>4 DEF Wakeup
  <2> QED
    BY <1>1, <1>2, <1>4, <2>1
<1> QED
  BY <1>3, <1>4

LEMMA TimerDue ==
    ASSUME NEW sch, NEW t \in TaskTypes, DueTask(sch) = t
    PROVE  sch.queue[Front] = t /\ sch.tasks[t].nextUpdate <= sch.accTime
BY Constants DEF DueTask

LEMMA DispatchTimerStep ==
    ASSUME IInv, DispatchTimer
    PROVE  IInv' /\ (TicksKept \/ LateWakeup)
<1>1. PICK pp : pp = PcmPeriods[pcmOutput]
  OBVIOUS
<1>2. PICK n : n = s.tasks[TIMER].batchedTicks
  OBVIOUS
<1>3. /\ advancing /\ DueTask(s) = TIMER
      /\ oscr' = (oscr + n) % TimerWrap /\ ticks' = ticks + n
      /\ ossr' = (ossr \/ (oier /\ Matches(oscr, osmr, n)))
      /\ UNCHANGED <<advancing, pcmSuspended, pcmOutput, osmr, oier>>
  BY <1>2 DEF DispatchTimer
<1>4. PICK wake \in BOOLEAN :
        /\ sleeping' = (sleeping /\ ~wake)
        /\ s' = Dispatched(IF wake THEN Wakeup(s) ELSE s, TIMER,
                  IF sleeping' THEN TicksToNextInterrupt(oscr', osmr, oier, ossr') ELSE 1)
  BY DEF DispatchTimer
<1>f. Flags /\ SchedulerOK(s, pp) /\ (Overshoot < TimerPeriod => Punctual)
  BY <1>1 DEF IInv
<1>5. n \in Nat /\ n > 0 /\ s.tasks[TIMER].lastUpdate \in Nat /\ s.tasks[TIMER].nextUpdate \in Nat
      /\ s.tasks[TIMER].lastUpdate + n * TimerPeriod = s.tasks[TIMER].nextUpdate
  <2>1. TimerOK(s) /\ TIMER \in TaskTypes
    BY <1>f, OKParts, Constants
  <2> QED
    BY <1>2, <1>f, <2>1, OKParts, Constants DEF TimerOK
<1>6. oscr' \in Counts
  <2>1. oscr + n \in Int /\ TimerWrap \in Nat \ {0}
    BY <1>5, <1>f, Constants DEF Flags, Counts
  <2>2. (oscr + n) % TimerWrap \in 0 .. TimerWrap - 1
    BY <2>1, DivMod
  <2> QED
    BY <1>3, <2>2 DEF Counts
<1>7. ossr' \in BOOLEAN /\ sleeping' \in BOOLEAN
  BY <1>3, <1>4
<1>8. Flags'
  BY <1>3, <1>5, <1>6, <1>7, <1>f DEF Flags
<1>9. PICK b : b = IF sleeping' THEN TicksToNextInterrupt(oscr', osmr, oier, ossr') ELSE 1
  OBVIOUS
<1>10. /\ b \in 1 .. TimerWrap - 1
       /\ sleeping' /\ oier => b <= SleepBound(oscr', osmr, ossr')
       /\ ~sleeping' => b = 1
  <2>1. CASE sleeping'
    <3>1. b = TicksToNextInterrupt(oscr', osmr, oier, ossr')
      BY <1>9, <2>1
    <3>2. osmr \in Counts /\ oier \in BOOLEAN
      BY <1>f DEF Flags
    <3> QED
      BY <1>6, <1>7, <2>1, <3>1, <3>2, TicksInRange
  <2>2. CASE ~sleeping'
    BY <1>9, <2>2, Constants
  <2> QED
    BY <2>1, <2>2
<1>11. PICK sch : sch = IF wake THEN Wakeup(s) ELSE s
  OBVIOUS
<1>12. s.tasks[TIMER].nextUpdate <= s.accTime
  BY <1>3, TimerDue, Constants
<1>13. /\ SchedulerOK(sch, pp) /\ sch.accTime = s.accTime
       /\ \/ sch.tasks[TIMER].nextUpdate = s.tasks[TIMER].nextUpdate
          \/ /\ wake /\ sleeping /\ s.accTime >= s.tasks[TIMER].nextUpdate + TimerPeriod
             /\ s.accTime - sch.tasks[TIMER].nextUpdate \in 0 .. TimerPeriod - 1
  BY <1>1, <1>11, <1>12, WakeupOK
<1>14. PICK r : r = s'
  OBVIOUS
<1>15. r = Dispatched(sch, TIMER, b)
  BY <1>4, <1>9, <1>11, <1>14
<1>16. /\ SchedulerOK(r, pp) /\ r.tasks[TIMER].lastUpdate = sch.tasks[TIMER].nextUpdate
       /\ r.tasks[TIMER].batchedTicks = b
  <2>1. sch.tasks[TIMER].nextUpdate <= sch.accTime
    <3>1. sch.tasks[TIMER].nextUpdate \in Nat /\ s.accTime \in Nat
      BY <1>13, <1>f, OKParts, Constants
    <3> QED
      BY <1>12, <1>13, <3>1, Constants
  <2> QED
    BY <1>10, <1>13, <1>15, <2>1, TimerDispatched
<1>17. SchedulerOK(s', PcmPeriods[pcmOutput'])
  BY <1>1, <1>3, <1>14, <1>16
<1>k. ticks \in Nat /\ TimerPeriod \in Nat /\ ticks' - ticks = n /\ ticks' > ticks
  BY <1>3, <1>5, <1>f, Constants DEF Flags
<1>l. s'.tasks[TIMER].lastUpdate = s.tasks[TIMER].nextUpdate => TicksKept
  BY <1>5, <1>k DEF TicksKept
<1>m. TicksKept \/ LateWakeup
  <2>1. CASE sch.tasks[TIMER].nextUpdate = s.tasks[TIMER].nextUpdate
    BY <1>14, <1>16, <1>l, <2>1
  <2>2. CASE sch.tasks[TIMER].nextUpdate # s.tasks[TIMER].nextUpdate
    <3>1. /\ wake /\ sleeping /\ s.accTime >= s.tasks[TIMER].nextUpdate + TimerPeriod
          /\ s.accTime - s'.tasks[TIMER].lastUpdate \in 0 .. TimerPeriod - 1
      BY <1>13, <1>14, <1>16, <2>2
    <3>2. ~sleeping'
      BY <1>4, <3>1
    <3> QED
      BY <1>k, <3>1, <3>2 DEF LateWakeup
  <2> QED
    BY <2>1, <2>2
<1>18. Overshoot < TimerPeriod => Punctual'
  <2> SUFFICES ASSUME Overshoot < TimerPeriod PROVE Punctual'
    OBVIOUS
  <2>1. s.accTime < s.tasks[TIMER].nextUpdate + TimerPeriod /\ s.accTime \in Nat
    BY <1>f, OKParts DEF TimerOK
  <2>2. s'.tasks[TIMER].lastUpdate = s.tasks[TIMER].nextUpdate
    BY <1>5, <1>13, <1>14, <1>16, <1>k, <2>1
  <2>3. (ticks + n) * TimerPeriod = ticks * TimerPeriod + n * TimerPeriod
    BY <1>5, <1>k
  <2>4. ticks * TimerPeriod = s.tasks[TIMER].lastUpdate
    BY <1>f DEF Punctual
  <2>5. ticks' * TimerPeriod = s'.tasks[TIMER].lastUpdate
    BY <1>3, <1>5, <2>2, <2>3, <2>4
  <2> QED
    BY <2>5 DEF Punctual
<1>19. NoMatchSleptThrough'
  <2>1. sleeping' /\ oier' => s'.tasks[TIMER].batchedTicks <= SleepBound(oscr', osmr', ossr')
    BY <1>3, <1>10, <1>14, <1>16
  <2> QED
    BY <2>1 DEF NoMatchSleptThrough, SleepBound
<1>20. ~sleeping' => Single(s')
  BY <1>10, <1>14, <1>16 DEF Single
<1>21. advancing'
  BY <1>3
<1> QED
  BY <1>8, <1>17, <1>18, <1>19, <1>20, <1>21, <1>m DEF IInv

\* A step that does not touch the last update of the timer.
LEMMA SameTicks ==
    ASSUME IInv, s'.tasks[TIMER].lastUpdate = s.tasks[TIMER].lastUpdate, UNCHANGED ticks
    PROVE  TicksKept /\ (Overshoot < TimerPeriod => Punctual')
<1>1. ticks \in Nat /\ s.tasks[TIMER].lastUpdate \in Nat /\ TimerPeriod \in Nat
  BY OKParts, Constants DEF IInv, Flags
<1>2. (ticks' - ticks) * TimerPeriod = 0
  BY <1>1
<1>3. TicksKept
  BY <1>1, <1>2 DEF TicksKept
<1> QED
  BY <1>3 DEF IInv, Punctual

\* A step in which another task than the timer is dispatched or rescheduled, after the
\* delegate may have woken the CPU.
LEMMA OtherTaskStep ==
    ASSUME IInv, NEW wake \in BOOLEAN, sleeping' = (sleeping /\ ~wake),
           NEW sch, sch = IF wake THEN Wakeup(s) ELSE s,
           SchedulerOK(s', PcmPeriods[pcmOutput']), s'.accTime = sch.accTime,
           s'.tasks[TIMER] = sch.tasks[TIMER],
           ~advancing' => Ahead(s'),
           advancing' \in BOOLEAN, pcmSuspended' \in BOOLEAN, pcmOutput' \in BOOLEAN,
           UNCHANGED <<timer, ticks>>
    PROVE  IInv' /\ TicksKept
<1>1. /\ sch.accTime = s.accTime /\ sch.tasks[TIMER].lastUpdate = s.tasks[TIMER].lastUpdate
      /\ ~(sleeping /\ ~wake) => Single(sch)
      /\ (sleeping /\ ~wake) => sch = s
  BY WakeupOK
<1>2. Flags'
  <2>1. sleeping' \in BOOLEAN
    OBVIOUS
  <2> QED
    BY <2>1 DEF IInv, Flags, timer
<1>3. ~sleeping' => Single(s')
  <2>1. Single(sch) => Single(s')
    BY DEF Single
  <2> QED
    BY <1>1, <2>1
<1>4. TicksKept /\ (Overshoot < TimerPeriod => Punctual')
  BY <1>1, SameTicks
<1>5. NoMatchSleptThrough'
  <2>1. sleeping' => s'.tasks[TIMER] = s.tasks[TIMER] /\ sleeping
    BY <1>1
  <2> QED
    BY <2>1 DEF IInv, NoMatchSleptThrough, timer
<1> QED
  BY <1>2, <1>3, <1>4, <1>5 DEF IInv

LEMMA DispatchPcmStep ==
    ASSUME IInv, DispatchPcm
    PROVE  IInv' /\ TicksKept
<1>1. PICK wake \in BOOLEAN :
        /\ sleeping' = (sleeping /\ ~wake)
        /\ s' = Dispatched(IF wake THEN Wakeup(s) ELSE s, PCM, IF pcmSuspended /\ pcmOutput THEN 0 ELSE 1)
  BY DEF DispatchPcm
<1>2. advancing /\ UNCHANGED <<advancing, pcmSuspended, pcmOutput, timer, ticks>>
  BY DEF DispatchPcm
<1>3. PICK sch : sch = IF wake THEN Wakeup(s) ELSE s
  OBVIOUS
<1>4. PICK b \in {0, 1} : b = IF pcmSuspended /\ pcmOutput THEN 0 ELSE 1
  OBVIOUS
<1>5. PICK pp : pp = PcmPeriods[pcmOutput]
  OBVIOUS
<1>6. SchedulerOK(sch, pp) /\ pp \in Nat \ {0}
  BY <1>3, <1>5, WakeupOK, PcmPeriod
<1>7. PICK r : r = s'
  OBVIOUS
<1>8. PICK t \in {PCM, AUX} : t = PCM
  OBVIOUS
<1>9. r = Dispatched(sch, t, b)
  BY <1>1, <1>3, <1>4, <1>7, <1>8
<1>10. SchedulerOK(r, pp) /\ r.accTime = sch.accTime /\ r.tasks[TIMER] = sch.tasks[TIMER]
  BY <1>6, <1>9, OtherDispatched
<1>11. /\ SchedulerOK(s', PcmPeriods[pcmOutput']) /\ s'.accTime = sch.accTime
       /\ s'.tasks[TIMER] = sch.tasks[TIMER]
  BY <1>2, <1>5, <1>7, <1>10
<1>12. advancing' /\ advancing' \in BOOLEAN /\ pcmSuspended' \in BOOLEAN /\ pcmOutput' \in BOOLEAN
  BY <1>2 DEF IInv, Flags
<1> QED
  BY <1>1, <1>2, <1>3, <1>11, <1>12, OtherTaskStep

LEMMA DispatchAuxStep ==
    ASSUME IInv, DispatchAux
    PROVE  IInv' /\ TicksKept
<1>1. PICK wake \in BOOLEAN, again \in BOOLEAN, b \in {0, 1} :
        LET sch == IF wake THEN Wakeup(s) ELSE s
        IN  /\ sleeping' = (sleeping /\ ~wake)
            /\ s' = Dispatched(IF again THEN RescheduleTask(sch, AUX, 1) ELSE sch, AUX, b)
  BY DEF DispatchAux
<1>2. advancing /\ UNCHANGED <<advancing, pcmSuspended, pcmOutput, timer, ticks>>
  BY DEF DispatchAux
<1>3. PICK sch : sch = IF wake THEN Wakeup(s) ELSE s
  OBVIOUS
<1>4. PICK pp : pp = PcmPeriods[pcmOutput]
  OBVIOUS
<1>5. SchedulerOK(sch, pp) /\ pp \in Nat \ {0} /\ MaxTime + pp < Wrap
  BY <1>3, <1>4, WakeupOK, PcmPeriod
<1>6. PICK t \in {PCM, AUX} : t = AUX
  OBVIOUS
<1>7. PICK one \in {0, 1} : one = 1
  OBVIOUS
<1>8. PICK again1 : again1 = IF again THEN RescheduleTask(sch, t, one) ELSE sch
  OBVIOUS
<1>9. SchedulerOK(again1, pp) /\ again1.accTime = sch.accTime /\ again1.tasks[TIMER] = sch.tasks[TIMER]
  <2>1. CASE again
    <3>1. again1 = RescheduleTask(sch, t, one)
      BY <1>8, <2>1
    <3> QED
      BY <1>5, <3>1, OtherRescheduled
  <2>2. CASE ~again
    BY <1>5, <1>8, <2>2
  <2> QED
    BY <2>1, <2>2
<1>10. PICK r : r = s'
  OBVIOUS
<1>11. r = Dispatched(again1, t, b) /\ sleeping' = (sleeping /\ ~wake)
  BY <1>1, <1>3, <1>6, <1>7, <1>8, <1>10
<1>12. SchedulerOK(r, pp) /\ r.accTime = again1.accTime /\ r.tasks[TIMER] = again1.tasks[TIMER]
  BY <1>5, <1>9, <1>11, OtherDispatched
<1>13. /\ SchedulerOK(s', PcmPeriods[pcmOutput']) /\ s'.accTime = sch.accTime
       /\ s'.tasks[TIMER] = sch.tasks[TIMER]
  BY <1>2, <1>4, <1>9, <1>10, <1>12
<1>14. advancing' /\ advancing' \in BOOLEAN /\ pcmSuspended' \in BOOLEAN /\ pcmOutput' \in BOOLEAN
  BY <1>2 DEF IInv, Flags
<1> QED
  BY <1>2, <1>3, <1>11, <1>13, <1>14, OtherTaskStep
\* Nothing is due before the time of the next update, and that time lies ahead.
LEMMA NextAhead ==
    ASSUME NEW sch, NEW pp, SchedulerOK(sch, pp)
    PROVE  Ahead(sch) <=> sch.nextUpdate > sch.accTime
<1>1. PICK h \in TaskTypes :
        /\ sch.tasks[h].batchedTicks > 0 /\ sch.nextUpdate = sch.tasks[h].nextUpdate
        /\ \A t \in TaskTypes : sch.tasks[t].batchedTicks > 0 => sch.nextUpdate <= sch.tasks[t].nextUpdate
  BY OKHead
<1>2. sch.accTime \in Nat /\ \A t \in TaskTypes : sch.tasks[t].nextUpdate \in Nat
  BY OKParts
<1> QED
  BY <1>1, <1>2 DEF Ahead

LEMMA AdvanceStep ==
    ASSUME IInv, Advance
    PROVE  IInv' /\ TicksKept
<1>1. PICK time \in 1 .. ((s.nextUpdate - s.accTime) % Wrap) + Overshoot :
        /\ s.accTime + time <= MaxTime /\ BatchFits(s.accTime + time)
        /\ s' = [s EXCEPT !.accTime = @ + time]
        /\ advancing' = (s.accTime + time >= s.nextUpdate)
  BY DEF Advance
<1>2. ~advancing /\ UNCHANGED <<sleeping, pcmSuspended, pcmOutput, timer, ticks>>
  BY DEF Advance
<1>3. PICK pp : pp = PcmPeriods[pcmOutput]
  OBVIOUS
<1>4. /\ Flags /\ SchedulerOK(s, pp) /\ Ahead(s) /\ NoMatchSleptThrough
      /\ ~sleeping => Single(s)
  BY <1>2, <1>3 DEF IInv
<1>5. PICK acc \in Nat : acc = s.accTime
  BY <1>4, OKParts
<1>6. PICK next \in Nat : next = s.nextUpdate /\ next > acc /\ next < Wrap
  <2>1. s.nextUpdate \in Clock /\ s.nextUpdate > s.accTime
    BY <1>4, NextAhead, OKParts, ScheduleFields
  <2> QED
    BY <1>5, <2>1, Constants DEF Clock
<1>7. (s.nextUpdate - s.accTime) % Wrap = next - acc
  <2>1. next - acc \in Int /\ 0 <= next - acc /\ next - acc < Wrap
    BY <1>6, Constants
  <2> QED
    BY <1>5, <1>6, <2>1, ClockOnce
<1>8. time \in Nat /\ time > 0 /\ acc + time <= next + Overshoot
  BY <1>1, <1>6, <1>7, Constants
<1>9. PICK r : r = s'
  OBVIOUS
<1>10. /\ r \in Schedulers /\ r.accTime = acc + time /\ r.nextUpdate = next
       /\ r.tasks = s.tasks /\ r.queue = s.queue
  <2>1. s \in Schedulers /\ acc + time \in Nat
    BY <1>4, <1>8, OKParts
  <2> QED
    BY <1>1, <1>5, <1>6, <1>9, <2>1 DEF Schedulers
<1>11. InOrder(r) /\ HeadKnown(r)
  <2>1. InOrder(s) /\ HeadKnown(s) /\ s.queue[Front] <= MaxTask
    BY <1>4, OKParts, OKHead
  <2>2. InOrder(r)
    BY <1>10, <2>1, SameOrder
  <2>3. HeadKnown(r)
    BY <1>6, <1>10, <2>1 DEF HeadKnown
  <2> QED
    BY <2>2, <2>3
<1>12. TimerOK(r)
  <2>1. TimerOK(s) /\ TIMER \in TaskTypes /\ s.tasks[TIMER].nextUpdate \in Nat /\ s.tasks[TIMER].lastUpdate \in Nat
        /\ s.tasks[TIMER].batchedTicks \in Nat
    BY <1>4, OKParts, Constants
  <2>2. s.tasks[TIMER].batchedTicks > 0
    BY <2>1, Constants DEF TimerOK
  <2>3. next <= s.tasks[TIMER].nextUpdate
    BY <1>4, <1>6, <2>1, <2>2, OKHead
  <2>4. Overshoot < TimerPeriod => acc + time < s.tasks[TIMER].nextUpdate + TimerPeriod
    BY <1>8, <2>1, <2>3, Constants
  <2>6. acc + time < s.tasks[TIMER].lastUpdate + TimerWrap * TimerPeriod
    BY <1>1, <1>5 DEF BatchFits
  <2>5. s.tasks[TIMER].lastUpdate <= acc + time
    BY <1>5, <1>8, <2>1 DEF TimerOK
  <2> QED
    BY <1>10, <2>1, <2>4, <2>5, <2>6 DEF TimerOK
<1>13. SchedulerOK(r, pp)
  <2>1. OneTick(s, AUX, AuxPeriod) /\ OneTick(s, PCM, pp)
    BY <1>4, OKParts
  <2>2. OneTick(r, AUX, AuxPeriod) /\ OneTick(r, PCM, pp)
    BY <1>10, <2>1 DEF OneTick
  <2>3. r.accTime <= MaxTime
    BY <1>1, <1>5, <1>10
  <2> QED
    BY <1>10, <1>11, <1>12, <2>2, <2>3 DEF SchedulerOK
<1>14. ~advancing' => Ahead(r)
  <2>1. ~advancing' => r.nextUpdate > r.accTime
    <3>1. ~advancing' => ~(s.accTime + time >= s.nextUpdate)
      BY <1>1, Zenon
    <3> QED
      BY <1>5, <1>6, <1>8, <1>10, <3>1
  <2> QED
    BY <1>13, <2>1, NextAhead
<1>15. ~sleeping' => Single(r)
  <2>1. s.tasks[TIMER].nextUpdate \in Nat
    BY <1>4, OKParts, Constants
  <2> QED
    BY <1>2, <1>4, <1>5, <1>8, <1>10, <2>1 DEF Single
<1>16. Flags'
  <2>1. advancing' \in BOOLEAN
    BY <1>1
  <2> QED
    BY <1>2, <1>4, <2>1 DEF Flags, timer
<1>17. TicksKept /\ (Overshoot < TimerPeriod => Punctual') /\ NoMatchSleptThrough'
  <2>1. NoMatchSleptThrough'
    BY <1>2, <1>4, <1>9, <1>10 DEF NoMatchSleptThrough, timer
  <2> QED
    BY <1>2, <1>9, <1>10, <2>1, SameTicks
<1> QED
  BY <1>2, <1>3, <1>9, <1>13, <1>14, <1>15, <1>16, <1>17 DEF IInv

LEMMA AdvanceEndsStep ==
    ASSUME IInv, AdvanceEnds
    PROVE  IInv' /\ TicksKept
<1>1. /\ advancing /\ DueTask(s) = NoTask /\ s' = UpdateNextUpdate(s) /\ advancing' = FALSE
      /\ UNCHANGED <<sleeping, pcmSuspended, pcmOutput, timer, ticks>>
  BY DEF AdvanceEnds
<1>2. PICK pp : pp = PcmPeriods[pcmOutput]
  OBVIOUS
<1>3. /\ Flags /\ SchedulerOK(s, pp) /\ NoMatchSleptThrough
      /\ ~sleeping => Single(s)
  BY <1>2 DEF IInv
<1>4. PICK r : r = s'
  OBVIOUS
<1>5. /\ r \in Schedulers /\ HeadKnown(r) /\ r.accTime = s.accTime /\ r.tasks = s.tasks /\ r.queue = s.queue
  BY <1>1, <1>3, <1>4, OKParts, Updated
<1>6. SchedulerOK(r, pp)
  <2>1. InOrder(r)
    BY <1>3, <1>5, OKParts, SameOrder
  <2> QED
    BY <1>3, <1>5, <2>1 DEF SchedulerOK, TimerOK, OneTick
<1>7. Ahead(r)
  <2>1. /\ s.queue[Front] \in TaskTypes /\ s.queue[Front] <= MaxTask
        /\ s.nextUpdate = s.tasks[s.queue[Front]].nextUpdate
    BY <1>3, OKHead
  <2>2. ~(s.tasks[s.queue[Front]].nextUpdate <= s.accTime)
    BY <1>1, <2>1, Constants DEF DueTask
  <2>3. s.nextUpdate \in Nat /\ s.accTime \in Nat
    BY <1>3, <2>1, OKParts
  <2>4. s.nextUpdate > s.accTime
    BY <2>1, <2>2, <2>3
  <2>5. Ahead(s)
    BY <1>3, <2>4, NextAhead
  <2> QED
    BY <1>5, <2>5 DEF Ahead
<1>8. ~sleeping' => Single(r)
  BY <1>1, <1>3, <1>5 DEF Single
<1>9. Flags'
  BY <1>1, <1>3 DEF Flags, timer
<1>10. TicksKept /\ (Overshoot < TimerPeriod => Punctual') /\ NoMatchSleptThrough'
  <2>1. NoMatchSleptThrough'
    BY <1>1, <1>3, <1>4, <1>5 DEF NoMatchSleptThrough, timer
  <2> QED
    BY <1>1, <1>4, <1>5, <2>1, SameTicks
<1> QED
  BY <1>1, <1>2, <1>4, <1>6, <1>7, <1>8, <1>9, <1>10 DEF IInv

LEMMA WriteTimerStep ==
    ASSUME IInv, WriteTimer
    PROVE  IInv' /\ TicksKept
<1>1. ~sleeping /\ UNCHANGED <<s, advancing, sleeping, pcmSuspended, pcmOutput, ticks>>
  BY DEF WriteTimer
<1>2. oscr' \in Counts /\ osmr' \in Counts /\ oier' \in BOOLEAN /\ ossr' \in BOOLEAN
  BY DEF WriteTimer, IInv, Flags
<1>3. Flags'
  BY <1>1, <1>2 DEF IInv, Flags
<1>4. NoMatchSleptThrough'
  BY <1>1 DEF NoMatchSleptThrough
<1>5. TicksKept /\ (Overshoot < TimerPeriod => Punctual')
  BY <1>1, SameTicks
<1> QED
  BY <1>1, <1>3, <1>4, <1>5 DEF IInv

LEMMA SleepStep ==
    ASSUME IInv, Sleep
    PROVE  IInv' /\ TicksKept
<1>1. /\ ~advancing /\ ~sleeping /\ sleeping' = TRUE
      /\ s' = RescheduleTaskAtLeast(s, TIMER, TicksToNextInterrupt(oscr, osmr, oier, ossr))
      /\ UNCHANGED <<advancing, pcmSuspended, pcmOutput, timer, ticks>>
  BY DEF Sleep
<1>2. PICK pp : pp = PcmPeriods[pcmOutput]
  OBVIOUS
<1>3. Flags /\ SchedulerOK(s, pp) /\ Ahead(s) /\ Single(s)
  BY <1>1, <1>2 DEF IInv
<1>4. PICK b : b = TicksToNextInterrupt(oscr, osmr, oier, ossr)
  OBVIOUS
<1>5. b \in 1 .. TimerWrap - 1 /\ (oier => b <= SleepBound(oscr, osmr, ossr))
  BY <1>3, <1>4, TicksInRange DEF Flags
<1>6. PICK r : r = s'
  OBVIOUS
<1>7. r = RescheduleTaskAtLeast(s, TIMER, b)
  BY <1>1, <1>4, <1>6
<1>8. /\ SchedulerOK(r, pp) /\ Ahead(r)
      /\ r.tasks[TIMER].lastUpdate = s.tasks[TIMER].lastUpdate /\ r.tasks[TIMER].batchedTicks = b
  BY <1>3, <1>5, <1>7, TimerAsleep
<1>9. Flags'
  BY <1>1, <1>3 DEF Flags, timer
<1>10. TicksKept /\ (Overshoot < TimerPeriod => Punctual')
  BY <1>1, <1>6, <1>8, SameTicks
<1>11. NoMatchSleptThrough'
  <2>1. sleeping' /\ oier' => s'.tasks[TIMER].batchedTicks <= SleepBound(oscr', osmr', ossr')
    BY <1>1, <1>5, <1>6, <1>8 DEF timer
  <2> QED
    BY <2>1 DEF NoMatchSleptThrough, SleepBound
<1> QED
  BY <1>1, <1>2, <1>6, <1>8, <1>9, <1>10, <1>11 DEF IInv

LEMMA DemandStep ==
    ASSUME IInv, Demand
    PROVE  IInv' /\ TicksKept
<1>1. /\ ~advancing /\ s' = RescheduleTask(s, AUX, 1)
      /\ UNCHANGED <<advancing, sleeping, pcmSuspended, pcmOutput, timer, ticks>>
  BY DEF Demand
<1>2. PICK pp : pp = PcmPeriods[pcmOutput]
  OBVIOUS
<1>3. SchedulerOK(s, pp) /\ pp \in Nat \ {0} /\ MaxTime + pp < Wrap /\ Ahead(s) /\ Flags
  BY <1>1, <1>2, PcmPeriod DEF IInv
<1>4. PICK t \in {PCM, AUX} : t = AUX
  OBVIOUS
<1>5. PICK one \in {0, 1} : one = 1
  OBVIOUS
<1>6. PICK r : r = s'
  OBVIOUS
<1>7. r = RescheduleTask(s, t, one)
  BY <1>1, <1>4, <1>5, <1>6
<1>8. SchedulerOK(r, pp) /\ r.accTime = s.accTime /\ r.tasks[TIMER] = s.tasks[TIMER] /\ Ahead(r)
  BY <1>3, <1>7, OtherRescheduled
<1>9. PICK wake \in BOOLEAN : wake = FALSE
  OBVIOUS
<1>10. sleeping' = (sleeping /\ ~wake) /\ s = (IF wake THEN Wakeup(s) ELSE s)
  BY <1>1, <1>3, <1>9 DEF Flags
<1>11. /\ SchedulerOK(s', PcmPeriods[pcmOutput']) /\ s'.accTime = s.accTime /\ Ahead(s')
       /\ s'.tasks[TIMER] = s.tasks[TIMER]
  BY <1>1, <1>2, <1>6, <1>8
<1>12. advancing' \in BOOLEAN /\ pcmSuspended' \in BOOLEAN /\ pcmOutput' \in BOOLEAN
  BY <1>1, <1>3 DEF Flags
<1> QED
  BY <1>1, <1>10, <1>11, <1>12, OtherTaskStep

LEMMA SetPcmSuspendedStep ==
    ASSUME IInv, SetPcmSuspended
    PROVE  IInv' /\ TicksKept
<1>1. /\ ~advancing /\ pcmSuspended' = ~pcmSuspended
      /\ s' = IF pcmOutput THEN RescheduleTask(s, PCM, IF pcmSuspended' THEN 0 ELSE 1) ELSE s
      /\ UNCHANGED <<advancing, sleeping, pcmOutput, timer, ticks>>
  BY DEF SetPcmSuspended
<1>2. PICK pp : pp = PcmPeriods[pcmOutput]
  OBVIOUS
<1>3. SchedulerOK(s, pp) /\ pp \in Nat \ {0} /\ MaxTime + pp < Wrap /\ Ahead(s) /\ Flags
  BY <1>1, <1>2, PcmPeriod DEF IInv
<1>4. PICK t \in {PCM, AUX} : t = PCM
  OBVIOUS
<1>5. PICK b \in {0, 1} : b = IF pcmSuspended' THEN 0 ELSE 1
  OBVIOUS
<1>6. PICK r : r = s'
  OBVIOUS
<1>7. r = IF pcmOutput THEN RescheduleTask(s, t, b) ELSE s
  BY <1>1, <1>4, <1>5, <1>6
<1>8. SchedulerOK(r, pp) /\ r.accTime = s.accTime /\ r.tasks[TIMER] = s.tasks[TIMER] /\ Ahead(r)
  <2>1. CASE pcmOutput
    <3>1. r = RescheduleTask(s, t, b)
      BY <1>7, <2>1
    <3> QED
      BY <1>3, <3>1, OtherRescheduled
  <2>2. CASE ~pcmOutput
    BY <1>3, <1>7, <2>2
  <2> QED
    BY <2>1, <2>2
<1>9. PICK wake \in BOOLEAN : wake = FALSE
  OBVIOUS
<1>10. sleeping' = (sleeping /\ ~wake) /\ s = (IF wake THEN Wakeup(s) ELSE s)
  BY <1>1, <1>3, <1>9 DEF Flags
<1>11. /\ SchedulerOK(s', PcmPeriods[pcmOutput']) /\ s'.accTime = s.accTime /\ Ahead(s')
       /\ s'.tasks[TIMER] = s.tasks[TIMER]
  BY <1>1, <1>2, <1>6, <1>8
<1>12. advancing' \in BOOLEAN /\ pcmSuspended' \in BOOLEAN /\ pcmOutput' \in BOOLEAN
  BY <1>1, <1>3 DEF Flags
<1> QED
  BY <1>1, <1>10, <1>11, <1>12, OtherTaskStep

LEMMA SetPcmOutputEnabledStep ==
    ASSUME IInv, SetPcmOutputEnabled
    PROVE  IInv' /\ TicksKept
<1>1. /\ ~advancing /\ pcmOutput' = ~pcmOutput
      /\ s' = ScheduleTask(s, PCM, PcmPeriods[pcmOutput'], IF pcmSuspended THEN 0 ELSE 1)
      /\ UNCHANGED <<advancing, sleeping, pcmSuspended, timer, ticks>>
  BY DEF SetPcmOutputEnabled
<1>2. PICK pp : pp = PcmPeriods[pcmOutput]
  OBVIOUS
<1>3. SchedulerOK(s, pp) /\ Ahead(s) /\ Flags
  BY <1>1, <1>2 DEF IInv
<1>4. pcmOutput' \in BOOLEAN
  BY <1>1
<1>5. PICK np \in Nat \ {0} : np = PcmPeriods[pcmOutput'] /\ MaxTime + np < Wrap
  BY <1>4, Constants
<1>6. PICK b \in {0, 1} : b = IF pcmSuspended THEN 0 ELSE 1
  OBVIOUS
<1>7. PICK r : r = s'
  OBVIOUS
<1>8. r = ScheduleTask(s, PCM, np, b)
  BY <1>1, <1>5, <1>6, <1>7
<1>9. SchedulerOK(r, np) /\ r.accTime = s.accTime /\ r.tasks[TIMER] = s.tasks[TIMER] /\ Ahead(r)
  BY <1>3, <1>5, <1>8, PcmScheduled
<1>10. PICK wake \in BOOLEAN : wake = FALSE
  OBVIOUS
<1>11. sleeping' = (sleeping /\ ~wake) /\ s = (IF wake THEN Wakeup(s) ELSE s)
  BY <1>1, <1>3, <1>10 DEF Flags
<1>12. /\ SchedulerOK(s', PcmPeriods[pcmOutput']) /\ s'.accTime = s.accTime /\ Ahead(s')
       /\ s'.tasks[TIMER] = s.tasks[TIMER]
  BY <1>5, <1>7, <1>9
<1>13. advancing' \in BOOLEAN /\ pcmSuspended' \in BOOLEAN
  BY <1>1, <1>3 DEF Flags
<1> QED
  BY <1>1, <1>4, <1>11, <1>12, <1>13, OtherTaskStep

LEMMA StutterStep ==
    ASSUME IInv, UNCHANGED vars
    PROVE  IInv'
BY DEF vars, IInv, Flags, Punctual, NoMatchSleptThrough

-----------------------------------------------------------------------------
(***************************************************************************)
(* The theorems.                                                           *)
(***************************************************************************)

\* The inductive invariant, through every dispatch, wakeup, sleep and reschedule.
THEOREM Invariant == Spec => []IInv
<1>1. IInv /\ [Next]_vars => IInv'
  BY DispatchTimerStep, DispatchPcmStep, DispatchAuxStep, AdvanceStep, AdvanceEndsStep, WriteTimerStep,
     SleepStep, DemandStep, SetPcmSuspendedStep, SetPcmOutputEnabledStep, StutterStep DEF Next, Dispatch
<1> QED
  BY InitIInv, <1>1, PTL DEF Spec

\* Every variable keeps its type: times stay within their width, and no batch reaches the
\* range of the timer's counter.
THEOREM TypeCorrect == Spec => []TypeOK
<1>1. IInv => TypeOK
  <2> SUFFICES ASSUME IInv PROVE TypeOK
    OBVIOUS
  <2>1. PICK pp : pp = PcmPeriods[pcmOutput]
    OBVIOUS
  <2>2. Flags /\ SchedulerOK(s, pp)
    BY <2>1 DEF IInv
  <2>3. s.accTime \in 0 .. MaxTime
    BY <2>2, OKParts, Constants
  <2>4. s.nextUpdate \in Times /\ s.queue \in Links /\ s.tasks \in [TaskTypes -> Tasks]
    BY <2>2, OKParts, ScheduleFields DEF Clock, Times
  <2>5. ASSUME NEW t \in TaskTypes PROVE s.tasks[t].batchedTicks \in Counts
    <3>1. TimerOK(s) /\ OneTick(s, AUX, AuxPeriod) /\ OneTick(s, PCM, pp)
      BY <2>2, OKParts
    <3>2. s.tasks[TIMER].batchedTicks \in Counts
      BY <3>1, Constants DEF TimerOK, Counts
    <3>3. s.tasks[AUX].batchedTicks \in Counts /\ s.tasks[PCM].batchedTicks \in Counts
      BY <3>1, Constants DEF OneTick, Counts
    <3> QED
      BY <3>2, <3>3, Constants
  <2>6. s.tasks \in [TaskTypes -> [period : Nat, lastUpdate : Times, nextUpdate : Times, batchedTicks : Counts]]
    <3>1. ASSUME NEW t \in TaskTypes
          PROVE  s.tasks[t] \in [period : Nat, lastUpdate : Times, nextUpdate : Times, batchedTicks : Counts]
      BY <2>4, <2>5 DEF Tasks, Clock, Times
    <3> QED
      BY <2>4, <3>1
  <2>7. {advancing, sleeping, pcmSuspended, pcmOutput, oier, ossr} \subseteq BOOLEAN
    BY <2>2 DEF Flags
  <2> QED
    BY <2>2, <2>3, <2>4, <2>6, <2>7 DEF TypeOK, Flags, Links
<1> QED
  BY <1>1, Invariant, PTL

\* The links always form a list of exactly the tasks that have a batch, each once, in the
\* order of their due times, whatever a delegate did to the list within a dispatch.
THEOREM QueueStaysSound == Spec => []QueueSound
<1>1. IInv => QueueSound
  BY OKParts DEF IInv, QueueSound
<1> QED
  BY <1>1, Invariant, PTL

\* Whenever the CPU loop asks for the cycles to the next update, that time lies ahead and
\* nothing is due before it.
THEOREM NextUpdateIsAhead == Spec => []NextUpdateAhead
<1>1. IInv => NextUpdateAhead
  <2> SUFFICES ASSUME IInv, ~advancing PROVE NextUpdateAhead
    BY DEF NextUpdateAhead
  <2>1. PICK pp : pp = PcmPeriods[pcmOutput]
    OBVIOUS
  <2>2. SchedulerOK(s, pp) /\ Ahead(s)
    BY <2>1 DEF IInv
  <2>3. s.nextUpdate > s.accTime
    BY <2>2, NextAhead
  <2>4. \A t \in TaskTypes : s.tasks[t].batchedTicks > 0 => s.nextUpdate <= s.tasks[t].nextUpdate
    BY <2>2, OKHead
  <2>5. s.nextUpdate \in Nat /\ \A t \in TaskTypes : s.tasks[t].nextUpdate \in Nat
    BY <2>2, OKParts, OKHead
  <2> QED
    BY <2>3, <2>4, <2>5 DEF NextUpdateAhead
<1> QED
  BY <1>1, Invariant, PTL

\* The timer is given every tick once, through sleep, batches and wakeups in the middle of
\* a dispatch, whatever the speed. Only if its own interrupt wakes the CPU while it is a tick
\* or more behind are the ticks up to the present lost.
THEOREM TimerLosesNoTick == Spec => TimerKeepsTime
<1>1. IInv /\ [Next]_vars => [TicksKept \/ LateWakeup]_vars
  BY DispatchTimerStep, DispatchPcmStep, DispatchAuxStep, AdvanceStep, AdvanceEndsStep, WriteTimerStep,
     SleepStep, DemandStep, SetPcmSuspendedStep, SetPcmOutputEnabledStep DEF Next, Dispatch
<1> QED
  BY <1>1, Invariant, PTL DEF Spec, TimerKeepsTime

\* At speeds at which no round of socRun misses an update by a period of the timer, the
\* timer never loses a tick: what it has been given is the time of its last update.
THEOREM TimerExact ==
    ASSUME Overshoot < TimerPeriod
    PROVE  Spec => []Punctual
<1>1. IInv => Punctual
  BY DEF IInv
<1> QED
  BY <1>1, Invariant, PTL

\* No batch of a sleeping CPU reaches beyond the next match of the timer.
THEOREM NoMatchIsSleptThrough == Spec => []NoMatchSleptThrough
<1>1. IInv => NoMatchSleptThrough
  BY DEF IInv
<1> QED
  BY <1>1, Invariant, PTL
===============================================================================
