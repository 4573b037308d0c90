# CloudpilotEmu: a verification project in TLA+

CloudpilotEmu emulates PalmOS devices in the browser. The repository holds two
emulators: the Dragonball emulator (C++, derived from POSE) with its progressive
web app (PWA), and uARM, an emulator of ARM based devices with a small web page of
its own. This project models the parts of both in which several actors take turns:
the emulated machine, the page, workers, IndexedDB, a proxy server and the user. The
TLA+ modules are model-checked with TLC, and most of the invariants are proved with
TLAPS for every value of the constants.

`PROJECT.json` lists components, runs, mutants, findings, hazards, theorems and, for
every definition, the source lines it stands for.

## 1. Inventory of the system

| Component | State it keeps | Operations | Talks to |
|---|---|---|---|
| SnapshotService (`web/pwa/.../snapshot.service.ts`) | bitmap of pages to write, id of the session, error count, pending promise | initialize, triggerSnapshot, waitForPendingSnapshot, resetCard | emulator memory (direct access to its bitmap), IndexedDB, ErrorService |
| EmulationService and the emulation loop (`emulation.service.ts`, `web/common/service/AbstractEmulationService.ts`) | running, current session, a mutex | pause, resume, stop, switchSession, advanceEmulation | awaits SnapshotService; calls the emulator; notifies Network and Clipboard of suspension |
| StorageService (`storage.service.ts`) | IndexedDB stores, page lock | acquireLock, update, import, delete, load | one readwrite transaction at a time over the lock store |
| StorageCardService and StorageCardContext | owner of each card | insert, eject, check, browse, delete, import, export | SnapshotService, StorageService, emulator, fstools, VfsService |
| VfsService (`vfs.service.ts`) | images of up to two cards, the one in front, a clipboard | mount, activate, release, change and sync, copy, paste | StorageService, StorageCardContext |
| Dirty page tracking (`EmMemory.cpp`, `EmBankDRAM.cpp`) | one bit per page | store, initialize | read and cleared by SnapshotService |
| NetworkService, NetworkSession, backends | current session, mutex per session, socket | handleSuspend, reset, connect, rpc, disconnect | emulator's suspend context; proxy server over a web socket |
| NetworkProxy, SuspendManager | open count, request id, suspend context | Open, Close, socket calls, Reset | suspends the machine; dispatches onDisconnect |
| ClipboardService and the clipboard patches | the context it will resume, held across an await | copy, paste, switching the integration | suspends the machine; the host's clipboard, dialogs |
| Proxy server (`server/connection.py`, `socket_context.py`) | per connection a list of sockets, per socket its timeout and flags | one request after the other, each in up to three awaited system calls; closing all sockets at the end | web socket; sockets of the operating system |
| uARM worker (`uarm/assets/worker.js`) | pages and bitmaps of NAND, SD and RAM, pending snapshot, pending stop | time slice, triggerSnapshot, start, stop, snapshotDone | messages to and from the page |
| uARM page (`emulator.js`, `index.js`, `database.js`) | images of the page load, stop promises, checksums on disk | stop, start, hide, show, export, upload, import, restart | worker messages; IndexedDB |
| uARM scheduler and timer (`scheduler.h`, `socPXA.cpp`, `pxa_TIMR.c`) | task list, time, counter and match registers | schedule, reschedule, advance, dispatch, sleep, wake | CPU loop; devices reschedule from within a dispatch |
| CPU, MMU and devices of both emulators; save state format; VFS; fstools; native and embedded front ends; UI | | | see section 8 |

What is hard about them:

- **A snapshot is not atomic.** Pages are copied, the bitmap of the emulator is
  cleared, a transaction is opened, it commits, its complete event is delivered, and
  only then is the second bitmap cleared. The machine goes on storing all the time, a
  timeout may strike at each point, and a reload may end everything.
- **Callers wait for snapshots** (pause, stop, session switch, eject, install, stop
  of the uARM worker), and those promise things about the disk.
- **Answers are not tied to questions** by anything but order: `stopped` messages of
  the uARM worker, responses of the proxy, completion of an old connection attempt,
  the end of a clipboard operation.
- **Copies of one image** live in IndexedDB, the emulator, the VFS and fsck. A claim in
  memory says who may write, while every operation on it is a chain of awaits that the
  user can start others between, and session records are written back as a whole.
- **Unsigned time** in the uARM scheduler, and tasks that change the list that is
  being walked.

The hazards are listed in `PROJECT.json` with the line at which they bite and the
properties that watch them. Those without a property say why.

## 2. Modules

| Module | Models | State and actions |
|---|---|---|
| `Checkpoint` | abstract specification of persistence | the disk holds, per session, an image the machine had at one instant |
| `Snapshot` | SnapshotService, the waiting parts of EmulationService, StorageCardService and installation, dirty tracking, IndexedDB transactions, page lock | see 2.1 |
| `SnapshotProof` | theorems about `Snapshot`; `Snapshot` implements `Checkpoint` | |
| `UarmSnapshot` | worker.js, emulator.js, index.js, database.js | see 2.2 |
| `Scheduler` | scheduler.h, operators on a scheduler record | |
| `SocTime` | socRun, socSleep, wakeups and the OS timer, over `Scheduler` | see 2.3 |
| `Network` | NetworkProxy, SuspendManager, NetworkService, NetworkSession, proxy backend, order of the server, ClipboardService | see 2.4 |
| `ProxySockets` | the socket calls of NetworkProxy, connection.py, socket_context.py | see 2.5 |
| `Cards` | StorageCardService, StorageCardContext, VfsService, the card of a session in EmulationService, the records in IndexedDB | see 2.6 |
| `UarmSnapshotProof`, `SchedulerProof`, `SocTimeProof`, `NetworkProof`, `ProxySocketsProof`, `CardsProof` | theorems about the modules they are named after | |
| `CardsSequentialProof` | theorems about the behaviours of `Cards` in which operations never overlap | |
| `MC*` | instances for TLC | symmetry and constant functions only |

A definition named as a *Fault* in its comment is the mutated form of the one after
it. It belongs to the mutation tests of section 7 and is used by no specification.

### 2.1 Snapshot

Memory and card pages form one function `mem`: the service treats them alike (a
bitmap in the emulator, one in the service, one transaction). The state the machine
has outside its memory is one value, `cpu`; `saveState` may fail, and the state is
then deleted. `phase` is the `await` at which `triggerSnapshotOnce` stands: the lock,
the lookup of the card, or the transaction. `tx` is the transaction that holds writes:
open (abort is possible), committing (abort throws and does nothing), done (the event
is queued) or aborted in silence. `at[w]` is where a caller `w` of
`waitForPendingSnapshot` and `triggerSnapshot` stands.

Each handler is one action from one `await` to the next. `Fail` is the catch block of
`triggerSnapshotUnguarded`, `Settle` the continuation of those who await the promise.
`Load` is everything that `switchSession` does after the stop; the emulation mutex
and the database serialise it. `Reload` is a closed, killed or reloaded page: a commit
under way made it or did not. `OtherTabOpens` and `OtherTabSaves` are another page
that takes the lock.

Two restrictions come from the user interface: eject is offered by a menu that stays
open until the card is out, so a stop does not start during an eject, and at most one
pause, one stop and one eject are under way. A user can dismiss the menu; operations on
cards that overlap for that reason are the subject of `Cards`.

### 2.2 UarmSnapshot

Worker and page exchange messages in order (`inbox`, `outbox`); transactions are
worked off in the order they were opened (`txq`). A stop that arrives during a
snapshot is answered by `WorkerSnapshotDone`. `Stop(caller)` waits for `this.stopping`
first, which `waiting` and `stopper` represent: all calls that wait for one answer
continue when it comes. The page is modelled with checksum verification switched on,
because its checks state what the disk should look like. Bounds: `MaxStarts`,
`MaxWaiting`, and one export or upload at a time.

### 2.3 Scheduler and SocTime

`Scheduler` translates the list operations. The two loops along the links are recursive
functions of the number of iterations; a loop that has ended stays as it is, and no loop
reads more than `MaxTask + 2` links. Times are integers modulo `Wrap`, which
stands for 2^64, so the unsigned subtractions of the code wrap. `SocTime` has one task
for the OS timer, one for PCM output (suspended, resumed and retimed from outside) and
one that stands for the devices scheduled on demand. `Advance` is interruptible: each
dispatch is a step in which the delegate may reschedule tasks, among them the timer
when it wakes a sleeping CPU. `Overshoot` is the time by which a round of `socRun` may
miss the next update: `CyclesToNextUpdate` rounds up to whole cycles, and the last
instruction may take several. `SocTimeAssumption` does not limit it. The speed is measured
and floored at 1 MIPS (`MainLoop.cpp:90`), where one cycle is longer than a period of the
timer (271 ns at 3.6864 MHz), and native builds take any value. The assumption says that a
full round of the timer (2^32 ticks, 20 minutes) and a period of each of the other tasks
still fit between `MaxTime` and the end of the 64-bit clock, 584 years in nanoseconds.
`BatchFits` is a bound: the timer is handled before the ticks it is behind overflow 32 bits.
`Advance` takes any time up to `nextUpdate` as it is; `socRun` has computed the length of the
slice before the CPU runs, and a task that is put earlier within the slice (`Demand`) is one
that the model finds due at the next step just as the code does after the slice.

### 2.4 Network

A call of the net library suspends the machine and is handed to `NetworkService` in
one step, as `advanceEmulation` does. Each `NetworkSession` has a queue of operations,
its mutex; a terminated session still works it off. `ConnectFails` resets the service
whichever session it has by then, as the code does. `Drop` loses a connection;
`Serve` is the server, which handles the requests of a connection one by one. The
mutex is handed over by microtasks in the browser; the model lets other steps come in
between, which also covers the native backend.

`redirection` is the setting. While it is off the machine makes no network call. Switching
it off (`ToggleRedirection`) runs `NetworkProxy::Reset` in the emulator first, which zeroes
the open count and, if the library was open, cancels the call the machine waits for
(`CancelCall`); `NetworkService.reset` follows in either direction. While the connection is
still being made the library does not count as open, and the call is not cancelled.

The machine has one suspend context. A clipboard call puts its own there
(`ClipboardCall`), and `ClipboardService` keeps a pointer to it while it waits for the
browser, the host application or the user. When it ends, well or badly, it calls Resume
or Cancel on that pointer, and both end in `SuspendManager::Resume`, which deletes the
*current* context (`ClipboardDone`). After a reset this is another call's context, or
none. Calling a member of a deleted object is undefined behaviour; every outcome that
does not trap deletes the current context. `ToggleClipboard` cancels nothing, as the
condition in `Feature.cpp` can never hold. Copy and paste are one kind of operation.

Bounds: `MaxSessions` connection attempts, `MaxRequests` requests, `MaxClips` clipboard
calls.

### 2.5 ProxySockets

One connection of the proxy server and the program that uses it. `held` is what the
program knows: the handles it was given and, for the properties, the socket each was
given out for. `handler` is the coroutine of `_handleMessage`: the request, the awaited
call at which it stands (`stage`), the handle it has reserved, the limit of the request
and how much of it is used up. `ctx` holds the fields of each `SocketContext` and
whether its socket is open. A call of the program is an action (`SocketOpen`, ...); its
continuations are `SocketOpenSuccess`, `SocketAcceptSuccess` and, for all others,
`CallReturns`. Data, addresses and error codes are left out: a request succeeds or
fails. `Disconnect` may strike between any two steps. Bound: `MaxSockets` sockets per
connection; `Connect` starts the next one.

### 2.6 Cards

A card has a record with a status (clean, dirty, unformatted, unfixable) and an image
in IndexedDB. Copies of the image are in the emulator (`emu`), in the two slots of the
VFS (`vfs`) and in the fsck context of an operation. `owner` is the map of
StorageCardContext. The contents of images are abstracted to two facts: `stale`, which
copies are older than the disk, and `disk.health`, what fsck would find on the disk.

`op[o]` is an operation of kind `o` and the await at which it stands. Those that await a
transaction queue in `dbq`: every transaction of StorageService locks the lock store for
writing, so IndexedDB serves them in the order in which they were created. Jobs of the
emulation mutex queue in `jobs`; a job that can have the mutex runs before any other
event. An action is the code from one await to the next; a chain of awaits that only
resolve promises already settled is one action. Waiting for a loader to come up is an await
of its own (`LoaderSteps`): what was under way before goes on meanwhile. An assertion that fails, or an exception
in a guarded method of StorageService, is `Die`: the app refuses the database from then
on and only `Reload` follows. Where an exception ends an operation that has claimed a
card and nobody releases it, the card is recorded in `stuck`.

What the user can start is limited as in the interface: nothing while a loader or a
dialog is shown (`Modal`; a loader counts as shown from its `create()` on), and no second
operation of a kind that is debounced. Eject is not debounced, and its menu can be
dismissed: a second tap is `"eject2"`. `insertCard` has no `@debounce` either, and one
insertion at a time is a bound. Operations that were started before a dialog came up go on
behind it. `Overlaps` is the bound on which operations may be under way at once, for the
cards and sessions there are; no property and no proof looks at it. `overlap` records whether operations under way were
alone, and apart from that whether one that puts back a whole session record (launch,
reset, edit) ever was not.

Where steps are merged: `SessionOf` and `MountedIn` read the records on disk, while
`mountedInSession` reads the list that SessionService refreshes with a transaction of its own
after each change; `ResetState` is the two transactions of `sessions.page.ts:160` in one;
`RunChange` does not wait for `pause` and `resume`, which hold the emulation mutex for the
length of a snapshot and touch no card.

## 3. Runs

| Run | Instance | Checks |
|---|---|---|
| `snapshot` | 1 session, 1 page and the metadata page, 1 card page, no retry | type, `NoLostWrite`, `PauseSaves`, `AtomicCheckpoints` |
| `snapshot_tabs` | no card, 1 retry, another tab | `LockRespected`, `AtomicCheckpoints`, `SnapshotEnds`, `StopCompletes` |
| `snapshot_sessions` | 2 sessions (symmetric), no card, no retry | `SnapshotsRunningSession`, `AtomicCheckpoints` |
| `uarm_ram` | 2 RAM pages; export, NOR and NAND upload, session import | type, `WritesKept`, `RamChecksumValid`, `StopHonoured` |
| `uarm_nand` | 1 NAND page; export, NAND upload; fairness | `WritesKept`, `NandChecksumValid`, `StopAnswered`, `PausesWhenHidden` |
| `soc_time` | 3 tasks, timer of period 2 counting modulo 4, overshoot up to 3, 7 units of time | `QueueSound`, `NextUpdateAhead`, `TimerKeepsTime`, `NoMatchSleptThrough` |
| `network` | 2 connections, 3 requests, 2 clipboard calls | type, `NoStrayResponse`, `NoLeak`, `StrandedOnlyBy`, `ClipboardWakesItsCall`, `WaitEnds`, `SocketsClose` |
| `cards` | 2 cards (one never checked automatically), 2 sessions (symmetric); two operations at a time on one card, an insertion and a paste at a time on two | `NobodyWaitsForEver`, `LostOnlyByHandOver`, `CleanIsSound`, `MountedOnce`, `OwnershipSettled`, `FatalOnlyByOverlap` |
| `proxy_sockets` | 2 handles, 3 sockets per connection, forced bind address, timeouts below, at and above the maximum | `HandlesAgree`, `NoSocketLeak`, `BlocksWithinLimits`, `CallsReturn`, `ConnectionEnds` |
| `uarm_stale_nand`, `uarm_double_stop`, `soc_time_phase` | violations | section 6 |

`NoLostWrite` and `PauseSaves` are left to the theorems of section 5 where retries and
other tabs are in play. `TypeOK` of `SocTime`, `Cards` and `ProxySockets` holds on the
same instances and is not part of the runs.

**Why the bounds are enough.** A page of memory, the metadata page (which is never
stored to after loading) and a page of the card are the three kinds the code tells
apart; two values tell an old copy from a new one. One retry already has a late commit
of the first attempt next to the second attempt; more retries repeat that. Two
sessions are enough to mix up the old and the new one. Two RAM pages are needed for a
checksum to disagree with pages of two instants. The timer periods 2 and 3 (4) give
every order of due times, batches that are cut short, and a counter that wraps; an
overshoot of 3 misses an update by more than a period of the timer.
Two connections allow an old attempt to outlive its successor, and two clipboard calls
let the end of one wake the other; three connections with one clipboard call were
checked as well, and so were four connections with four requests and none. In `cards`
every pair of kinds of operations can overlap on one card, at any of their awaits that the
queue of transactions allows, with one or with two sessions to move the card between. A
second card is needed for the slots of the VFS, its clipboard and the exchange of cards:
there the operations that move cards follow each other, except that an insertion overlaps a
paste, so that the paste may sync the card that is being inserted while the loader of the
insertion comes up. More pairs were checked outside of the runs, for their time: an insertion
that overlaps a browse, with two cards that are both checked automatically, and all
operations one after the other with two cards. Two cards with any two of
insert, browse, file, paste and eject, starting from one page without a reload, were checked
as well (4 million states), and so was one card with three operations (4.5 million states):
there `MountedOnce` fails, as its comment says, and the other properties hold. A
pair in which a launch or an edit takes part may leave the records at odds; from then on
operations follow each other too. Two handles and three sockets
let a handle be used again and the list be full. For the invariants of `Snapshot`,
`UarmSnapshot`, `SocTime`, `Network` and `ProxySockets` the theorems of section 5 remove the bounds
altogether, and so they do for the absence of deadlock and the claims in `Cards`, and for
the other invariants of `Cards` as long as operations follow each other.

Deadlock is checked in `Snapshot`, `UarmSnapshot` and `ProxySockets`. `SocTime` and `Network` switch
it off because their bounds (`MaxTime`, `MaxSessions`, `MaxRequests`, `MaxClips`) end a
run. In `Cards` a page without cards or sessions has nothing to do, and a reload is
always possible, so that deadlock says nothing; `NobodyWaitsForEver` takes its place.

**Fairness.** `Snapshot`: the browser answers reads (or fails them), ends a commit one
way or the other, delivers queued events, fires timers and runs continuations. An open
transaction may hang for ever; only the timeout ends it. `UarmSnapshot`: messages are
delivered and transactions end (or vanish, which sets `stuck`); the machine is not
assumed to run. `Network`: connecting ends (the fetch is aborted and the socket closed
after 5 seconds), the mutex is handed on, events are dispatched, and the server
answers a request or the connection is lost. The last one is an assumption on the
application: a request with an infinite timeout may wait as long as it likes. A
clipboard operation ends: the browser answers, and the user closes the dialogs.
`ProxySockets`: the handler goes on, because what may block has a timeout (this is
`BlocksWithinLimits`), and responses are delivered while the connection is up.

## 4. What the properties say

*Snapshot.* `NoLostWrite`: a page that differs from its copy on disk is marked in one
of the two bitmaps. It is the reason why a failed, timed out or late transaction is
harmless. `PauseSaves`: when pause or stop have taken their snapshot, the disk holds the
machine as it stopped. `SnapshotsRunningSession`: the assertion behind `fatalBug` never
fires. `LockRespected`: a page that lost the lock changes nothing. `AtomicCheckpoints`:
`Snapshot` implements `Checkpoint`; the image under way is the disk overlaid with the
pages of the transaction, which is an instant of the machine only because of the
bitmaps. `SnapshotEnds`, `StopCompletes`: no failure leaves a caller waiting.

*UarmSnapshot.* `WritesKept` is the analogue with one bitmap and merged failures.
`RamChecksumValid` and `NandChecksumValid` are the checks the page makes on load.
`StopHonoured`: when stop returns, nothing runs and nothing is being stored.
`StopAnswered` and `PausesWhenHidden` name exactly the faults that excuse them.

*SocTime.* `QueueSound`: the links form the sorted list of scheduled tasks, whatever a
dispatch did. `NextUpdateAhead`: the unsigned difference of `CyclesToNextUpdate` does
not wrap. `TimerKeepsTime`: every step that moves the last update of the timer gives it the
ticks of that time. There is one exception, which TLC reaches in the run (`LateWakeup`). Time
moves in whole cycles; at a few MIPS a cycle is longer than a period, and the timer may be n
ticks behind when its batch is dispatched. If one of the ticks raises the interrupt that
wakes the CPU, `socWakeup` enlarges the batch to all ticks up to now, and `Scheduler::Advance`
(`scheduler.h:182`) counts the enlarged batch as given, although the delegate was called
with the old one. The property says that the ticks up to the present are lost then and no
others. `NoMatchSleptThrough`: no batch passes a match.

*Network.* `NoStrayResponse`: on the current connection, whatever is under way belongs
to the call the machine waits for, so neither "not waiting for rpc" nor "response out
of order" is ever logged. `NoLeak`, `SocketsClose`: every connection is closed, also
the one that a terminated session is still establishing. `WaitEnds`: a waiting machine
resumes unless its session is gone. `StrandedOnlyBy` lists the only steps by which a
waiting machine loses its session: a lost connection, the late failure of an earlier
attempt, and redirection that is switched off while the connection is still being made
(with the library open the switch cancels the call, and the machine goes on). In these cases the machine stays suspended
until the user resets it; nothing in the repository says otherwise, so this is
recorded as a hazard and not as a finding. `ClipboardWakesItsCall`: the context that
ClipboardService keeps across its await is still the current one when it is used, unless
the machine was reset or replaced during a clipboard call (`interrupted`). After such a
reset the next call of the machine, of whatever kind, is woken without a result, and a
response on its way may be taken for that of a later request; `NoStrayResponse` excludes
exactly this case. The mutant of `ClipboardWakesItsCall` is the condition of
`Feature.cpp:14` as it was probably meant: cancelling the context there, without telling
ClipboardService, would add a second way.

*ProxySockets.* `HandlesAgree`: between two calls the handles in use on the server are
those the program holds, each for the socket it was given out for. The one exception is
built into `held`: an accepted connection whose address does not fit the buffer of the
caller is refused by `SocketAcceptSuccess` after the fact and stays open (`Lost`).
`NoSocketLeak`: wherever the connection breaks, an open socket is in the list or about
to be closed. `BlocksWithinLimits`: no call blocks on a nonblocking socket, longer than
`MAX_TIMEOUT`, or beyond the limit of a request of two calls. `CallsReturn`,
`ConnectionEnds`: both sides make progress.

*Cards.* `LostOnlyByHandOver`: an update is lost if an image is written from a copy older
than the disk. Writes come from the copy of the card's owner, because `updateCardData`,
`saveDirtyStorage` and `loadCardData` assert the owner after they have their transaction and
not before, and whoever else had a copy has lost the card by then. The property says that no
step makes the owner's copy outdated, with one exception: an insertion or a browse mounts the
image that fsck has loaded for it without a look at the disk
(`storage-card.service.ts:677`), although the card was released in between. The run reaches
this case, with one card and with two. An insertion waits for its loader with the image of fsck in hand (fsck has
repaired the card and given it up); a paste or a change to a file that was under way before
gets its transaction and writes the card from the VFS; the insertion takes the card from the
VFS, mounts its older image, and the next snapshot overwrites what was pasted. With a browse
in place of the insertion, the user's question whether to open a damaged card leaves all the
time one wants. No text in the repository excludes this, so it is a hazard and not a finding.
`CleanIsSound`: a card that
counts as clean and is subject to checks has an intact file system, so the check that is
skipped for it would have found nothing. `MountedOnce`: session records refer to cards
that exist, each to its own. `OwnershipSettled`: at rest, a card is owned by what holds
its image. These three hold for two card operations that overlap, or one that
overlaps the deletion of a session. With three, `MountedOnce` can fail (section 3). They do not hold once a launch, a reset or an edit of a
session overlapped one of them: `switchSession` (`emulation.service.ts:115`) and the
session editor store the whole record they have read before, and with it a `mountedCard`
that was ejected meanwhile. The session then refers to a deleted card, or a card that was
checked after the eject goes on being written by the machine while it counts as clean. No
text in the repository excludes this, so it is a hazard and not a finding.
`FatalOnlyByOverlap`: the assertions fail only if operations overlapped or one broke off
after claiming; a user who does one thing at a time never sees `fatalBug`, unless fsck
could not be set up, a repair could not be written or a session could not be opened.
`NobodyWaitsForEver`: transactions, the emulation mutex and the handlers that ask for it
form no circle.

## 5. Proofs

Eight modules hold theorems; all are checked by TLAPS to the last leaf. Each proof of an
invariant has the same shape: `Init => IInv`, one lemma per action (or per group of
actions that do the same) for `IInv /\ Next => IInv'`, and `IInv` implies the property.
Every `IInv` was an invariant of a TLC run before it was proved.

| Module | Theorem | Statement |
|---|---|---|
| `SnapshotProof` | `Invariant`, `TypeCorrect` | `Spec => []IInv`, `Spec => []TypeOK` |
| | `WritesAreKept` | `Spec => []NoLostWrite` |
| | `SessionMatches` | `Spec => []SnapshotsRunningSession` |
| | `PauseIsDurable` | `Spec => []PauseSaves` |
| | `LockIsRespected` | `Spec => LockRespected` |
| | `Checkpoints` | `Spec => AtomicCheckpoints`: `Snapshot` implements `Checkpoint` |
| `UarmSnapshotProof` | `Invariant`, `TypeCorrect` | `Spec => []IInv`, `Spec => []TypeOK` |
| | `RamWritesKept` | `Spec => []WritesKeptOn(Ram)` |
| | `AllWritesKept` | `Spec => []WritesKept`, if `Pages \subseteq Reliable` |
| | `StopsAreHonoured` | `Spec => []StopHonoured`, if `MaxWaiting <= 1` |
| | `RamChecksumsFit` | `Spec => []RamChecksumValid`, if `MaxWaiting <= 1` |
| | `NandChecksumsFit` | `Spec => []NandChecksumValid`, if moreover `Uploads \subseteq {"nand"}` |
| `SchedulerProof` | `Rescheduled`, `Unscheduled` | what RescheduleTaskImpl and UnscheduleTask leave of a list in order |
| `SocTimeProof` | `Invariant`, `TypeCorrect` | `Spec => []IInv`, `Spec => []TypeOK` |
| | `QueueStaysSound` | `Spec => []QueueSound` |
| | `NextUpdateIsAhead` | `Spec => []NextUpdateAhead` |
| | `TimerLosesNoTick` | `Spec => TimerKeepsTime` |
| | `TimerExact` | `Spec => []Punctual`, if `Overshoot < TimerPeriod` |
| | `NoMatchIsSleptThrough` | `Spec => []NoMatchSleptThrough` |
| `NetworkProof` | `Invariant`, `TypeCorrect` | `Spec => []IInv`, `Spec => []TypeOK` |
| | `ResponsesMatch`, `NothingLeaks` | `Spec => []NoStrayResponse`, `Spec => []NoLeak` |
| | `OffMeansClosed` | `Spec => []Redirected` |
| | `StrandedOnly`, `ClipboardWakes` | `Spec => StrandedOnlyBy`, `Spec => ClipboardWakesItsCall` |
| `ProxySocketsProof` | `Invariant`, `TypeCorrect` | `Spec => []IInv`, `Spec => []TypeOK` |
| | `HandlesNeverDiverge` | `Spec => []HandlesAgree` |
| | `SocketsDoNotLeak` | `Spec => []NoSocketLeak` |
| | `CallsAreLimited` | `Spec => []BlocksWithinLimits` |
| `CardsProof` | `Invariant`, `TypeCorrect` | `Spec => []IInv`, `Spec => []TypeOK` |
| | `NobodyWaits` | `Spec => []NobodyWaitsForEver` |
| | `MutexExcludes` | `Spec => []OneLaunch` |
| | `ClaimsStand` | `Spec => []AssertionsHold` |
| | `OneUserPerCard` | `Spec => []OneUser` |
| | `OwnedCardsExist` | `Spec => []OwnedExist` |
| `CardsSequentialProof` | `SequentialInvariant` | `OneByOne => []Sequential`, where `OneByOne` stands for `Spec /\ [](overlap = "none")` |
| | `SequentialKeepsUpdates` | `OneByOne => []NoLostUpdate` |
| | `SequentialCleanIsSound`, `SequentialMountedOnce` | `OneByOne => []CleanIsSound`, `OneByOne => []MountedOnce` |
| | `SequentialOwnership` | `OneByOne => []OwnershipSettled` |
| | `SequentialNeverFatal` | `OneByOne => []FatalOnlyByOverlap` |

The theorems rest on the `ASSUME`s of the modules alone, which TLC evaluates in every
run: `ConstantsAssumption` and `NoneAssumption` (`Snapshot`), `UarmAssumption`,
`SchedulerAssumption`, `SocTimeAssumption` (section 2.3), `NetworkAssumption`, `ProxySocketsAssumption`, `CardsAssumption`. Those of the
web applications say that sets of pages are disjoint, bounds are numbers and the values that stand for "nothing" are none
of the others (in `Cards`, that a deleted record is no status of a card either).
`NoneAssumption` is there for the refinement: in `Checkpoint` a
checkpoint under way is `None` or a record, and the two have to differ.

### 5.1 Snapshot

`NoLostWrite` alone is not inductive. When a transaction completes, the bitmap of the
service is cleared; that is right only if every page it covered is on disk with the
current content or marked again in the emulator. `IInv` adds:

- `Control`: the session does not go away under a snapshot, its id agrees with that of
  the service, callers that stopped the loop keep it stopped, and the error count is
  over its limit only after a fatal error;
- `Transactions`: which transaction states go with which phase, and that a live
  transaction belongs to the running session and to a page that holds the lock;
- `Carried`: the core of the argument. A live transaction covers the bitmap of the
  service, and a page whose copy in the transaction is outdated is dirty in the
  emulator. A done transaction equals the disk on its pages;
- `Stopped`: what a caller that stopped the loop knows: no page is dirty while its
  snapshot commits, and the state in the transaction is that of the machine. It gives
  `PauseSaves`.

`LockIsRespected` follows because every action that changes the disk either requires the
lock or belongs to a live transaction, which by `Transactions` implies the lock.

The refinement maps the disk of `Checkpoint` to the pages and states in IndexedDB, its
machine to the memory of the emulator, and its checkpoint under way to the disk overlaid
with the pages of the transaction. Opening the transaction is `Capture`: the overlay is
the memory at that instant because, by `NoLostWrite`, whatever is not in the transaction
is on disk already. Later stores change the machine only. The commit, whenever and to
whomever it comes, is `Commit`; an abort, a timeout or a reload is `Drop`. All other steps
are runs of the machine or stutters.

### 5.2 UarmSnapshot

`IInv` follows the things that travel between worker, page and database:

- `CallFlow`: an export or upload has at most one call in the queue of transactions, and
  waits for `stop()` or for that call. A terminated worker gets and sends nothing;
- `Flight`: a snapshot is in the outbox, in the queue of transactions or answered in the
  inbox, in one of them only and only while `pending`; its pages are the scheduled ones,
  and its copy of a page that is not dirty again is current;
- `Kept`: `WritesKept` on the pages of `Reliable`, and that a positive answer on its way
  means that only dirty pages differ from the disk. Without this part the step that
  clears the scheduled pages would not preserve the first;
- `Stops`: at most one stop is in the inbox, on record in the worker or answered in the
  outbox; behind a stop of the user there is no start;
- `Quiet`: from the answer to the end of the export or upload the machine stands still;
- `Checksums`: what a snapshot leaves out is on disk already, so the checksum that it
  stores, which is that of the whole region, fits the disk after the commit.

The last three parts hold for `MaxWaiting <= 1`. The conditions of the theorems are the
complement of the two findings about this page: with two waiting calls `StopHonoured` and
`RamChecksumValid` fail (`uarm_double_stop`), and the NAND and SD images that `restart()`
takes from variables of the page are those of the disk only if every upload replaces them
(`uarm_stale_nand`). `Reliable` names the regions for which that is excluded: always RAM,
which is read from disk; the NAND if nothing but NAND images is uploaded; the SD card if
nothing but SD images is. What holds without any condition is `RamWritesKept`.

### 5.3 Network

`NoStrayResponse` speaks of the queues of the current connection, which are filled by the
mutex of the session and the server. `IInv` adds: only the current session is live
(`Lives`); connecting comes first in a mutex queue, the current session has no disconnect
ahead and every other one disconnects what it has or is about to get (`Queues`, which
gives `NoLeak`); a call waits for a response only while the library is open, and the
clipboard operation under way is that of the current context (`Suspension`, which gives
`ClipboardWakesItsCall`); the request of the machine is in one place only, waiting for the
mutex, on its way to the server or answered (`OneRequest`). The last two hold until a
reset during a clipboard call (`interrupted`), as in the properties.

`StrandedOnlyBy` needs `Redirected` on top: while redirection is off the library is closed and
the service has no session, so that a machine can only be stranded by the switch if it is
switched off. `OffMeansClosed` states it by itself.

### 5.4 ProxySockets

The one call of the machine is in the inbox, with the handler or, answered, in the outbox
(`Token`). Program and server agree on every handle but the one that a request in the
inbox closes or a response in the outbox opens (`Agreement`, which is `HandlesAgree` at the
time of every step and not only between calls). A socket is in the list once, open, and
an open socket is in the list or being closed (`Sockets`). That `_getFreeHandle` returns a
free handle rests on the existence of a minimum, by well-founded induction on the naturals.

### 5.5 Cards

The run has two operations overlap; the theorems have any number, on any number of cards
and sessions: no proof expands `Room`, the only place where `Overlaps` is used. `IInv` says:

- every operation under way stands at a step that belongs to it, with the card and session
  it needs there, and `dbq` lists those that await a transaction once each (`Running`);
- the mutex is held by the one launch that is past it (`MutexOK`), and the launches that
  wait for it have one job each, and no other has one (`JobsOK`);
- who owns a card (`Claims`). A card is owned by `"vfs"` exactly while it is in a slot or
  on its way into one (`VfsClaims`); an operation between the claim for fstools and the
  release owns its card alone, and a card owned by `"fstools"` is with such an operation or
  with one that broke off (`FsckClaims`); a slot that is about to be filled is empty,
  and paste opens the card of the clipboard (`SlotsOK`); a card that is owned has its
  record (`OwnedExist`).

`SlotsOK` has to mention the clipboard because `mountCardUnchecked` exchanges the slots if
the primary card is that of the clipboard: without it the exchange might fill the slot
that a paste waits for. That a browse and a paste never open the same card follows from
`VfsClaims`, since each claims only what nobody owns.

`AssertionsHold` names the assertions of StorageCardContext and VfsService that cannot fail
whatever overlaps: those of `releaseCard`, of fsck from its claim to its release, and of
the two loads of the VFS. Those of the emulator (`cloudpilot`) and the claims themselves
can fail once operations overlap, and then the app stops with `fatalBug`;
`FatalOnlyByOverlap` is about them. `OneUser` is what the assertions are for: a card is in
a slot, on its way into one, or with one check, and never in two of these places.
`NobodyWaitsForEver` needs nothing but `Running`, `MutexOK` and `JobsOK`: the steps past the
mutex are transactions or end by themselves, and none of them waits for the mutex.

*Operations that follow each other.* `IInv` holds whatever overlaps, and for that reason
says little about the emulator, the records and the copies: an overlapping launch may put
back an old record. `CardsSequentialProof` is about the behaviours in which `overlap` stays
`"none"`, that is in which a new operation starts only when the last one has ended. Snapshots
of the running machine, failures, `fatalBug` and reloads may come between any two awaits. For
any number of cards and sessions, no update is lost at all (`NoLostUpdate`, `lost = {}`, without
the exception of `LostOnlyByHandOver`) and the four invariants of the run that overlapping
operations can break hold then. What is excluded is therefore the overlap itself and nothing else, and
in particular each operation leaves behind what the next one relies on.

`Sequential`, the invariant behind it, says on top of `IInv`:

- at most one change of a session waits for the mutex, and behind it at most the second half
  of a reset (`OneJob`). `Cur` and `Held` are the current session, and the card it holds,
  once that change is handled; the rest is stated about them, because the record on disk is
  ahead of the current session until then;
- a card on disk is in one session at most, exists, and does not count as clean; one that
  counts as clean is sound (`RecordsOK`). The current session is as its record on disk
  (`SessionOK`), and what is in the VFS or on its clipboard is in no session (`SlotsFree`);
- the emulator has the image of the card of the session and of the one being loaded, and no
  other (`EmulatorOK`); the only outdated copies are those a stopped session has left in the
  emulator, and none is left when the next session is opened (`CopiesOK`);
- a card is owned by `"cloudpilot"` exactly while it is held, loaded or was left claimed
  (`OwnersOK`);
- what the operation under way has read, at each of its steps, is still so (`StepKnown`): its
  card exists and, past the eject, is in no session; the session it ejects from is the
  current one, or another one, as it was; the record a launch or an edit puts back is the one
  on disk; the card a writer syncs is in its slot.

`StepKnown` is where overlap would bite. In each lemma a check that the code makes after an
await (the record still exists, the owner is still the same) is shown to succeed, so that the
branch into `fatalBug` is left only to cards that an operation had claimed when it broke off
(`stuck`): fsck could not be set up, a repair could not be written, a session could not be
opened. `Sequential` was checked with TLC for one card and two sessions, and for two cards
and one session, before it was proved.

### 5.6 Scheduler and SocTime

*The list.* `SchedulerProof` is about the two loops over the links, for any number of tasks
and any list. `InOrder(s)`: the links lead from the front through a sequence of exactly the
tasks that have a batch, each once, ordered by due time. `Rescheduled` says that
RescheduleTaskImpl, applied to a list in order, leaves one in order and touches no task but
its own, wherever in the list that was, and if it was not in it at all. The code unlinks
and links in one pass, in either order, and the pass must not stop between the two.

The argument follows the pass. `WithoutTask`: without the task the list is still in order.
`Place`: in such a list there is one position where the task belongs, behind all that are
due no later. `WalkStepWalks`: after n iterations the loop stands at node n of the list
without the task, or has met both positions; until then the links it has passed are final
and those ahead are untouched. This goes by induction on n (`UpTo`, from the least
counterexample, since the library's induction theorem cannot be used). `FewOthers`, a
pigeonhole argument, bounds the length of the list and so the iterations. `WalkResult` reads
the new list off the end of the loop, `EnqueuedInOrder` and `UnlinkedInOrder` state it, and
`HeadFirst` gives that the head is due first, which is all that `nextUpdate` keeps.

*The clocks.* `IInv` of `SocTimeProof` says: types and `InOrder`, and `nextUpdate` is the due
time of the head (`HeadKnown`, or a second ahead); the batch of the timer starts at its last
update, which has passed, and its ticks do not overflow (`TimerOK`); the other
tasks have batches of at most one tick (`OneTick`); between two advances nothing is due
(`Ahead`); while the CPU is awake the timer ticks one by one, or the batch that a wakeup has
cut short is due (`Single`); and `NoMatchSleptThrough` itself.

`TimerLosesNoTick` is about the steps from such states, for any overshoot: a wakeup in the
middle of a batch delivers the ticks passed since `lastUpdate`, and `TimerOK` bounds them, so
that the unsigned difference does not wrap and the new batch ends no later than now or one
tick ahead. `LateWakeup` is the case in which the dispatch of the timer itself wakes the CPU
and the timer is behind by a tick or more. `TimerExact` is the other half: if no round of
`socRun` misses an update by a period of the timer, `IInv` also keeps that the batch ends less
than a tick ago, which excludes `LateWakeup`, and that the ticks given are the time of the last
update (`Punctual`). `Ahead` needs more than arithmetic for a task that was
unscheduled: `LastTick` computes with a difference that may wrap (finding 3), and `TickAhead`
shows that the due time lies ahead of the clock all the same, on the grid or off it. It
needs the assumption that a period fits into what is left of the 64-bit clock.

### 5.7 Only model-checked

The liveness properties `SnapshotEnds`, `StopCompletes`, `StopAnswered`,
`PausesWhenHidden`, `WaitEnds`, `SocketsClose`, `CallsReturn` and `ConnectionEnds`: fairness
and ENABLED are outside the prover's reach. Of `Cards`, `LostOnlyByHandOver`, and what
`CleanIsSound`, `MountedOnce`, `OwnershipSettled` and `FatalOnlyByOverlap` say of operations
that overlap: they depend on how far the overlapping operations are ahead of each other in
IndexedDB's queue, and `MountedOnce` on their number, so that a proof would have to count them. Once operations have overlapped and ended, `overlap` is `"none"` again (unless a launch
or an edit took part), and the theorems no longer speak of what follows; the run does.

## 6. Findings

1. `uarm_stale_nand` (code bug, `index.js:198`). After an upload of an SD or NOR image
   the machine is restarted with the NAND of the page load, while snapshots have
   stored newer pages. The next snapshot mixes both and stores a checksum that does
   not fit; `database.js:463` would report "CRC mismatch on NAND load!".
2. `uarm_double_stop` (code bug, `emulator.js:119`). Two stops that wait for a third
   produce one answer too many, which ends a later stop before the machine stands
   still. The RAM that an upload has cleared is then partly written by a snapshot.
   With at most one waiting stop (`uarm_ram`) this does not happen.
3. `soc_time_phase` (divergence, `scheduler.h:110`). The test
   `ReschedulingAnUnscheduledTaskConinuesFromTheLastTheoreticTick` states that a task
   keeps its grid. If it is rescheduled before it would have been due, the unsigned
   difference wraps and the grid is lost.

## 7. Mutation tests

For every property of every passing run `PROJECT.json` names a mutant: a definition and
a faulty form of it, such as a bitmap that is overwritten, an uncounted retry, a
snapshot that is not awaited, an answer that is sent too early, a session that is not
disconnected. TLC finds each property violated by its mutant under the same
configuration.

## 8. Not modelled

- Instruction interpreters, MMUs and device registers of both emulators: sequential
  data paths of a size that TLC does not cover, partly generated or vendored.
- Save state and session file formats, compression, protobuf encoding.
- FAT file systems (fatfs, dosfstools), archives (miniz), generated code, skins, UI.
- Native and embedded front ends: no persistence protocol, one thread.
- Durations in the web applications: timers fire eventually and in any order. An early
  timer that `dynamicTimeout.ts:23` arms again with an absolute time in place of the
  remaining one is therefore invisible to the model.
- Input queues (`EmSession.cpp:511` drops the oldest event of a full button queue, which
  may be a release) and the dirty bitmap of `nand.c` (`nand.c:120` marks one page too
  many for an erased block, beyond the bitmap for the last one): sequential code whose
  faults are local to one line.
- Creating, importing and exporting cards and sessions, ROM records and migrations: each
  is one transaction on records nobody else has yet. The states in which they leave a
  card are the initial states of `Cards`. `updateCard` (name, automatic checks) is left
  out; whether a card is checked automatically is a constant.
- Two changes to a card in the VFS within one commit: `vfs.service.ts:771` clears all
  dirty bits when the first is written. A sync is one step of `Cards`.
- Serial transport of the embedded emulator and its suspend context.
- Sizes that do not fit: `putPagedData` refuses an image of another size
  (`database.js:177`), which matters for SD cards that no run has; `openSession` goes on if
  memory of another size cannot be loaded (`AbstractEmulationService.ts:235`), which `Load`
  leaves out.
- `socket_context.py:62` computes the timeout of a close after the time that the shutdown took;
  `SocketShutDown` takes no time, so that the limit of a request of two calls is tested by the
  other requests and adds nothing for close.
- Integrity checks and statistics of snapshots, and page contents beyond equality.

Seen on the way, in the text of the dialogs: a card that fsck found unformatted cannot be
inserted (`storage-card.service.ts:644`, the case falls through to that of a dirty card),
although the message for browsing it says "Insert it into a device and format it"
(`storage-card.service.ts:639`). And `mountCardUnchecked` takes a parameter `readonly` for
cards with uncorrectable errors but does not use it; `Cards` has such cards written to.

## 9. Plan

Done: `Checkpoint`, `Snapshot`, `UarmSnapshot`, `Scheduler`, `SocTime`, `Network` with
clipboard contexts, `ProxySockets`, `Cards`; the proofs of section 5.

Open, in this order:

1. `Cards`: `LostOnlyByHandOver` for any number of operations, and the invariants for two
   overlapping ones in which no launch and no edit takes part, where `Sequential` would have to say what each of the two knows while the
   other is at any of its steps.
2. The sync of a slot of the VFS as a transaction and a clearing of the dirty bits
   (section 8), which the second of the two hazards without a property is about.
