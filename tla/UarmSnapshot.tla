---------------------------- MODULE UarmSnapshot ----------------------------
(***************************************************************************)
(* How the uARM web app keeps the NAND, SD card and RAM of its device on    *)
(* disk. The worker runs the machine and tracks dirty pages (worker.js), an *)
(* Emulator object in the page relays snapshots and stop requests           *)
(* (emulator.js), and the handlers of the page stop the machine, export it, *)
(* replace images and restart it (index.js). They exchange messages;        *)
(* IndexedDB runs their transactions one after the other (database.js).     *)
(* The page runs with ?verify_crc, so each region has a checksum on disk.   *)
(***************************************************************************)
EXTENDS Naturals, Sequences

CONSTANTS
    Nand, Sd, Ram,  \* the pages of the three regions
    Vals,           \* contents of a page
    Empty,          \* an unwritten page
    Uploads,        \* what the user may upload
    MaxStarts,      \* bound: start messages on their way to the worker
    MaxWaiting,     \* bound: calls of stop() that wait for an earlier one
    None            \* no checksum, no caller

ASSUME UarmAssumption ==
    /\ Nand \cap Sd = {} /\ Nand \cap Ram = {} /\ Sd \cap Ram = {}
    /\ Empty \in Vals
    /\ Uploads \subseteq {"nor", "nand", "sd", "session"}
    /\ MaxStarts \in Nat /\ MaxWaiting \in Nat
    /\ None \notin {"hide", "user"}

Pages == Nand \cup Sd \cup Ram
Regions == {Nand, Sd, Ram}

VARIABLES
    mem,          \* worker: the pages of the device
    dirty,        \* worker: the dirty page bitmaps
    scheduled,    \* worker: scheduledPages of the trackers
    loop,         \* worker: the next time slice is scheduled
    pending,      \* worker: snapshotPending
    stopPending,  \* worker: stopPending
    dead,         \* worker: amIDead
    alive,        \* the worker of the current Emulator is not terminated
    inbox,        \* messages from the page to the worker
    outbox,       \* messages from the worker to the page
    stopper,      \* whose call of stop() does onStopped resolve
    waiting,      \* calls of stop() that await this.stopping, in order
    op,           \* where the export or upload under way is
    what,         \* what is exported or uploaded
    seen,         \* the RAM that the export has read
    held,         \* disableAutoPause
    hidden,       \* document.hidden
    file,         \* fileNand.content and fileSd.content
    disk,         \* IndexedDB: the pages
    crc,          \* IndexedDB: the checksum of each region
    txq,          \* IndexedDB: transactions in the order they were opened
    stuck         \* a transaction was aborted without an error event

worker  == <<mem, dirty, scheduled, loop, pending, stopPending, dead, alive>>
calls   == <<stopper, waiting, op, what, seen>>
page    == <<held, hidden, file>>
storage == <<disk, crc, txq, stuck>>
vars == <<mem, dirty, scheduled, loop, pending, stopPending, dead, alive, inbox, outbox,
          stopper, waiting, op, what, seen, held, hidden, file, disk, crc, txq, stuck>>

-----------------------------------------------------------------------------
Places == {"idle", "stopping", "ram", "nand", "put", "put2", "put3", "restart", "lost"}

\* What a checksum tells apart: the contents of the region it was computed over.
Checksum(region, image) == [p \in region |-> image[p]]

Posts(type) == [type |-> type]
Call == [op |-> "call"]

TypeOK ==
    /\ mem \in [Pages -> Vals] /\ disk \in [Pages -> Vals] /\ file \in [Nand \cup Sd -> Vals]
    /\ dirty \subseteq Pages /\ scheduled \subseteq Pages
    /\ {loop, pending, stopPending, dead, alive, held, hidden, stuck} \subseteq BOOLEAN
    /\ \A i \in 1 .. Len(inbox) : inbox[i].type \in {"start", "stop", "snapshotDone"}
    /\ \A i \in 1 .. Len(outbox) : outbox[i].type \in {"snapshot", "stopped"}
    /\ stopPending => pending
    /\ stopper \in {None, "hide", "user"}
    /\ \A i \in 1 .. Len(waiting) : waiting[i] \in {"hide", "user"}
    /\ op \in Places /\ what \in {"export"} \cup Uploads
    /\ seen = None \/ seen \in [Ram -> Vals]
    /\ \A r \in Regions : crc[r] = None \/ crc[r] \in [r -> Vals]
    /\ \A i \in 1 .. Len(txq) : txq[i].op \in {"snap", "call"}

Init ==
    /\ disk = [p \in Pages |-> Empty] /\ mem = disk
    /\ file = [p \in Nand \cup Sd |-> Empty] /\ crc = [r \in Regions |-> None]
    /\ dirty = {} /\ scheduled = {} /\ loop = FALSE /\ pending = FALSE
    /\ stopPending = FALSE /\ dead = FALSE /\ alive = TRUE
    /\ inbox = <<Posts("start")>> /\ outbox = <<>>
    /\ stopper = None /\ waiting = <<>> /\ op = "idle" /\ what = "export" /\ seen = None
    /\ held = FALSE /\ hidden = FALSE /\ txq = <<>> /\ stuck = FALSE

-----------------------------------------------------------------------------
(***************************************************************************)
(* worker.js                                                               *)
(***************************************************************************)

\* A time slice that stores to a page.
Cycle ==
    /\ alive /\ loop
    /\ \E p \in Pages, v \in Vals :
         /\ v # mem[p]
         /\ mem' = [mem EXCEPT ![p] = v]
         /\ dirty' = dirty \cup {p}
    /\ UNCHANGED <<scheduled, loop, pending, stopPending, dead, alive, inbox, outbox,
                   calls, page, storage>>

\* takeSnapshot of the trackers: copies of the dirty pages, and the checksum of the
\* whole region.
TakeSnapshot == [type |-> "snapshot", pages |-> dirty, image |-> mem]

\* Fault: the trackers do not remember which pages the snapshot holds.
ForgottenTriggerSnapshot ==
    /\ alive /\ loop /\ ~pending /\ dirty # {}
    /\ outbox' = Append(outbox, TakeSnapshot)
    /\ dirty' = {} /\ pending' = TRUE
    /\ UNCHANGED <<mem, scheduled, loop, stopPending, dead, alive, inbox, calls, page, storage>>

\* A time slice at the end of the snapshot interval: the trackers clear the bitmaps.
TriggerSnapshot ==
    /\ alive /\ loop /\ ~pending /\ dirty # {}
    /\ outbox' = Append(outbox, TakeSnapshot)
    /\ scheduled' = dirty /\ dirty' = {} /\ pending' = TRUE
    /\ UNCHANGED <<mem, loop, stopPending, dead, alive, inbox, calls, page, storage>>

\* A time slice in which the machine crashes.
Die ==
    /\ alive /\ loop
    /\ dead' = TRUE /\ loop' = FALSE
    /\ UNCHANGED <<mem, dirty, scheduled, pending, stopPending, alive, inbox, outbox,
                   calls, page, storage>>

Receive(type) == alive /\ inbox # <<>> /\ Head(inbox).type = type /\ inbox' = Tail(inbox)

WorkerStart ==
    /\ Receive("start")
    /\ loop' = (loop \/ ~dead)
    /\ UNCHANGED <<mem, dirty, scheduled, pending, stopPending, dead, alive, outbox,
                   calls, page, storage>>

\* A dead machine does not answer. While a snapshot is being stored the answer waits.
WorkerStop ==
    /\ Receive("stop")
    /\ IF dead THEN UNCHANGED <<loop, stopPending, outbox>>
       ELSE /\ loop' = FALSE /\ stopPending' = (pending \/ stopPending)
            /\ outbox' = IF pending THEN outbox ELSE Append(outbox, Posts("stopped"))
    /\ UNCHANGED <<mem, dirty, scheduled, pending, dead, alive, calls, page, storage>>

\* onSnapshotDone: the pages of a snapshot that failed become dirty again.
OnSnapshotDone(success) == IF success THEN dirty ELSE dirty \cup scheduled

\* Fault: the stop that waited for the snapshot is forgotten.
ForgetfulSnapshotDone ==
    /\ Receive("snapshotDone")
    /\ scheduled' = {} /\ pending' = FALSE /\ stopPending' = FALSE
    /\ dirty' = OnSnapshotDone(Head(inbox).success)
    /\ UNCHANGED <<outbox, mem, loop, dead, alive, calls, page, storage>>

\* Fault: the stop that waited for the snapshot is answered but stays on record.
LatchedSnapshotDone ==
    /\ Receive("snapshotDone")
    /\ scheduled' = {} /\ pending' = FALSE
    /\ dirty' = OnSnapshotDone(Head(inbox).success)
    /\ outbox' = IF stopPending THEN Append(outbox, Posts("stopped")) ELSE outbox
    /\ UNCHANGED <<stopPending, mem, loop, dead, alive, calls, page, storage>>

\* A stop that waited for the snapshot is answered.
WorkerSnapshotDone ==
    /\ Receive("snapshotDone")
    /\ scheduled' = {} /\ pending' = FALSE /\ stopPending' = FALSE
    /\ dirty' = OnSnapshotDone(Head(inbox).success)
    /\ outbox' = IF stopPending THEN Append(outbox, Posts("stopped")) ELSE outbox
    /\ UNCHANGED <<mem, loop, dead, alive, calls, page, storage>>

-----------------------------------------------------------------------------
(***************************************************************************)
(* emulator.js: messages from the worker, stop() and start()               *)
(***************************************************************************)

Deliver(type) == outbox # <<>> /\ Head(outbox).type = type /\ outbox' = Tail(outbox)

\* handleSnapshot opens the transaction. live: its worker is not terminated yet.
MainSnapshot ==
    /\ Deliver("snapshot")
    /\ txq' = Append(txq, [op |-> "snap", pages |-> Head(outbox).pages,
                           image |-> Head(outbox).image, live |-> TRUE])
    /\ UNCHANGED <<worker, inbox, calls, page, disk, crc, stuck>>

\* Fault: a waiting call takes the answer to an earlier one for its own.
EagerMainStopped ==
    /\ Deliver("stopped")
    /\ waiting' = <<>> /\ stopper' = None /\ inbox' = inbox
    /\ IF stopper = "user" \/ \E i \in 1 .. Len(waiting) : waiting[i] = "user"
       THEN op' = (IF what = "export" THEN "ram" ELSE "put") /\ txq' = Append(txq, Call)
       ELSE UNCHANGED <<op, txq>>
    /\ UNCHANGED <<worker, what, seen, page, disk, crc, stuck>>

\* onStopped resolves the promise of the last call of stop() that reached the worker:
\* an export goes on to getNor and getRam, an upload to its first put. The calls that
\* waited for that promise post their own stop, one by one; only the last of them is
\* resolved later. An answer that no promise expects resolves nothing.
MainStopped ==
    /\ Deliver("stopped")
    /\ waiting' = <<>>
    /\ stopper' = IF waiting = <<>> THEN None ELSE waiting[Len(waiting)]
    /\ inbox' = inbox \o [i \in 1 .. Len(waiting) |-> Posts("stop")]
    /\ IF stopper = "user"
       THEN op' = (IF what = "export" THEN "ram" ELSE "put") /\ txq' = Append(txq, Call)
       ELSE UNCHANGED <<op, txq>>
    /\ UNCHANGED <<worker, what, seen, page, disk, crc, stuck>>

\* Fault: a call that finds another one under way returns at once.
DroppedStop(caller) ==
    IF stopper = None
    THEN /\ stopper' = caller /\ UNCHANGED waiting
         /\ inbox' = IF alive THEN Append(inbox, Posts("stop")) ELSE inbox
    ELSE UNCHANGED <<stopper, waiting, inbox>>

\* stop(): the first call posts, further calls wait for its promise.
Stop(caller) ==
    IF stopper = None
    THEN /\ stopper' = caller /\ UNCHANGED waiting
         /\ inbox' = IF alive THEN Append(inbox, Posts("stop")) ELSE inbox
    ELSE /\ Len(waiting) < MaxWaiting
         /\ waiting' = Append(waiting, caller) /\ UNCHANGED <<stopper, inbox>>

\* start(): posts to the worker, terminated or not.
Start == inbox' = IF alive THEN Append(inbox, Posts("start")) ELSE inbox

-----------------------------------------------------------------------------
(***************************************************************************)
(* index.js: the handlers of the page                                      *)
(***************************************************************************)

Hide ==
    /\ ~hidden /\ hidden' = TRUE
    /\ IF held THEN UNCHANGED <<stopper, waiting, inbox>> ELSE Stop("hide")
    /\ UNCHANGED <<worker, outbox, op, what, seen, held, file, storage>>

Starts == Len(SelectSeq(inbox, LAMBDA m : m.type = "start"))

Show ==
    /\ hidden /\ hidden' = FALSE
    /\ IF held THEN UNCHANGED inbox ELSE Starts < MaxStarts /\ Start
    /\ UNCHANGED <<worker, outbox, calls, held, file, storage>>

\* The user exports the device or has chosen a file to upload. The model has one
\* such operation at a time.
Click ==
    /\ op = "idle" /\ ~hidden
    /\ what' \in {"export"} \cup Uploads
    /\ held' = TRUE /\ op' = "stopping"
    /\ Stop("user")
    /\ UNCHANGED <<worker, outbox, seen, hidden, file, storage>>

-----------------------------------------------------------------------------
(***************************************************************************)
(* database.js: what becomes of the transaction that is next               *)
(***************************************************************************)

Overlay(pages, image, base) == [p \in Pages |-> IF p \in pages THEN image[p] ELSE base[p]]

Answer(success) ==
    inbox' = IF Head(txq).live
             THEN Append(inbox, [type |-> "snapshotDone", success |-> success]) ELSE inbox

\* Fault: a snapshot stores the checksums of the pages it holds, not of the regions.
PartialChecksums(pages, image) ==
    [r \in Regions |-> IF r \cap pages = {} THEN crc[r]
                       ELSE Checksum(r, Overlay(pages, image, [p \in Pages |-> Empty]))]

StoredChecksums(pages, image) ==
    [r \in Regions |-> IF r \cap pages = {} THEN crc[r] ELSE Checksum(r, image)]

\* storeSnapshot.
SnapCommits ==
    /\ txq # <<>> /\ Head(txq).op = "snap" /\ txq' = Tail(txq)
    /\ disk' = Overlay(Head(txq).pages, Head(txq).image, disk)
    /\ crc' = StoredChecksums(Head(txq).pages, Head(txq).image)
    /\ Answer(TRUE)
    /\ UNCHANGED <<worker, outbox, calls, page, stuck>>

\* The lock is lost or a request fails: an error event, and the answer is FALSE.
SnapFails ==
    /\ txq # <<>> /\ Head(txq).op = "snap" /\ txq' = Tail(txq)
    /\ Answer(FALSE)
    /\ UNCHANGED <<worker, outbox, calls, page, disk, crc, stuck>>

\* The transaction is aborted at commit, for which complete() has no handler.
Hangs ==
    /\ txq # <<>> /\ txq' = Tail(txq)
    /\ stuck' = TRUE
    /\ op' = IF Head(txq).op = "call" THEN "lost" ELSE op
    /\ UNCHANGED <<worker, inbox, outbox, stopper, waiting, what, seen, page, disk, crc>>

CallAt(place) == txq # <<>> /\ Head(txq).op = "call" /\ op = place

\* The end of an export and of restart(): autopause again, and the machine runs.
Resume(starting) ==
    /\ op' = "idle" /\ held' = FALSE
    /\ inbox' = IF hidden THEN starting ELSE Append(starting, Posts("start"))

ExportRam ==
    /\ CallAt("ram")
    /\ seen' = Checksum(Ram, disk) /\ op' = "nand"
    /\ txq' = Append(Tail(txq), Call)
    /\ UNCHANGED <<worker, inbox, outbox, stopper, waiting, what, page, disk, crc, stuck>>

ExportNand ==
    /\ CallAt("nand")
    /\ Resume(inbox) /\ txq' = Tail(txq)
    /\ UNCHANGED <<worker, outbox, stopper, waiting, what, seen, hidden, file, disk, crc, stuck>>

\* restart(): the worker is terminated, and with it go its messages and its calls of
\* stop(). Then RAM is read.
Restart ==
    /\ alive' = FALSE /\ loop' = FALSE
    /\ inbox' = <<>> /\ outbox' = <<>> /\ stopper' = None /\ waiting' = <<>>
    /\ op' = "restart"
    /\ txq' = Append([i \in 1 .. Len(Tail(txq)) |-> [Tail(txq)[i] EXCEPT !.live = FALSE]], Call)
    /\ UNCHANGED <<mem, dirty, scheduled, pending, stopPending, dead>>

Cleared(image) == [p \in Pages |-> IF p \in Ram THEN Empty ELSE image[p]]

\* The images of the page with the uploaded one among them.
Uploaded(kind) ==
    {f \in [Nand \cup Sd -> Vals] :
        /\ kind \in {"nand", "session"} \/ \A p \in Nand : f[p] = file[p]
        /\ kind = "sd" \/ \A p \in Sd : f[p] = file[p]}

\* The region that an upload replaces on disk.
Stored(kind) == IF kind = "nand" THEN Nand ELSE IF kind = "sd" THEN Sd ELSE {}

\* Fault: the page keeps the image it had.
StalePutImage ==
    /\ CallAt("put") /\ what # "session"
    /\ \E f \in Uploaded(what) :
         /\ file' = file
         /\ disk' = LET image == [p \in Pages |-> IF p \in Stored(what) THEN f[p] ELSE disk[p]]
                    IN  IF what = "sd" THEN image ELSE Cleared(image)
    /\ crc' = [r \in Regions |-> IF r = Stored(what) \/ (r = Ram /\ what # "sd")
                                 THEN None ELSE crc[r]]
    /\ Restart
    /\ UNCHANGED <<what, seen, held, hidden, stuck>>

\* Fault: the checksum of a replaced NAND stays.
ChecksumKeepingPutImage ==
    /\ CallAt("put") /\ what # "session"
    /\ \E f \in Uploaded(what) :
         /\ file' = f
         /\ disk' = LET image == [p \in Pages |-> IF p \in Stored(what) THEN f[p] ELSE disk[p]]
                    IN  IF what = "sd" THEN image ELSE Cleared(image)
    /\ crc' = [r \in Regions |-> IF r = Ram /\ what # "sd"
                                 THEN None ELSE crc[r]]
    /\ Restart
    /\ UNCHANGED <<what, seen, held, hidden, stuck>>

\* putNor, putNand and putSd of an upload. NOR and NAND images start with empty RAM.
PutImage ==
    /\ CallAt("put") /\ what # "session"
    /\ \E f \in Uploaded(what) :
         /\ file' = f
         /\ disk' = LET image == [p \in Pages |-> IF p \in Stored(what) THEN f[p] ELSE disk[p]]
                    IN  IF what = "sd" THEN image ELSE Cleared(image)
    /\ crc' = [r \in Regions |-> IF r = Stored(what) \/ (r = Ram /\ what # "sd")
                                 THEN None ELSE crc[r]]
    /\ Restart
    /\ UNCHANGED <<what, seen, held, hidden, stuck>>

\* putNor, putNand and putRam of an imported session, in three transactions.
PutSessionNor ==
    /\ CallAt("put") /\ what = "session"
    /\ file' \in Uploaded(what)
    /\ disk' = Cleared(disk) /\ crc' = [crc EXCEPT ![Ram] = None]
    /\ op' = "put2" /\ txq' = Append(Tail(txq), Call)
    /\ UNCHANGED <<worker, inbox, outbox, stopper, waiting, what, seen, held, hidden, stuck>>

PutSessionNand ==
    /\ CallAt("put2")
    /\ disk' = Cleared([p \in Pages |-> IF p \in Nand THEN file[p] ELSE disk[p]])
    /\ crc' = [crc EXCEPT ![Ram] = None, ![Nand] = None]
    /\ op' = "put3" /\ txq' = Append(Tail(txq), Call)
    /\ UNCHANGED <<worker, inbox, outbox, stopper, waiting, what, seen, page, stuck>>

PutSessionRam ==
    /\ CallAt("put3")
    /\ \E ram \in [Ram -> Vals] : disk' = [p \in Pages |-> IF p \in Ram THEN ram[p] ELSE disk[p]]
    /\ crc' = [crc EXCEPT ![Ram] = None]
    /\ Restart
    /\ UNCHANGED <<what, seen, page, stuck>>

\* A call fails. An import is caught by its own handler and restarts all the same, with
\* the images of the session if it could be unpacked. The rest give up.
CallFails ==
    /\ txq # <<>> /\ Head(txq).op = "call"
    /\ IF what = "session" /\ op \in {"put", "put2", "put3"}
       THEN /\ file' \in IF op = "put" THEN {file} \cup Uploaded(what) ELSE {file}
            /\ Restart
       ELSE /\ op' = "idle" /\ txq' = Tail(txq)
            /\ UNCHANGED <<worker, inbox, outbox, stopper, waiting, file>>
    /\ UNCHANGED <<what, seen, held, hidden, disk, crc, stuck>>

\* The images that restart() hands to the new worker: NAND and SD from the variables
\* of the page, RAM from disk.
Handed == [p \in Pages |-> IF p \in Ram THEN disk[p] ELSE file[p]]

Restarted ==
    /\ CallAt("restart")
    /\ mem' = Handed /\ dirty' = {} /\ scheduled' = {} /\ loop' = FALSE /\ pending' = FALSE
    /\ stopPending' = FALSE /\ dead' = FALSE /\ alive' = TRUE
    /\ Resume(<<>>) /\ txq' = Tail(txq)
    /\ UNCHANGED <<outbox, stopper, waiting, what, seen, hidden, file, disk, crc, stuck>>

\* The page is reloaded: everything but the disk starts over.
Reload ==
    /\ mem' = disk /\ file' = [p \in Nand \cup Sd |-> disk[p]]
    /\ dirty' = {} /\ scheduled' = {} /\ loop' = FALSE /\ pending' = FALSE
    /\ stopPending' = FALSE /\ dead' = FALSE /\ alive' = TRUE
    /\ inbox' = <<Posts("start")>> /\ outbox' = <<>>
    /\ stopper' = None /\ waiting' = <<>> /\ op' = "idle" /\ what' = "export" /\ seen' = None
    /\ held' = FALSE /\ hidden' = FALSE /\ txq' = <<>> /\ stuck' = FALSE
    /\ UNCHANGED <<disk, crc>>

-----------------------------------------------------------------------------
WorkerStep == Cycle \/ TriggerSnapshot \/ Die \/ WorkerStart \/ WorkerStop \/ WorkerSnapshotDone

PageStep == MainSnapshot \/ MainStopped \/ Hide \/ Show \/ Click

CallSucceeds ==
    \/ ExportRam \/ ExportNand \/ PutImage
    \/ PutSessionNor \/ PutSessionNand \/ PutSessionRam \/ Restarted

Next ==
    \/ WorkerStep \/ PageStep \/ SnapCommits \/ SnapFails \/ Hangs
    \/ CallSucceeds \/ CallFails \/ Reload

Spec == Init /\ [][Next]_vars

\* The event loops of the worker and of the page handle every message, and IndexedDB
\* gets to every transaction. Nothing forces the user or the machine to do anything.
Fairness ==
    /\ WF_vars(WorkerStart \/ WorkerStop \/ WorkerSnapshotDone)
    /\ WF_vars(MainSnapshot \/ MainStopped)
    /\ WF_vars(SnapCommits \/ SnapFails \/ Hangs \/ CallSucceeds \/ CallFails)

FairSpec == Spec /\ Fairness

-----------------------------------------------------------------------------
(***************************************************************************)
(* Properties                                                              *)
(***************************************************************************)

\* A page of the device that differs from the disk is marked dirty or belongs to the
\* snapshot under way, however snapshots fail, overlap with stores and race with stops.
\* While images are being replaced the disk is ahead of a machine that is about to go.
WritesKept ==
    (alive /\ op \in {"idle", "stopping", "ram", "nand"}) =>
        \A p \in Pages : mem[p] # disk[p] => p \in dirty \cup scheduled

ChecksumValid(r) == crc[r] # None => crc[r] = Checksum(r, disk)

\* The check of getRam ("CRC mismatch on RAM load!") never fires: the pages on disk are
\* the RAM of one moment, although every snapshot stores only the dirty ones.
RamChecksumValid == ChecksumValid(Ram)

\* The check of getNand ("CRC mismatch on NAND load!") never fires.
NandChecksumValid == ChecksumValid(Nand)

\* When stop() returns to an export or an upload, the machine stands still, no snapshot
\* is on its way and none is being stored: RAM and NAND are read from one state, and
\* an image is not replaced under a snapshot.
StopHonoured ==
    op \in {"ram", "nand", "put", "put2", "put3"} =>
        ~loop /\ ~pending /\ \A i \in 1 .. Len(txq) : txq[i].op # "snap"

\* An export or upload does not wait for ever for the machine to stop, unless the
\* machine crashed, its worker could not be restarted or a transaction vanished.
StopAnswered ==
    (op = "stopping") ~> (op # "stopping" \/ dead \/ ~alive \/ stuck)

\* If the page stays hidden the machine ends up stopped, in whatever order stops and
\* starts were requested before, unless a transaction vanished.
PausesWhenHidden ==
    <>[](hidden /\ ~held) => (<>[](~loop) \/ <>stuck)
=============================================================================
