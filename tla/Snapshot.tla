------------------------------ MODULE Snapshot ------------------------------
(***************************************************************************)
(* How the PWA persists a running PalmOS session: SnapshotService, the     *)
(* parts of EmulationService and StorageCardService that wait for it, the  *)
(* dirty page bitmaps of the emulator, and the IndexedDB transactions that *)
(* carry a snapshot to disk.                                               *)
(*                                                                         *)
(* Memory pages and the pages of the mounted card are kept in one function *)
(* mem over AllPages: the service treats both the same way (a bitmap in    *)
(* the emulator, a bitmap in the service, one transaction for both).       *)
(***************************************************************************)
EXTENDS Naturals

CONSTANTS
    Sessions,   \* ids of the sessions in the database
    Pages,      \* pages of the emulated memory
    MetaPage,   \* the metadata page that ends the memory
    CardPages,  \* pages of the storage card of a session
    Vals,       \* contents of a page, and states of the machine outside memory
    Blank,      \* an empty page; also the state of a machine after a reset
    Toc,        \* the contents of the metadata page
    MaxErrors,  \* MAX_CONSECUTIVE_ERRORS
    OtherTabs,  \* whether CloudpilotEmu may be opened in another tab
    None        \* no session, no saved state

ASSUME ConstantsAssumption ==
    /\ MetaPage \in Pages
    /\ Pages \cap CardPages = {}
    /\ Blank \in Vals /\ Toc \in Vals
    /\ MaxErrors \in Nat
    /\ OtherTabs \in BOOLEAN
    /\ None \notin Sessions /\ None \notin Vals

AllPages == Pages \cup CardPages
Image == [AllPages -> Vals]

\* None is no image on its way to the disk either.
ASSUME NoneAssumption ==
    None \notin [sid : Sessions, image : [mem : Image, state : Vals \cup {None}]]

VARIABLES
    mem,         \* emulator: contents of the pages
    cpu,         \* emulator: what saveState() serialises
    dirty,       \* emulator: bitmap of the pages written since the last snapshot
    mounted,     \* emulator: a card is mounted
    suspended,   \* emulator: SuspendManager has a context
    running,     \* EmulationService: the emulation loop is scheduled
    session,     \* EmulationStateService: the current session
    at,          \* where the callers that await a snapshot are
    sessionId,   \* SnapshotService.sessionId
    dirtyPages,  \* SnapshotService.dirtyPages and cardDirtyPages
    errorCount,  \* SnapshotService.consecutiveErrorCount
    phase,       \* the await triggerSnapshotOnce stands at
    tx,          \* the snapshot transaction that holds writes
    db,          \* IndexedDB: what is on disk
    lockMine,    \* IndexedDB: the lock store holds the token of this page
    fatal        \* ErrorService.fatalErrorTriggered

emulator == <<mem, cpu, dirty, mounted, suspended>>
service  == <<sessionId, dirtyPages, errorCount, phase, tx>>
vars == <<mem, cpu, dirty, mounted, suspended, running, session, at,
          sessionId, dirtyPages, errorCount, phase, tx, db, lockMine, fatal>>

-----------------------------------------------------------------------------
Waiters == {"pause", "stop", "eject"}
Awaits == {"none", "wait", "go", "snap", "done", "skip"}
Phases == {"idle", "lock", "card", "commit"}

Puts == UNION {[D -> Vals] : D \in SUBSET AllPages}
NoTx == [st |-> "none"]
Transaction == [st : {"open", "committing", "done", "aborted"}, sid : Sessions,
                puts : Puts, state : Vals \cup {None}]
Record == [mem : Image, state : Vals \cup {None}, card : BOOLEAN]

\* The pages that exist in the emulator.
Live == IF mounted THEN AllPages ELSE Pages

\* A committed transaction replaces the pages it put and keeps the others.
Overlay(puts, image) ==
    [p \in AllPages |-> IF p \in DOMAIN puts THEN puts[p] ELSE image[p]]

Apply(t) ==
    [db EXCEPT ![t.sid] = [mem |-> Overlay(t.puts, @.mem), state |-> t.state, card |-> @.card]]

WithCard(s, card) == [db EXCEPT ![s] = [mem |-> @.mem, state |-> @.state, card |-> card]]

\* Readwrite transactions over the lock store are serialised: another one gets
\* its turn only when no snapshot transaction is live. A transaction that was
\* opened but has no lock answer yet ("lock") may be overtaken.
TxFree == phase # "card" /\ tx.st \in {"none", "aborted"}

\* The mutex of EmulationService is free.
MutexFree == at["pause"] = "none" /\ at["stop"] = "none"

TypeOK ==
    /\ mem \in Image
    /\ cpu \in Vals
    /\ dirty \in SUBSET AllPages
    /\ mounted \in BOOLEAN
    /\ suspended \in BOOLEAN
    /\ running \in BOOLEAN
    /\ session \in Sessions \cup {None}
    /\ at \in [Waiters -> Awaits]
    /\ sessionId \in Sessions \cup {None}
    /\ dirtyPages \in SUBSET AllPages
    /\ errorCount \in 0 .. MaxErrors + 1
    /\ phase \in Phases
    /\ tx \in Transaction \cup {NoTx}
    /\ db \in [Sessions -> Record]
    /\ lockMine \in BOOLEAN
    /\ fatal \in BOOLEAN

\* A freshly opened app: nothing is loaded, this page has written its token.
Init ==
    /\ mem = [p \in AllPages |-> Blank] /\ cpu = Blank /\ dirty = {}
    /\ mounted = FALSE /\ suspended = FALSE
    /\ running = FALSE /\ session = None
    /\ at = [w \in Waiters |-> "none"]
    /\ sessionId = None /\ dirtyPages = {} /\ errorCount = 0
    /\ phase = "idle" /\ tx = NoTx
    /\ \E card \in BOOLEAN :
         db = [s \in Sessions |->
                 [mem |-> [p \in AllPages |-> Blank], state |-> None, card |-> card]]
    /\ lockMine = TRUE /\ fatal = FALSE

-----------------------------------------------------------------------------
(***************************************************************************)
(* The snapshot machinery.                                                 *)
(***************************************************************************)

\* triggerSnapshot as called by the emulation loop: the promise is dropped.
\* susp is the suspend state at the time of the call.
TriggerSnapshot(susp) ==
    phase' = IF sessionId = None \/ susp \/ phase # "idle" \/ fatal
             THEN phase ELSE "lock"

\* Fault: a rejection is not passed on to the waiters.
SettleSilently(resolved) ==
    at' = [w \in Waiters |->
             CASE at[w] = "wait" /\ resolved -> "go"
               [] at[w] = "snap" /\ resolved -> "done"
               [] OTHER -> at[w]]

\* The pending promise settles and its waiters continue: resolved ones go on to
\* their next step, rejected ones leave by the exception.
Settle(resolved) ==
    at' = [w \in Waiters |->
             CASE at[w] = "wait" -> IF resolved THEN "go" ELSE "none"
               [] at[w] = "snap" -> IF resolved THEN "done" ELSE "none"
               [] OTHER -> at[w]]

\* triggerSnapshotOnce returned: the error count is reset.
Succeed == phase' = "idle" /\ errorCount' = 0 /\ Settle(TRUE)

\* Fault: the limit is compared before the count is increased.
FailOffByOne ==
    LET count == IF fatal THEN MaxErrors + 1 ELSE errorCount + 1
    IN  /\ errorCount' = count
        /\ IF errorCount > MaxErrors
           THEN fatal' = TRUE /\ phase' = "idle" /\ Settle(FALSE)
           ELSE phase' = "lock" /\ UNCHANGED <<fatal, at>>

\* Fault: errors are retried without being counted.
FailUncounted == phase' = "lock" /\ UNCHANGED <<errorCount, fatal, at>>

\* The catch block for errors that are retried. Once a fatal error is latched
\* every further attempt is refused by acquireLock until the count is exceeded.
Fail ==
    LET count == IF fatal THEN MaxErrors + 1 ELSE errorCount + 1
    IN  /\ errorCount' = count
        /\ IF count > MaxErrors
           THEN fatal' = TRUE /\ phase' = "idle" /\ Settle(FALSE)
           ELSE phase' = "lock" /\ UNCHANGED <<fatal, at>>

\* E_LOCK_LOST and E_SESSION_MISMATCH: fatal without a retry.
FailFatally == fatal' = TRUE /\ phase' = "idle" /\ Settle(FALSE) /\ UNCHANGED errorCount

\* saveDirtyMemory, saveDirtyStorage (when hasCard) and saveSession: the bits of
\* the emulator move to the service, every page the service knows to be dirty is
\* put, and the state is put or, if saveState fails, deleted.
Save(hasCard) ==
    LET scope == IF hasCard THEN AllPages ELSE Pages
        pages == dirtyPages \cup (dirty \cap scope)
    IN  /\ dirtyPages' = pages
        /\ dirty' = dirty \ scope
        /\ \E state \in {cpu, None} :
             tx' = [st |-> "open", sid |-> sessionId, state |-> state,
                    puts |-> [p \in pages \cap scope |-> mem[p]]]
        /\ phase' = "commit"

\* The rest of triggerSnapshotOnce after its awaits.
SaveUnlessSuspended(hasCard) ==
    \/ /\ suspended
       /\ Succeed
       /\ UNCHANGED <<dirty, dirtyPages, tx, fatal>>
    \/ /\ ~suspended /\ session # sessionId
       /\ FailFatally
       /\ UNCHANGED <<dirty, dirtyPages, tx>>
    \/ /\ ~suspended /\ session = sessionId
       /\ Save(hasCard)
       /\ UNCHANGED <<errorCount, at, fatal>>

\* Fault: the token in the lock store is not compared.
LockUnchecked ==
    /\ phase = "lock" /\ tx.st = "none"
    /\ IF mounted
       THEN phase' = "card" /\ UNCHANGED <<dirty, dirtyPages, errorCount, tx, at, fatal>>
       ELSE SaveUnlessSuspended(FALSE)
    /\ UNCHANGED <<mem, cpu, mounted, suspended, running, session, sessionId, db, lockMine>>

\* Fault: the mounted card is not looked up.
LockGrantedNoCard ==
    /\ phase = "lock" /\ tx.st = "none" /\ lockMine
    /\ SaveUnlessSuspended(FALSE)
    /\ UNCHANGED <<mem, cpu, mounted, suspended, running, session, sessionId, db, lockMine>>

\* acquireLock got the token of this page.
LockGranted ==
    /\ phase = "lock" /\ tx.st = "none" /\ lockMine
    /\ IF mounted
       THEN phase' = "card" /\ UNCHANGED <<dirty, dirtyPages, errorCount, tx, at, fatal>>
       ELSE SaveUnlessSuspended(FALSE)
    /\ UNCHANGED <<mem, cpu, mounted, suspended, running, session, sessionId, db, lockMine>>

\* acquireLock got another token: the transaction is aborted, the app is dead.
LockLost ==
    /\ phase = "lock" /\ tx.st = "none" /\ ~lockMine
    /\ FailFatally
    /\ UNCHANGED <<emulator, running, session, sessionId, dirtyPages, tx, db, lockMine>>

\* The lookup of the mounted card returned.
CardFound ==
    /\ phase = "card"
    /\ SaveUnlessSuspended(TRUE)
    /\ UNCHANGED <<mem, cpu, mounted, suspended, running, session, sessionId, db, lockMine>>

\* A read before the save fails.
ReadError ==
    /\ phase = "card" \/ (phase = "lock" /\ tx.st = "none")
    /\ Fail
    /\ UNCHANGED <<emulator, running, session, sessionId, dirtyPages, tx, db, lockMine>>

\* A put fails: tx.onerror rejects, the transaction aborts.
WriteError ==
    /\ phase = "commit" /\ tx.st = "open"
    /\ tx' = NoTx
    /\ Fail
    /\ UNCHANGED <<emulator, running, session, sessionId, dirtyPages, db, lockMine>>

\* DynamicTimeout fires. abort() works on an open transaction only; one that is
\* already committing is left to its fate while the service retries.
Timeout ==
    /\ phase = "commit"
    /\ tx' = IF tx.st \in {"open", "aborted"} THEN NoTx ELSE tx
    /\ Fail
    /\ UNCHANGED <<emulator, running, session, sessionId, dirtyPages, db, lockMine>>

\* Fault: the bitmap of the emulator is cleared when the transaction completes.
TxCompleteClearsEmulator ==
    /\ tx.st = "done"
    /\ dirtyPages' = {} /\ dirty' = {}
    /\ tx' = NoTx
    /\ IF phase = "commit" THEN Succeed ELSE UNCHANGED <<phase, errorCount, at>>
    /\ UNCHANGED <<mem, cpu, mounted, suspended, running, session, sessionId, db, lockMine, fatal>>

\* tx.oncomplete. If the transaction has timed out already its promise is
\* settled and only the bitmaps are cleared.
TxComplete ==
    /\ tx.st = "done"
    /\ dirtyPages' = {}
    /\ tx' = NoTx
    /\ IF phase = "commit" THEN Succeed ELSE UNCHANGED <<phase, errorCount, at>>
    /\ UNCHANGED <<emulator, running, session, sessionId, db, lockMine, fatal>>

\* IndexedDB: all requests are done and the commit starts.
TxCommitStart ==
    /\ tx.st = "open"
    /\ tx' = [tx EXCEPT !.st = "committing"]
    /\ UNCHANGED <<emulator, running, session, at, sessionId, dirtyPages,
                   errorCount, phase, db, lockMine, fatal>>

\* IndexedDB: the commit reaches the disk; the complete event is still queued.
TxCommitOk ==
    /\ tx.st = "committing"
    /\ db' = Apply(tx)
    /\ tx' = [tx EXCEPT !.st = "done"]
    /\ UNCHANGED <<emulator, running, session, at, sessionId, dirtyPages,
                   errorCount, phase, lockMine, fatal>>

\* IndexedDB: the commit fails. This fires an abort event, which has no handler.
TxCommitFails ==
    /\ tx.st = "committing"
    /\ tx' = IF phase = "commit" THEN [tx EXCEPT !.st = "aborted"] ELSE NoTx
    /\ UNCHANGED <<emulator, running, session, at, sessionId, dirtyPages,
                   errorCount, phase, db, lockMine, fatal>>

-----------------------------------------------------------------------------
(***************************************************************************)
(* The emulator and EmulationService.                                      *)
(***************************************************************************)

\* The machine stores to a page; the bank marks it dirty. The metadata region
\* is not mapped.
Store ==
    \E p \in Live \ {MetaPage}, v \in Vals :
        /\ mem' = [mem EXCEPT ![p] = v]
        /\ dirty' = dirty \cup {p}

\* One turn of the emulation loop. It may suspend the machine, and triggers a
\* snapshot if the last one is long enough ago.
AdvanceEmulation ==
    /\ running /\ ~suspended /\ ~fatal
    /\ Store
    /\ cpu' \in Vals
    /\ suspended' \in BOOLEAN
    /\ TriggerSnapshot(suspended') \/ UNCHANGED phase
    /\ UNCHANGED <<mounted, running, session, at, sessionId, dirtyPages,
                   errorCount, tx, db, lockMine, fatal>>

\* Native code threw: fatalInNativeCode.
NativeError ==
    /\ running /\ ~fatal
    /\ fatal' = TRUE
    /\ UNCHANGED <<emulator, running, session, at, service, db, lockMine>>

\* Installing a database stores to the memory of a paused machine; a snapshot is
\* triggered if more than SNAPSHOT_LIMIT bytes were installed since the last one.
Install ==
    /\ session # None /\ ~running /\ ~suspended /\ ~fatal /\ MutexFree
    /\ Store
    /\ TriggerSnapshot(suspended) \/ UNCHANGED phase
    /\ UNCHANGED <<cpu, mounted, suspended, running, session, at, sessionId,
                   dirtyPages, errorCount, tx, db, lockMine, fatal>>

\* The suspend context is resumed or cancelled (network, clipboard, sync timer).
Wake ==
    /\ suspended
    /\ suspended' = FALSE
    /\ UNCHANGED <<mem, cpu, dirty, mounted, running, session, at, service, db,
                   lockMine, fatal>>

\* waitForPendingSnapshot: where the caller w continues.
AwaitPending(w) ==
    at' = [at EXCEPT ![w] = IF phase # "idle" THEN "wait"
                            ELSE IF fatal THEN "none" ELSE "go"]

\* pause: the loop stops, then the pending and one more snapshot are awaited.
Pause ==
    /\ MutexFree
    /\ running' = FALSE
    /\ IF fatal \/ session = None THEN UNCHANGED at ELSE AwaitPending("pause")
    /\ UNCHANGED <<emulator, session, service, db, lockMine, fatal>>

\* stopUnchecked (stop, switchSession). The context menu that ejects a card stays open
\* until it is ejected, so a stop does not start while an eject is under way; a user who
\* dismisses the menu is the subject of Cards.
Stop ==
    /\ MutexFree /\ at["eject"] = "none" /\ session # None
    /\ running' = FALSE
    /\ AwaitPending("stop")
    /\ UNCHANGED <<emulator, session, service, db, lockMine, fatal>>

\* ejectCurrentCard up to its first await of a snapshot.
Eject ==
    /\ at["eject"] = "none" /\ at["stop"] = "none" /\ session # None /\ mounted
    /\ AwaitPending("eject")
    /\ UNCHANGED <<emulator, running, session, service, db, lockMine, fatal>>

\* Fault: the promise of the snapshot is dropped.
TriggerUnawaited(w) ==
    /\ at[w] = "go"
    /\ TriggerSnapshot(suspended)
    /\ at' = [at EXCEPT ![w] = "done"]
    /\ UNCHANGED <<emulator, running, session, sessionId, dirtyPages, errorCount,
                   tx, db, lockMine, fatal>>

\* await triggerSnapshot() in pause, stopUnchecked and ejectCurrentCard.
TriggerAndAwait(w) ==
    /\ at[w] = "go"
    /\ TriggerSnapshot(suspended)
    /\ at' = [at EXCEPT ![w] = IF sessionId = None \/ suspended THEN "skip"
                               ELSE IF phase = "idle" /\ fatal THEN "none" ELSE "snap"]
    /\ UNCHANGED <<emulator, running, session, sessionId, dirtyPages, errorCount,
                   tx, db, lockMine, fatal>>

PauseEnd ==
    /\ at["pause"] \in {"done", "skip"}
    /\ at' = [at EXCEPT !["pause"] = "none"]
    /\ UNCHANGED <<emulator, running, session, service, db, lockMine, fatal>>

StopEnd ==
    /\ at["stop"] \in {"done", "skip"}
    /\ at' = [at EXCEPT !["stop"] = "none"]
    /\ session' = None
    /\ UNCHANGED <<emulator, running, service, db, lockMine, fatal>>

\* The end of ejectCurrentCard: the session record is updated and, when that
\* transaction completes, the card is removed and its bitmap dropped.
EjectEnd ==
    /\ at["eject"] \in {"done", "skip"} /\ TxFree
    /\ at' = [at EXCEPT !["eject"] = "none"]
    /\ IF lockMine /\ ~fatal
       THEN /\ db' = WithCard(session, FALSE)
            /\ mounted' = FALSE
            /\ dirty' = dirty \ CardPages
            /\ dirtyPages' = dirtyPages \ CardPages
            /\ fatal' = fatal
       ELSE fatal' = TRUE /\ UNCHANGED <<db, mounted, dirty, dirtyPages>>
    /\ UNCHANGED <<mem, cpu, suspended, running, session, sessionId, errorCount,
                   phase, tx, lockMine>>

\* mountCardInEmulator: the card is read from disk, recorded in the session and
\* mounted.
Insert ==
    /\ session # None /\ ~mounted /\ ~fatal /\ at["eject"] = "none" /\ TxFree
    /\ at["stop"] = "none"
    /\ IF lockMine
       THEN /\ mem' = [p \in AllPages |-> IF p \in CardPages THEN db[session].mem[p] ELSE mem[p]]
            /\ mounted' = TRUE
            /\ db' = WithCard(session, TRUE)
            /\ fatal' = fatal
       ELSE fatal' = TRUE /\ UNCHANGED <<mem, mounted, db>>
    /\ UNCHANGED <<cpu, dirty, suspended, running, session, at, service, lockMine>>

Resume ==
    /\ MutexFree /\ session # None /\ ~running /\ ~fatal
    /\ running' = TRUE
    /\ UNCHANGED <<emulator, session, at, service, db, lockMine, fatal>>

\* Memory::Initialize clears the memory, writes the metadata page and marks it
\* dirty; loadMemory then copies the image over it.
Loaded(image, card) ==
    [p \in AllPages |-> IF p = MetaPage THEN Toc
                        ELSE IF p \in Pages \/ card THEN image[p] ELSE Blank]

\* Fault: SnapshotService.initialize is not called for the new session.
LoadUninitialized(s) ==
    /\ session = None /\ MutexFree /\ phase = "idle" /\ TxFree /\ lockMine /\ ~fatal
    /\ mem' = Loaded(db[s].mem, db[s].card)
    /\ cpu' \in {Blank} \cup ({db[s].state} \ {None})
    /\ dirty' = {MetaPage} /\ mounted' = db[s].card /\ suspended' = FALSE
    /\ session' = s
    /\ sessionId' = IF sessionId = None THEN s ELSE sessionId
    /\ UNCHANGED <<running, at, dirtyPages, errorCount, phase, tx, db, lockMine, fatal>>

\* switchSession after the stop: restoreSession and SnapshotService.initialize.
\* loadState falls back to a reset if the state does not load.
Load(s) ==
    /\ session = None /\ MutexFree /\ phase = "idle" /\ TxFree
    /\ IF lockMine /\ ~fatal
       THEN /\ mem' = Loaded(db[s].mem, db[s].card)
            /\ cpu' \in {Blank} \cup ({db[s].state} \ {None})
            /\ dirty' = {MetaPage}
            /\ mounted' = db[s].card
            /\ suspended' = FALSE
            /\ session' = s /\ sessionId' = s /\ dirtyPages' = {}
            /\ fatal' = fatal
       ELSE /\ fatal' = TRUE
            /\ UNCHANGED <<emulator, session, sessionId, dirtyPages>>
    /\ UNCHANGED <<running, at, errorCount, phase, tx, db, lockMine>>

\* The emulator rejects the ROM: switchSession returns false and the service
\* keeps the id of the session it served before.
LoadFails(s) ==
    /\ session = None /\ MutexFree /\ phase = "idle" /\ TxFree
    /\ lockMine /\ ~fatal
    /\ mem' = Loaded([p \in AllPages |-> Blank], FALSE)
    /\ cpu' = Blank /\ dirty' = {MetaPage} /\ suspended' = FALSE /\ mounted' = FALSE
    /\ UNCHANGED <<running, session, at, service, db, lockMine, fatal>>

\* Fault: the session is not stopped before its state is deleted.
DeleteStateOfRunning(s) ==
    /\ lockMine /\ ~fatal /\ TxFree
    /\ db' = [db EXCEPT ![s] = [mem |-> @.mem, state |-> None, card |-> @.card]]
    /\ UNCHANGED <<emulator, running, session, at, service, lockMine, fatal>>

\* resetSession of a session that is not running: its saved state is deleted.
DeleteState(s) ==
    /\ session # s /\ lockMine /\ ~fatal /\ TxFree
    /\ db' = [db EXCEPT ![s] = [mem |-> @.mem, state |-> None, card |-> @.card]]
    /\ UNCHANGED <<emulator, running, session, at, service, lockMine, fatal>>

-----------------------------------------------------------------------------
(***************************************************************************)
(* The environment.                                                        *)
(***************************************************************************)

\* The page is closed, killed or reloaded and starts again. A commit that was
\* under way either made it to the disk or did not.
Reload ==
    /\ db' \in {db} \cup (IF tx.st = "committing" THEN {Apply(tx)} ELSE {})
    /\ mem' = [p \in AllPages |-> Blank] /\ cpu' = Blank /\ dirty' = {}
    /\ mounted' = FALSE /\ suspended' = FALSE /\ running' = FALSE /\ session' = None
    /\ at' = [w \in Waiters |-> "none"]
    /\ sessionId' = None /\ dirtyPages' = {} /\ errorCount' = 0
    /\ phase' = "idle" /\ tx' = NoTx
    /\ lockMine' = TRUE /\ fatal' = FALSE

\* CloudpilotEmu is opened in another tab, which writes its own token ...
OtherTabOpens ==
    /\ OtherTabs /\ lockMine /\ TxFree
    /\ lockMine' = FALSE
    /\ UNCHANGED <<emulator, running, session, at, service, db, fatal>>

\* ... and runs sessions of its own.
OtherTabSaves ==
    /\ ~lockMine
    /\ \E s \in Sessions, p \in AllPages, v \in Vals :
         db' = [db EXCEPT ![s] = [mem |-> [@.mem EXCEPT ![p] = v], state |-> v, card |-> @.card]]
    /\ UNCHANGED <<emulator, running, session, at, service, lockMine, fatal>>

Next ==
    \/ LockGranted \/ LockLost \/ CardFound \/ ReadError \/ WriteError \/ Timeout
    \/ TxComplete \/ TxCommitStart \/ TxCommitOk \/ TxCommitFails
    \/ AdvanceEmulation \/ NativeError \/ Install \/ Wake
    \/ Pause \/ Stop \/ Eject \/ PauseEnd \/ StopEnd \/ EjectEnd \/ Insert \/ Resume
    \/ \E w \in Waiters : TriggerAndAwait(w)
    \/ \E s \in Sessions : Load(s) \/ LoadFails(s) \/ DeleteState(s)
    \/ Reload \/ OtherTabOpens \/ OtherTabSaves

Spec == Init /\ [][Next]_vars

\* The browser answers the reads that precede a save, ends a commit one way or the
\* other, delivers the events it queued and fires timers; the continuations of
\* settled promises run. Nothing is assumed of an open transaction.
Fairness ==
    /\ WF_vars(LockGranted \/ LockLost \/ CardFound \/ ReadError)
    /\ WF_vars(Timeout)
    /\ WF_vars(TxComplete)
    /\ WF_vars(TxCommitOk \/ TxCommitFails)
    /\ \A w \in Waiters : WF_vars(TriggerAndAwait(w))
    /\ WF_vars(StopEnd)

FairSpec == Spec /\ Fairness

-----------------------------------------------------------------------------
\* A page of the running session that differs from its copy on disk is marked in
\* the bitmap of the emulator or in that of the service, so that the next
\* snapshot writes it: no failed, timed out or late transaction, reload of a
\* session or exchange of the card makes the service forget a write.
NoLostWrite ==
    session # None /\ lockMine =>
        \A p \in Live : mem[p] # db[session].mem[p] => p \in dirty \cup dirtyPages

\* The service is never asked to snapshot a session that is not the running
\* one: assertSessionMatches, which would end the app with fatalBug, never fires.
SnapshotsRunningSession ==
    phase # "idle" => session # None /\ session = sessionId

\* When the snapshot that pause or stop awaits has been taken, the disk holds the
\* machine as it stopped (without its state if saveState failed).
PauseSaves ==
    lockMine /\ (at["pause"] = "done" \/ at["stop"] = "done") =>
        /\ \A p \in Live : db[session].mem[p] = mem[p]
        /\ db[session].state \in {cpu, None}

\* A snapshot that was started ends, by completing or with a fatal error: a
\* transaction that hangs or aborts in silence is given up by the timeout, and the
\* retries are bounded.
SnapshotEnds == phase # "idle" ~> phase = "idle"

\* A stop ends: the session is closed, or a fatal error stops the app.
StopCompletes == at["stop"] # "none" ~> (at["stop"] = "none" /\ (session = None \/ fatal))

\* Once another tab holds the lock, nothing but that tab changes the disk.
LockRespected == [][~lockMine => db' = db \/ OtherTabSaves]_vars

-----------------------------------------------------------------------------
\* The image of the open session: the pages of a card that is not mounted count
\* as they are on disk.
LiveImage ==
    [mem |-> [p \in AllPages |-> IF p \in Live THEN mem[p] ELSE db[session].mem[p]],
     state |-> cpu]

Stored(s) == [mem |-> db[s].mem, state |-> db[s].state]

\* The image the transaction under way would leave on disk.
ShotImage == [mem |-> Overlay(tx.puts, db[tx.sid].mem), state |-> tx.state]

\* The images a machine opened from a stored image may start with.
RestoredImages(image) ==
    {[mem |-> [image.mem EXCEPT ![MetaPage] = Toc], state |-> state] :
        state \in {Blank} \cup ({image.state} \ {None})}

Abstract == INSTANCE Checkpoint WITH
    Images <- [mem : Image, state : Vals \cup {None}],
    Restored <- RestoredImages,
    disk <- [s \in Sessions |-> Stored(s)],
    current <- session,
    live <- IF session = None THEN None ELSE LiveImage,
    shot <- IF tx.st \in {"open", "committing"}
            THEN [sid |-> tx.sid, image |-> ShotImage] ELSE None,
    owner <- lockMine

\* The bitmaps, retries and transactions of SnapshotService implement atomic
\* checkpoints: what is on disk for a session is at every moment, also after a
\* crash, an image the machine had at one instant.
AtomicCheckpoints == Abstract!Spec
=============================================================================
