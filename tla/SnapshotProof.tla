--------------------------- MODULE SnapshotProof ---------------------------
(***************************************************************************)
(* Theorems about Snapshot, for every number of sessions and pages.        *)
(***************************************************************************)
EXTENDS Snapshot, TLAPS

USE DEF Waiters, Awaits, Phases

-----------------------------------------------------------------------------
(***************************************************************************)
(* The inductive invariant.                                                *)
(***************************************************************************)
TxLive == tx.st \in {"open", "committing", "done"}

\* The session cannot go away under a snapshot, and a caller that stopped the
\* loop keeps it stopped.
Control ==
    /\ session # None => sessionId = session
    /\ phase # "idle" \/ running \/ TxLive => session # None
    /\ \A w \in Waiters : at[w] # "none" => session # None
    /\ at["pause"] # "none" \/ at["stop"] # "none" => ~running
    /\ at["stop"] # "none" => at["pause"] = "none" /\ at["eject"] = "none"
    /\ at["stop"] \in {"go", "done", "skip"} => phase = "idle" /\ tx.st = "none"
    /\ errorCount > MaxErrors => fatal

\* Where triggerSnapshotOnce stands and what its transaction is doing.
Transactions ==
    /\ phase = "card" => mounted /\ lockMine /\ tx.st = "none"
    /\ phase = "commit" => tx.st # "none"
    /\ tx.st \in {"open", "aborted"} => phase = "commit"
    /\ phase = "idle" /\ tx.st # "none" => fatal
    /\ TxLive => lockMine /\ tx.sid = session

\* A page the transaction carries is either still current or dirty again.
Carried ==
    /\ session # None => dirty \cup dirtyPages \subseteq Live
    /\ TxLive =>
         /\ DOMAIN tx.puts \subseteq Live
         /\ dirtyPages \subseteq DOMAIN tx.puts
         /\ \A p \in DOMAIN tx.puts : tx.puts[p] # mem[p] => p \in dirty
    /\ tx.st = "done" =>
         /\ \A p \in DOMAIN tx.puts : db[tx.sid].mem[p] = tx.puts[p]
         /\ db[tx.sid].state = tx.state

\* What a caller that has stopped the loop may rely on.
Stopped ==
    \A w \in {"pause", "stop"} :
        /\ at[w] = "snap" => ~suspended
        /\ at[w] \in {"go", "snap"} /\ phase = "commit" => dirty = {}
        /\ at[w] \in {"go", "snap"} /\ phase = "commit" /\ TxLive => tx.state \in {cpu, None}
        /\ at[w] = "done" =>
             /\ dirty = {} /\ dirtyPages = {}
             /\ TxLive => tx.state \in {cpu, None}
             /\ lockMine => db[session].state \in {cpu, None}

IInv == TypeOK /\ Control /\ Transactions /\ Carried /\ NoLostWrite /\ Stopped

-----------------------------------------------------------------------------
(***************************************************************************)
(* The operators the actions are built from.                               *)
(***************************************************************************)

\* A transaction laid over an image of all pages gives an image of all pages.
LEMMA OverlayType ==
    ASSUME NEW puts \in Puts, NEW image \in Image
    PROVE  Overlay(puts, image) \in Image
BY DEF Overlay, Puts, Image

\* Committing a transaction keeps the shape of the database.
LEMMA ApplyType ==
    ASSUME TypeOK, tx.st \in {"open", "committing", "done", "aborted"}
    PROVE  Apply(tx) \in [Sessions -> Record]
<1>1. tx \in Transaction
  BY DEF TypeOK, NoTx
<1>2. tx.sid \in Sessions /\ tx.puts \in Puts /\ tx.state \in Vals \cup {None}
  BY <1>1 DEF Transaction
<1>3. db[tx.sid] \in Record
  BY <1>2 DEF TypeOK
<1>4. Overlay(tx.puts, db[tx.sid].mem) \in Image
  BY <1>2, <1>3, OverlayType DEF Record
<1> QED
  BY <1>2, <1>3, <1>4 DEF Apply, TypeOK, Record

\* Settling the pending promise moves the waiters to known places.
LEMMA SettleType ==
    ASSUME TypeOK, NEW resolved \in BOOLEAN, Settle(resolved)
    PROVE  at' \in [Waiters -> Awaits]
BY DEF Settle, TypeOK

\* The catch block of triggerSnapshotUnguarded: the error count stays bounded
\* because a count above MAX_CONSECUTIVE_ERRORS is latched as a fatal error.
LEMMA FailType ==
    ASSUME IInv, Fail
    PROVE  /\ at' \in [Waiters -> Awaits]
           /\ errorCount' \in 0 .. MaxErrors + 1
           /\ phase' \in {"idle", "lock"}
           /\ fatal' \in BOOLEAN
<1> DEFINE count == IF fatal THEN MaxErrors + 1 ELSE errorCount + 1
<1>1. errorCount' = count
  BY DEF Fail
<1>2. count \in Nat
  BY ConstantsAssumption DEF IInv, TypeOK
<1>3. CASE count > MaxErrors
  <2>1. count \in 0 .. MaxErrors + 1
    <3>1. CASE fatal
      BY <3>1, ConstantsAssumption
    <3>2. CASE ~fatal
      <4>1. errorCount \in 0 .. MaxErrors
        BY <3>2, ConstantsAssumption DEF IInv, TypeOK, Control
      <4> QED
        BY <3>2, <4>1, ConstantsAssumption
    <3> QED
      BY <3>1, <3>2
  <2>2. fatal' = TRUE /\ phase' = "idle" /\ Settle(FALSE)
    BY <1>3 DEF Fail
  <2> QED
    BY <1>1, <2>1, <2>2, SettleType DEF IInv
<1>4. CASE ~(count > MaxErrors)
  <2>1. count \in 0 .. MaxErrors + 1
    BY ConstantsAssumption, <1>2, <1>4
  <2>2. phase' = "lock" /\ UNCHANGED <<fatal, at>>
    BY <1>4 DEF Fail
  <2> QED
    BY <1>1, <2>1, <2>2 DEF IInv, TypeOK
<1> QED
  BY <1>3, <1>4

\* A snapshot that ends well resets the error count.
LEMMA SucceedType ==
    ASSUME TypeOK, Succeed
    PROVE  /\ at' \in [Waiters -> Awaits]
           /\ errorCount' \in 0 .. MaxErrors + 1
           /\ phase' \in Phases
<1>1. 0 \in 0 .. MaxErrors + 1
  BY ConstantsAssumption
<1>2. phase' = "idle" /\ errorCount' = 0 /\ Settle(TRUE)
  BY DEF Succeed
<1>3. at' \in [Waiters -> Awaits]
  BY <1>2, SettleType
<1> QED
  BY <1>1, <1>2, <1>3

\* saveDirtyMemory, saveDirtyStorage and saveSession build a transaction.
LEMMA SaveType ==
    ASSUME TypeOK, NEW hasCard \in BOOLEAN, Save(hasCard), sessionId # None
    PROVE  /\ dirtyPages' \in SUBSET AllPages
           /\ dirty' \in SUBSET AllPages
           /\ tx' \in Transaction
           /\ phase' \in Phases
<1> DEFINE scope == IF hasCard THEN AllPages ELSE Pages
           pages == dirtyPages \cup (dirty \cap scope)
<1>1. pages \cap scope \in SUBSET AllPages /\ pages \in SUBSET AllPages
  BY DEF TypeOK, AllPages
<1>2. [p \in pages \cap scope |-> mem[p]] \in [pages \cap scope -> Vals]
  BY <1>1 DEF TypeOK, Image
<1>3. [p \in pages \cap scope |-> mem[p]] \in Puts
  BY <1>1, <1>2 DEF Puts
<1>4. sessionId \in Sessions
  BY DEF TypeOK
<1>5. PICK state \in {cpu, None} :
        tx' = [st |-> "open", sid |-> sessionId, state |-> state,
               puts |-> [p \in pages \cap scope |-> mem[p]]]
  BY DEF Save
<1>6. tx' \in Transaction
  BY <1>3, <1>4, <1>5 DEF Transaction, TypeOK
<1> QED
  BY <1>1, <1>6 DEF Save, TypeOK

\* The tail of triggerSnapshotOnce, by its three outcomes.
LEMMA SaveUnlessSuspendedType ==
    ASSUME TypeOK, NEW hasCard \in BOOLEAN, SaveUnlessSuspended(hasCard), session # None
    PROVE  /\ at' \in [Waiters -> Awaits]
           /\ dirty' \in SUBSET AllPages
           /\ dirtyPages' \in SUBSET AllPages
           /\ errorCount' \in 0 .. MaxErrors + 1
           /\ phase' \in Phases
           /\ tx' \in Transaction \cup {NoTx}
           /\ fatal' \in BOOLEAN
<1>1. CASE suspended /\ Succeed /\ UNCHANGED <<dirty, dirtyPages, tx, fatal>>
  BY <1>1, SucceedType DEF TypeOK
<1>2. CASE FailFatally /\ UNCHANGED <<dirty, dirtyPages, tx>>
  BY <1>2, SettleType DEF TypeOK, FailFatally
<1>3. CASE session = sessionId /\ Save(hasCard) /\ UNCHANGED <<errorCount, at, fatal>>
  BY <1>3, SaveType DEF TypeOK
<1> QED
  BY <1>1, <1>2, <1>3 DEF SaveUnlessSuspended

\* A store of the emulated machine.
LEMMA StoreType ==
    ASSUME TypeOK, Store
    PROVE  mem' \in Image /\ dirty' \in SUBSET AllPages
BY DEF Store, TypeOK, Live, AllPages, Image

\* Updating the card of a session record.
LEMMA WithCardType ==
    ASSUME TypeOK, NEW s \in Sessions, NEW card \in BOOLEAN
    PROVE  WithCard(s, card) \in [Sessions -> Record]
<1>1. db[s] \in Record
  BY DEF TypeOK
<1>2. [mem |-> db[s].mem, state |-> db[s].state, card |-> card] \in Record
  BY <1>1 DEF Record
<1> QED
  BY <1>2 DEF WithCard, TypeOK

-----------------------------------------------------------------------------
(***************************************************************************)
(* The steps that need more than their definitions.                        *)
(***************************************************************************)

\* Every read answered before a save leads to a save, an early return or a fatal
\* error: the pages the emulator forgets are those the transaction carries.
LEMMA SaveStep ==
    ASSUME IInv, LockGranted \/ CardFound
    PROVE  IInv'
<1> USE DEF IInv, LockGranted, CardFound, SaveUnlessSuspended, Save, FailFatally, Succeed, Settle
<1>1. TypeOK'
  BY SaveUnlessSuspendedType, ConstantsAssumption DEF TypeOK, Control, NoTx
<1>2. (Control /\ Transactions)'
  BY <1>1, ConstantsAssumption DEF Control, Transactions, TxLive, NoTx, TypeOK
<1>3. Carried'
  BY <1>1, <1>2 DEF Control, Transactions, TxLive, NoTx, TypeOK, Carried, Live
<1>4. NoLostWrite'
  BY <1>1, <1>2 DEF Control, Transactions, NoLostWrite, Live
<1>5. Stopped'
  BY <1>1, <1>2 DEF Control, Transactions, TxLive, NoTx, TypeOK, Carried, Live, Stopped
<1> QED
  BY <1>1, <1>2, <1>3, <1>4, <1>5

\* A failed attempt loses nothing: the pages it carried stay in dirtyPages.
LEMMA FailStep ==
    ASSUME IInv, ReadError \/ WriteError \/ Timeout
    PROVE  IInv'
<1> USE DEF IInv, ReadError, WriteError, Timeout, emulator
<1>1. TypeOK'
  BY FailType, ConstantsAssumption DEF TypeOK, NoTx
<1>2. (Control /\ Transactions)'
  BY <1>1, ConstantsAssumption DEF Control, Transactions, TxLive, NoTx, TypeOK, Fail, Settle
<1> QED
  BY <1>1, <1>2 DEF Control, Transactions, TxLive, NoTx, TypeOK, Carried, Live, NoLostWrite,
                    Stopped, Fail, Settle

\* tx.oncomplete may clear dirtyPages, on time or late: each of these pages is
\* on disk as the transaction carried it, or dirty again in the emulator.
LEMMA TxCompleteStep ==
    ASSUME IInv, TxComplete
    PROVE  IInv'
<1> USE DEF IInv, TxComplete, Succeed, Settle, emulator
<1>1. TypeOK'
  BY SucceedType, ConstantsAssumption DEF TypeOK, NoTx
<1>2. (Control /\ Transactions)'
  BY <1>1, ConstantsAssumption DEF Control, Transactions, TxLive, NoTx, TypeOK
<1>3. Carried' /\ NoLostWrite'
  BY <1>1, <1>2 DEF Control, Transactions, TxLive, NoTx, TypeOK, Carried, Live, NoLostWrite
<1>4. Stopped'
  BY <1>1, <1>2 DEF Control, Transactions, TxLive, NoTx, TypeOK, Carried, Live, Stopped
<1> QED
  BY <1>1, <1>2, <1>3, <1>4

\* A commit that reaches the disk leaves no page both stale on disk and unmarked.
LEMMA TxCommitOkStep ==
    ASSUME IInv, TxCommitOk
    PROVE  IInv'
<1> USE DEF IInv, TxCommitOk, emulator
<1>1. tx \in Transaction /\ tx.sid = session /\ session \in Sessions /\ session # None /\ lockMine
  BY ConstantsAssumption DEF TypeOK, NoTx, Transactions, Control, TxLive
<1>2. /\ tx' \in Transaction /\ tx'.st = "done"
      /\ tx'.sid = tx.sid /\ tx'.puts = tx.puts /\ tx'.state = tx.state
  BY <1>1 DEF Transaction
<1>3. TypeOK'
  BY <1>2, ApplyType DEF TypeOK
<1>4. /\ db'[session].state = tx.state
      /\ \A p \in AllPages : db'[session].mem[p] =
            IF p \in DOMAIN tx.puts THEN tx.puts[p] ELSE db[session].mem[p]
  BY <1>1 DEF Apply, Overlay, TypeOK, Record
<1>5. DOMAIN tx.puts \subseteq AllPages
  BY DEF Carried, TxLive, Live, AllPages
<1>6. (Control /\ Transactions)'
  BY <1>2, <1>3 DEF Control, Transactions, TxLive, TypeOK
<1>7. Carried'
  BY <1>1, <1>2, <1>4, <1>5 DEF Carried, TxLive, Live, TypeOK
<1>8. NoLostWrite'
  <2> SUFFICES ASSUME NEW p \in Live, mem[p] # db'[session].mem[p]
               PROVE  p \in dirty \cup dirtyPages
    BY DEF NoLostWrite, Live
  <2>1. p \in AllPages
    BY DEF Live, AllPages
  <2>2. CASE p \in DOMAIN tx.puts
    BY <2>1, <2>2, <1>4 DEF Carried, TxLive
  <2>3. CASE p \notin DOMAIN tx.puts
    BY <2>1, <2>3, <1>1, <1>4 DEF NoLostWrite
  <2> QED
    BY <2>2, <2>3
<1>9. Stopped'
  BY <1>1, <1>2, <1>4 DEF Stopped, TxLive
<1> QED
  BY <1>3, <1>6, <1>7, <1>8, <1>9

\* A commit that starts or fails changes neither the disk nor the bitmaps.
LEMMA TxCommitStep ==
    ASSUME IInv, TxCommitStart \/ TxCommitFails
    PROVE  IInv'
<1> USE DEF IInv, TxCommitStart, TxCommitFails, emulator
<1>1. tx \in Transaction
  BY DEF TypeOK, NoTx
<1>2. CASE tx' = NoTx
  BY <1>2 DEF NoTx, TypeOK, Control, Transactions, TxLive, Carried, Live, NoLostWrite, Stopped
<1>3. CASE tx' # NoTx
  <2>1. /\ tx' \in Transaction /\ tx'.sid = tx.sid /\ tx'.puts = tx.puts /\ tx'.state = tx.state
        /\ \/ tx.st = "open" /\ tx'.st = "committing"
           \/ tx.st = "committing" /\ phase = "commit" /\ tx'.st = "aborted"
    BY <1>1, <1>3 DEF Transaction
  <2>2. TypeOK'
    BY <2>1 DEF TypeOK
  <2>3. (Control /\ Transactions)'
    BY <2>1 DEF Control, Transactions, TxLive
  <2>4. (Carried /\ NoLostWrite /\ Stopped)'
    BY <2>1 DEF Carried, Live, NoLostWrite, Stopped, TxLive
  <2> QED
    BY <2>2, <2>3, <2>4
<1> QED
  BY <1>2, <1>3

\* A store marks the page it hits, whatever snapshot is under way.
LEMMA RunStep ==
    ASSUME IInv, AdvanceEmulation \/ Install
    PROVE  IInv'
<1> USE DEF IInv, AdvanceEmulation, Install, Store, TriggerSnapshot, service, MutexFree
<1>1. TypeOK'
  BY StoreType, ConstantsAssumption DEF TypeOK
<1>2. (Control /\ Transactions)'
  BY <1>1, ConstantsAssumption DEF Control, Transactions, TxLive, TypeOK
<1>3. (Carried /\ NoLostWrite)'
  BY <1>1, <1>2 DEF Control, Transactions, TxLive, NoTx, TypeOK, Image, AllPages, Carried, Live, NoLostWrite
<1>4. Stopped'
  BY <1>1, <1>2 DEF Control, TypeOK, Stopped
<1> QED
  BY <1>1, <1>2, <1>3, <1>4

\* A card that is inserted is mounted as it is on disk, one that is ejected
\* leaves no page behind.
LEMMA CardStep ==
    ASSUME IInv, EjectEnd \/ Insert
    PROVE  IInv'
<1> USE DEF IInv, EjectEnd, Insert, TxFree, service
<1>1. session \in Sessions
  BY DEF TypeOK, Control
<1>2. WithCard(session, TRUE) \in [Sessions -> Record] /\ WithCard(session, FALSE) \in [Sessions -> Record]
  BY <1>1, WithCardType
<1>3. \A card \in BOOLEAN, s \in Sessions :
        /\ WithCard(session, card)[s].mem = db[s].mem
        /\ WithCard(session, card)[s].state = db[s].state
  BY <1>1 DEF WithCard, TypeOK
<1>4. db[session].mem \in Image
  BY <1>1 DEF TypeOK, Record
<1>5. mem' \in Image
  BY <1>4 DEF TypeOK, Image
<1>6. TypeOK'
  BY <1>2, <1>5 DEF TypeOK
<1>7. (Control /\ Transactions)'
  BY <1>6 DEF Control, Transactions, TxLive, TypeOK
<1>8. CASE EjectEnd
  <2>1. (Carried /\ NoLostWrite)'
    BY <1>1, <1>3, <1>8, ConstantsAssumption
    DEF Transactions, TxLive, TypeOK, Carried, Live, AllPages, NoLostWrite
  <2>2. Stopped'
    <3>1. at'["pause"] = at["pause"] /\ at'["stop"] = at["stop"]
      BY <1>8 DEF TypeOK
    <3>2. dirty' \subseteq dirty /\ dirtyPages' \subseteq dirtyPages
      BY <1>8
    <3>3. db'[session].state = db[session].state
      BY <1>1, <1>3, <1>8
    <3>4. ~TxLive' /\ UNCHANGED <<suspended, phase, cpu, session, lockMine>>
      BY <1>8 DEF TxLive
    <3> QED
      BY <3>1, <3>2, <3>3, <3>4 DEF Stopped
  <2> QED
    BY <1>6, <1>7, <2>1, <2>2
<1>9. CASE Insert
  <2>1. ~TxLive /\ ~TxLive'
    BY <1>9 DEF TxLive
  <2>2. Carried'
    BY <1>9, <2>1 DEF Carried, Live, AllPages, TxLive
  <2>3. NoLostWrite'
    <3> SUFFICES ASSUME session # None, lockMine, NEW p \in Live',
                        mem'[p] # db'[session].mem[p]
                 PROVE  p \in dirty \cup dirtyPages
      BY <1>9 DEF NoLostWrite
    <3>1. p \in AllPages /\ db'[session].mem = db[session].mem
      BY <1>1, <1>3, <1>9 DEF Live, AllPages
    <3>2. p \notin CardPages
      BY <3>1, <1>9
    <3>3. p \in Live /\ mem'[p] = mem[p]
      BY <3>1, <3>2, <1>9 DEF Live, AllPages
    <3> QED
      BY <3>1, <3>3 DEF NoLostWrite
  <2>4. Stopped'
    BY <1>1, <1>3, <1>9, <2>1 DEF Control, Transactions, Stopped
  <2> QED
    BY <1>6, <1>7, <2>2, <2>3, <2>4
<1> QED
  BY <1>8, <1>9

\* The page that Memory::Initialize writes is marked, all others are as on disk.
LEMMA LoadStep ==
    ASSUME IInv, NEW s \in Sessions, Load(s) \/ LoadFails(s)
    PROVE  IInv'
<1> USE DEF IInv, Load, LoadFails, Loaded, TxFree, MutexFree, emulator, service
<1>1. TypeOK'
  BY ConstantsAssumption DEF TypeOK, AllPages, Image, Record
<1>2. (Control /\ Transactions)'
  BY <1>1, ConstantsAssumption DEF Control, Transactions, TxLive, TypeOK
<1> QED
  BY <1>1, <1>2, ConstantsAssumption
  DEF Control, Transactions, TxLive, TypeOK, AllPages, Carried, Live, NoLostWrite, Stopped

\* Deleting the state of a session that is not open does not touch the open one.
LEMMA DeleteStateStep ==
    ASSUME IInv, NEW s \in Sessions, DeleteState(s)
    PROVE  IInv'
<1> USE DEF IInv, DeleteState, emulator, service, TxFree
<1>1. TypeOK'
  BY DEF TypeOK, Record
<1>2. (Control /\ Transactions)'
  BY <1>1 DEF Control, Transactions, TxLive, TypeOK
<1> QED
  BY <1>1, <1>2 DEF Control, Transactions, TxLive, TypeOK, Carried, Live, NoLostWrite, Stopped

\* A reload, with or without the commit that was under way, starts afresh.
LEMMA ReloadStep ==
    ASSUME IInv, Reload
    PROVE  IInv'
<1>1. db' \in [Sessions -> Record]
  BY ApplyType DEF IInv, Reload, TypeOK
<1>2. 0 \in 0 .. MaxErrors + 1 /\ ~(0 > MaxErrors)
  BY ConstantsAssumption
<1>3. mem' \in Image /\ cpu' \in Vals
  BY ConstantsAssumption DEF Reload, Image
<1>4. TypeOK'
  BY <1>1, <1>2, <1>3 DEF Reload, TypeOK
<1> QED
  BY <1>2, <1>4 DEF IInv, Reload, Control, Transactions, TxLive, NoTx, Carried, NoLostWrite, Stopped

\* What another tab writes is not covered by the promises of this page.
LEMMA OtherTabSavesStep ==
    ASSUME IInv, OtherTabSaves
    PROVE  IInv'
<1> USE DEF IInv, OtherTabSaves, emulator, service
<1>1. PICK s \in Sessions, p \in AllPages, v \in Vals :
        db' = [db EXCEPT ![s] = [mem |-> [@.mem EXCEPT ![p] = v], state |-> v, card |-> @.card]]
  OBVIOUS
<1>2. db[s] \in Record
  BY DEF TypeOK
<1>3. [db[s].mem EXCEPT ![p] = v] \in Image
  BY <1>2 DEF Record, Image
<1>4. [mem |-> [db[s].mem EXCEPT ![p] = v], state |-> v, card |-> db[s].card] \in Record
  BY <1>2, <1>3 DEF Record
<1>5. TypeOK'
  BY <1>1, <1>4 DEF TypeOK
<1>6. (Control /\ Transactions)'
  BY <1>5 DEF Control, Transactions, TxLive, TypeOK
<1> QED
  BY <1>5, <1>6 DEF Transactions, TxLive, Carried, Live, NoLostWrite, Stopped

-----------------------------------------------------------------------------
(***************************************************************************)
(* The theorems.                                                           *)
(***************************************************************************)

\* The invariant holds when the app starts.
LEMMA IInvInit == Init => IInv
<1> SUFFICES ASSUME Init PROVE IInv
  OBVIOUS
<1>1. 0 \in 0 .. MaxErrors + 1 /\ ~(0 > MaxErrors)
  BY ConstantsAssumption
<1>2. mem \in Image /\ cpu \in Vals
  BY ConstantsAssumption DEF Init, Image
<1>3. db \in [Sessions -> Record]
  BY ConstantsAssumption DEF Init, Record, Image
<1>4. TypeOK
  BY <1>1, <1>2, <1>3 DEF Init, TypeOK
<1> QED
  BY <1>1, <1>4 DEF Init, IInv, Control, Transactions, TxLive, NoTx, Carried, NoLostWrite, Stopped

\* What is dirty depends on nothing but the pages, the bitmaps and the disk.
LEMMA DataKept ==
    ASSUME IInv, UNCHANGED <<mem, dirty, mounted, session, dirtyPages, tx, db, lockMine>>
    PROVE  (Carried /\ NoLostWrite)'
BY DEF IInv, TxLive, Carried, Live, NoLostWrite

\* Every step of the emulator, of the services, of IndexedDB and of another tab
\* preserves the invariant.
LEMMA IInvStep == IInv /\ [Next]_vars => IInv'
<1> SUFFICES ASSUME IInv, [Next]_vars PROVE IInv'
  OBVIOUS
<1>1. CASE LockGranted \/ CardFound
  BY <1>1, SaveStep
<1>2. CASE LockLost
  <2> USE <1>2 DEF IInv, LockLost, FailFatally, Settle, emulator
  <2>1. TypeOK'
    BY SettleType, ConstantsAssumption DEF TypeOK
  <2>2. (Control /\ Transactions)'
    BY <2>1, ConstantsAssumption DEF TypeOK, Control, Transactions, TxLive, NoTx
  <2>3. (Carried /\ NoLostWrite)'
    BY DataKept
  <2>4. Stopped'
    BY <2>1, <2>2 DEF TypeOK, Control, Transactions, TxLive, Stopped
  <2> QED
    BY <2>1, <2>2, <2>3, <2>4
<1>3. CASE ReadError \/ WriteError \/ Timeout
  BY <1>3, FailStep
<1>4. CASE TxComplete
  BY <1>4, TxCompleteStep
<1>5. CASE TxCommitStart \/ TxCommitFails
  BY <1>5, TxCommitStep
<1>6. CASE TxCommitOk
  BY <1>6, TxCommitOkStep
<1>7. CASE AdvanceEmulation \/ Install
  BY <1>7, RunStep
<1>8. CASE NativeError
  <2> USE <1>8 DEF IInv, NativeError, emulator, service
  <2>1. TypeOK'
    BY ConstantsAssumption DEF TypeOK
  <2>2. (Control /\ Transactions)'
    BY <2>1, ConstantsAssumption DEF TypeOK, Control, Transactions, TxLive, NoTx
  <2>3. (Carried /\ NoLostWrite)'
    BY DataKept
  <2>4. Stopped'
    BY <2>1, <2>2 DEF TypeOK, Control, Transactions, TxLive, Stopped
  <2> QED
    BY <2>1, <2>2, <2>3, <2>4
<1>9. CASE Wake
  <2> USE <1>9 DEF IInv, Wake, service
  <2>1. TypeOK'
    BY ConstantsAssumption DEF TypeOK
  <2>2. (Control /\ Transactions)'
    BY <2>1, ConstantsAssumption DEF TypeOK, Control, Transactions, TxLive, NoTx
  <2>3. (Carried /\ NoLostWrite)'
    BY DataKept
  <2>4. Stopped'
    BY <2>1, <2>2 DEF TypeOK, Control, Transactions, TxLive, Stopped
  <2> QED
    BY <2>1, <2>2, <2>3, <2>4
<1>10. CASE Resume
  <2> USE <1>10 DEF IInv, Resume, emulator, service, MutexFree
  <2>1. TypeOK'
    BY ConstantsAssumption DEF TypeOK
  <2>2. (Control /\ Transactions)'
    BY <2>1, ConstantsAssumption DEF TypeOK, Control, Transactions, TxLive, NoTx
  <2>3. (Carried /\ NoLostWrite)'
    BY DataKept
  <2>4. Stopped'
    BY <2>1, <2>2 DEF TypeOK, Control, Transactions, TxLive, Stopped
  <2> QED
    BY <2>1, <2>2, <2>3, <2>4
<1>11. CASE OtherTabOpens
  <2> USE <1>11 DEF IInv, OtherTabOpens, emulator, service, TxFree
  <2>1. TypeOK'
    BY ConstantsAssumption DEF TypeOK
  <2>2. (Control /\ Transactions)'
    BY <2>1, ConstantsAssumption DEF TypeOK, Control, Transactions, TxLive, NoTx
  <2>3. (Carried /\ NoLostWrite)'
    BY DEF Control, Transactions, TxLive, Carried, Live, NoLostWrite
  <2>4. Stopped'
    BY <2>1, <2>2 DEF TypeOK, Control, Transactions, TxLive, Stopped
  <2> QED
    BY <2>1, <2>2, <2>3, <2>4
<1>12. CASE Pause
  <2> USE <1>12 DEF IInv, Pause, emulator, service, AwaitPending, MutexFree
  <2>1. TypeOK'
    BY ConstantsAssumption DEF TypeOK
  <2>2. (Control /\ Transactions)'
    BY <2>1, ConstantsAssumption DEF TypeOK, Control, Transactions, TxLive, NoTx
  <2>3. (Carried /\ NoLostWrite)'
    BY DataKept
  <2>4. Stopped'
    BY <2>1, <2>2 DEF TypeOK, Control, Transactions, TxLive, Stopped
  <2> QED
    BY <2>1, <2>2, <2>3, <2>4
<1>13. CASE Stop
  <2> USE <1>13 DEF IInv, Stop, emulator, service, AwaitPending, MutexFree
  <2>1. TypeOK'
    BY ConstantsAssumption DEF TypeOK
  <2>2. (Control /\ Transactions)'
    BY <2>1, ConstantsAssumption DEF TypeOK, Control, Transactions, TxLive, NoTx
  <2>3. (Carried /\ NoLostWrite)'
    BY DataKept
  <2>4. Stopped'
    BY <2>1, <2>2 DEF TypeOK, Control, Transactions, TxLive, Stopped
  <2> QED
    BY <2>1, <2>2, <2>3, <2>4
<1>14. CASE Eject
  <2> USE <1>14 DEF IInv, Eject, emulator, service, AwaitPending
  <2>1. TypeOK'
    BY ConstantsAssumption DEF TypeOK
  <2>2. (Control /\ Transactions)'
    BY <2>1, ConstantsAssumption DEF TypeOK, Control, Transactions, TxLive, NoTx
  <2>3. (Carried /\ NoLostWrite)'
    BY DataKept
  <2>4. Stopped'
    BY <2>1, <2>2 DEF TypeOK, Control, Transactions, TxLive, Stopped
  <2> QED
    BY <2>1, <2>2, <2>3, <2>4
<1>15. CASE PauseEnd
  <2> USE <1>15 DEF IInv, PauseEnd, emulator, service
  <2>1. TypeOK'
    BY ConstantsAssumption DEF TypeOK
  <2>2. (Control /\ Transactions)'
    BY <2>1, ConstantsAssumption DEF TypeOK, Control, Transactions, TxLive, NoTx
  <2>3. (Carried /\ NoLostWrite)'
    BY DataKept
  <2>4. Stopped'
    BY <2>1, <2>2 DEF TypeOK, Control, Transactions, TxLive, Stopped
  <2> QED
    BY <2>1, <2>2, <2>3, <2>4
<1>16. CASE StopEnd
  <2> USE <1>16 DEF IInv, StopEnd, emulator, service
  <2>1. TypeOK'
    BY ConstantsAssumption DEF TypeOK
  <2>2. (Control /\ Transactions)'
    BY <2>1, ConstantsAssumption DEF TypeOK, Control, Transactions, TxLive, NoTx
  <2>3. (Carried /\ NoLostWrite)'
    BY DEF Control, Transactions, TxLive, Carried, Live, NoLostWrite
  <2>4. Stopped'
    BY <2>1, <2>2 DEF TypeOK, Control, Transactions, TxLive, Stopped
  <2> QED
    BY <2>1, <2>2, <2>3, <2>4
<1>17. CASE EjectEnd \/ Insert
  BY <1>17, CardStep
<1>18. ASSUME NEW w \in Waiters, TriggerAndAwait(w) PROVE IInv'
  <2> USE <1>18 DEF IInv, TriggerAndAwait, TriggerSnapshot, emulator
  <2>1. TypeOK'
    BY ConstantsAssumption DEF TypeOK
  <2>2. (Control /\ Transactions)'
    BY <2>1, ConstantsAssumption DEF TypeOK, Control, Transactions, TxLive, NoTx
  <2>3. (Carried /\ NoLostWrite)'
    BY DataKept
  <2>4. Stopped'
    BY <2>1, <2>2 DEF TypeOK, Control, Transactions, TxLive, Stopped
  <2> QED
    BY <2>1, <2>2, <2>3, <2>4
<1>19. ASSUME NEW s \in Sessions, Load(s) \/ LoadFails(s) PROVE IInv'
  BY <1>19, LoadStep
<1>20. ASSUME NEW s \in Sessions, DeleteState(s) PROVE IInv'
  BY <1>20, DeleteStateStep
<1>21. CASE Reload
  BY <1>21, ReloadStep
<1>22. CASE OtherTabSaves
  BY <1>22, OtherTabSavesStep
<1>23. CASE UNCHANGED vars
  BY <1>23 DEF vars, IInv, TypeOK, Control, Transactions, TxLive, Carried, Live, NoLostWrite, Stopped
<1> QED
  BY <1>1, <1>2, <1>3, <1>4, <1>5, <1>6, <1>7, <1>8, <1>9, <1>10, <1>11, <1>12, <1>13, <1>14,
     <1>15, <1>16, <1>17, <1>18, <1>19, <1>20, <1>21, <1>22, <1>23 DEF Next

\* The invariant holds in every state the system reaches.
THEOREM Invariant == Spec => []IInv
<1>1. IInv /\ [Next]_vars => IInv'
  BY IInvStep
<1> QED
  BY IInvInit, <1>1, PTL DEF Spec

\* Every variable keeps its type: in particular consecutiveErrorCount never
\* exceeds MAX_CONSECUTIVE_ERRORS by more than one.
THEOREM TypeCorrect == Spec => []TypeOK
<1>1. IInv => TypeOK
  BY DEF IInv
<1> QED
  BY Invariant, <1>1, PTL

\* SnapshotService never forgets a page: what differs from the disk is marked,
\* for any number of pages, sessions and retries.
THEOREM WritesAreKept == Spec => []NoLostWrite
<1>1. IInv => NoLostWrite
  BY DEF IInv
<1> QED
  BY Invariant, <1>1, PTL

\* assertSessionMatches never throws.
THEOREM SessionMatches == Spec => []SnapshotsRunningSession
<1>1. IInv => SnapshotsRunningSession
  BY DEF IInv, Control, SnapshotsRunningSession
<1> QED
  BY Invariant, <1>1, PTL

\* A pause or a stop that took its snapshot left the machine on disk.
THEOREM PauseIsDurable == Spec => []PauseSaves
<1>1. IInv => PauseSaves
  BY DEF IInv, TypeOK, Control, NoLostWrite, Stopped, PauseSaves
<1> QED
  BY Invariant, <1>1, PTL

\* A page that lost its lock never writes: at the time of every commit, also one
\* that outlives its timeout or the page, the lock is held.
THEOREM LockIsRespected == Spec => LockRespected
<1>1. IInv /\ [Next]_vars => [~lockMine => db' = db \/ OtherTabSaves]_vars
  <2> SUFFICES ASSUME IInv, Next, ~lockMine PROVE db' = db \/ OtherTabSaves
    BY DEF vars
  <2>1. tx.st # "committing"
    BY DEF IInv, Transactions, TxLive
  <2> QED
    BY <2>1 DEF Next, LockGranted, CardFound, LockLost, ReadError, WriteError, Timeout, TxComplete,
       TxCommitStart, TxCommitOk, TxCommitFails, AdvanceEmulation, NativeError, Install, Wake,
       Pause, Stop, Eject, PauseEnd, StopEnd, EjectEnd, Insert, Resume, TriggerAndAwait,
       Load, LoadFails, DeleteState, Reload, OtherTabOpens
<1> QED
  BY Invariant, <1>1, PTL DEF Spec, LockRespected

-----------------------------------------------------------------------------
(***************************************************************************)
(* Snapshot implements Checkpoint, for every number of sessions and pages: *)
(* each step of the service, the emulator, IndexedDB or another tab is a   *)
(* step of the abstract specification or leaves its variables alone.       *)
(*                                                                         *)
(* The refinement mapping, and the steps of Checkpoint in terms of it.     *)
(***************************************************************************)
Images == [mem : Image, state : Vals \cup {None}]
DiskMap == [s \in Sessions |-> Stored(s)]
LiveMap == IF session = None THEN None ELSE LiveImage
ShotMap == IF tx.st \in {"open", "committing"}
           THEN [sid |-> tx.sid, image |-> ShotImage] ELSE None

Stutter == UNCHANGED <<DiskMap, session, LiveMap, ShotMap, lockMine>>

LEMMA StutterMaps == Stutter => UNCHANGED Abstract!vars
BY DEF Stutter, Abstract!vars, DiskMap, LiveMap, ShotMap

LEMMA OpenMaps ==
    ASSUME NEW s \in Sessions, session = None, lockMine, session' = s,
           LiveMap' \in RestoredImages(DiskMap[s]), UNCHANGED <<DiskMap, ShotMap, lockMine>>
    PROVE  Abstract!Next
<1>1. Abstract!Open(s)
  BY DEF Abstract!Open, DiskMap, LiveMap, ShotMap
<1> QED
  BY <1>1 DEF Abstract!Next

LEMMA RunMaps ==
    ASSUME session # None, LiveMap' \in Images, UNCHANGED <<DiskMap, session, ShotMap, lockMine>>
    PROVE  Abstract!Next
<1>1. Abstract!Run
  BY DEF Abstract!Run, DiskMap, LiveMap, ShotMap, Images
<1> QED
  BY <1>1 DEF Abstract!Next

LEMMA CaptureMaps ==
    ASSUME session # None, lockMine, ShotMap = None,
           NEW image \in {LiveMap, [LiveMap EXCEPT !.state = None]},
           ShotMap' = [sid |-> session, image |-> image],
           UNCHANGED <<DiskMap, session, LiveMap, lockMine>>
    PROVE  Abstract!Next
<1>1. Abstract!Capture
  BY DEF Abstract!Capture, Abstract!Stateless, DiskMap, LiveMap, ShotMap
<1> QED
  BY <1>1 DEF Abstract!Next

LEMMA CommitMaps ==
    ASSUME ShotMap # None, lockMine, DiskMap' = [DiskMap EXCEPT ![ShotMap.sid] = ShotMap.image],
           ShotMap' = None, UNCHANGED <<session, LiveMap, lockMine>>
    PROVE  Abstract!Next
<1>1. Abstract!Commit
  BY DEF Abstract!Commit, DiskMap, LiveMap, ShotMap
<1> QED
  BY <1>1 DEF Abstract!Next

LEMMA DropMaps ==
    ASSUME ShotMap # None, ShotMap' = None, UNCHANGED <<DiskMap, session, LiveMap, lockMine>>
    PROVE  Abstract!Next
<1>1. Abstract!Drop
  BY DEF Abstract!Drop, DiskMap, LiveMap, ShotMap
<1> QED
  BY <1>1 DEF Abstract!Next

LEMMA CloseMaps ==
    ASSUME session # None, session' = None, LiveMap' = None,
           UNCHANGED <<DiskMap, ShotMap, lockMine>>
    PROVE  Abstract!Next
<1>1. Abstract!Close
  BY DEF Abstract!Close, DiskMap, LiveMap, ShotMap
<1> QED
  BY <1>1 DEF Abstract!Next

LEMMA ResetStateMaps ==
    ASSUME NEW s \in Sessions, s # session, lockMine, ShotMap = None,
           DiskMap' = [DiskMap EXCEPT ![s] = [DiskMap[s] EXCEPT !.state = None]],
           UNCHANGED <<session, LiveMap, ShotMap, lockMine>>
    PROVE  Abstract!Next
<1>1. Abstract!ResetState(s)
  BY DEF Abstract!ResetState, Abstract!Stateless, DiskMap, LiveMap, ShotMap
<1> QED
  BY <1>1 DEF Abstract!Next

LEMMA CrashMaps ==
    ASSUME \/ DiskMap' = DiskMap
           \/ ShotMap # None /\ DiskMap' = [DiskMap EXCEPT ![ShotMap.sid] = ShotMap.image],
           session' = None, LiveMap' = None, ShotMap' = None, lockMine' = TRUE
    PROVE  Abstract!Next
<1>1. Abstract!Crash
  BY DEF Abstract!Crash, DiskMap, LiveMap, ShotMap
<1> QED
  BY <1>1 DEF Abstract!Next

LEMMA LoseOwnershipMaps ==
    ASSUME lockMine, ShotMap = None, lockMine' = FALSE,
           UNCHANGED <<DiskMap, session, LiveMap, ShotMap>>
    PROVE  Abstract!Next
<1>1. Abstract!LoseOwnership
  BY DEF Abstract!LoseOwnership, DiskMap, LiveMap, ShotMap
<1> QED
  BY <1>1 DEF Abstract!Next

LEMMA ForeignMaps ==
    ASSUME ~lockMine, DiskMap' \in [Sessions -> Images],
           IF session = None THEN LiveMap' = None ELSE LiveMap' \in Images,
           UNCHANGED <<session, ShotMap, lockMine>>
    PROVE  Abstract!Next
<1>1. Abstract!Foreign
  BY DEF Abstract!Foreign, DiskMap, LiveMap, ShotMap, Images
<1> QED
  BY <1>1 DEF Abstract!Next

-----------------------------------------------------------------------------
(***************************************************************************)
(* What the steps of Snapshot do to the mapped variables.                  *)
(***************************************************************************)

\* Every session on disk, and the open one, is an image.
LEMMA MapTypes ==
    ASSUME TypeOK
    PROVE  /\ DiskMap \in [Sessions -> Images]
           /\ session # None => LiveMap \in Images
<1>1. \A s \in Sessions : Stored(s) \in Images
  BY DEF TypeOK, Record, Stored, Images
<1>2. ASSUME session # None PROVE LiveMap \in Images
  <2>1. db[session].mem \in Image /\ cpu \in Vals
    BY <1>2 DEF TypeOK, Record
  <2>2. [p \in AllPages |-> IF p \in Live THEN mem[p] ELSE db[session].mem[p]] \in Image
    BY <2>1 DEF TypeOK, Image
  <2> QED
    BY <1>2, <2>1, <2>2 DEF LiveMap, LiveImage, Images
<1> QED
  BY <1>1, <1>2 DEF DiskMap

LEMMA MapTypesPrime ==
    ASSUME TypeOK'
    PROVE  /\ DiskMap' \in [Sessions -> Images]
           /\ session' # None => LiveMap' \in Images
<1>1. \A s \in Sessions : Stored(s)' \in Images
  BY DEF TypeOK, Record, Stored, Images
<1>2. ASSUME session' # None PROVE LiveMap' \in Images
  <2>1. db'[session'].mem \in Image /\ cpu' \in Vals
    BY <1>2 DEF TypeOK, Record
  <2>2. [p \in AllPages |-> IF p \in Live' THEN mem'[p] ELSE db'[session'].mem[p]] \in Image
    BY <2>1 DEF TypeOK, Image
  <2> QED
    BY <1>2, <2>1, <2>2 DEF LiveMap, LiveImage, Images
<1> QED
  BY <1>1, <1>2 DEF DiskMap

\* A transaction holds an image until it is committed, aborted or given up.
LEMMA ShotShape ==
    ASSUME TypeOK
    PROVE  /\ tx.st \in {"open", "committing"} =>
                ShotMap # None /\ ShotMap.sid = tx.sid /\ ShotMap.image = ShotImage
           /\ tx.st \notin {"open", "committing"} => ShotMap = None
<1> SUFFICES ASSUME tx.st \in {"open", "committing"}
             PROVE  ShotMap # None /\ ShotMap.sid = tx.sid /\ ShotMap.image = ShotImage
  BY DEF ShotMap
<1>1. tx.sid \in Sessions /\ tx.puts \in Puts /\ tx.state \in Vals \cup {None}
  BY DEF TypeOK, NoTx, Transaction
<1>2. Overlay(tx.puts, db[tx.sid].mem) \in Image
  BY <1>1, OverlayType DEF TypeOK, Record
<1>3. ShotImage \in [mem : Image, state : Vals \cup {None}]
  BY <1>1, <1>2 DEF ShotImage
<1>4. ShotMap = [sid |-> tx.sid, image |-> ShotImage]
  BY DEF ShotMap
<1> QED
  BY <1>1, <1>3, <1>4, NoneAssumption

\* What the mapped variables depend on.
LEMMA MapsKept ==
    /\ UNCHANGED db => UNCHANGED DiskMap
    /\ UNCHANGED <<mem, cpu, mounted, session, db>> => UNCHANGED LiveMap
    /\ UNCHANGED <<tx, db>> => UNCHANGED ShotMap
<1>1. UNCHANGED db => UNCHANGED DiskMap
  BY DEF DiskMap, Stored
<1>2. UNCHANGED <<mem, cpu, mounted, session, db>> => UNCHANGED LiveMap
  BY DEF LiveMap, LiveImage, Live
<1>3. UNCHANGED <<tx, db>> => UNCHANGED ShotMap
  BY DEF ShotMap, ShotImage, Overlay
<1> QED
  BY <1>1, <1>2, <1>3

\* A step of the service, of its callers or of the network that touches neither the
\* machine, nor the disk, nor the transaction.
LEMMA QuietStep ==
    ASSUME UNCHANGED <<mem, cpu, mounted, session, db, tx, lockMine>>
    PROVE  Stutter
BY MapsKept DEF Stutter

\* Until its complete event is delivered, a transaction that reached the disk has no image.
LEMMA NoShotStep ==
    ASSUME TypeOK, TypeOK', UNCHANGED <<mem, cpu, mounted, session, db, lockMine>>,
           tx.st \notin {"open", "committing"}, tx'.st \notin {"open", "committing"}
    PROVE  Stutter
<1>1. ShotMap = None /\ ShotMap' = None
  BY DEF ShotMap
<1> QED
  BY <1>1, MapsKept DEF Stutter

\* A transaction is given up: its image never reaches the disk.
LEMMA GiveUpStep ==
    ASSUME TypeOK, UNCHANGED <<mem, cpu, mounted, session, db, lockMine>>,
           tx'.st \notin {"open", "committing"}
    PROVE  Abstract!Next \/ Stutter
<1>1. ShotMap' = None
  BY DEF ShotMap
<1>2. CASE ShotMap = None
  BY <1>1, <1>2, MapsKept DEF Stutter
<1>3. CASE ShotMap # None
  BY <1>1, <1>3, MapsKept, DropMaps
<1> QED
  BY <1>2, <1>3

\* The machine, or what of it is mounted, changes.
LEMMA MachineStep ==
    ASSUME TypeOK', session # None, UNCHANGED <<DiskMap, session, ShotMap, lockMine>>
    PROVE  Abstract!Next
BY MapTypesPrime, RunMaps

\* The save captures the machine: the pages that are not put are on disk already.
LEMMA SaveCaptures ==
    ASSUME IInv, Save(mounted), session # None, session = sessionId, lockMine, tx.st = "none",
           UNCHANGED <<mem, cpu, mounted, session, db, lockMine>>
    PROVE  Abstract!Next
<1> DEFINE scope == IF mounted THEN AllPages ELSE Pages
           pages == dirtyPages \cup (dirty \cap scope)
           image == ShotImage'
<1>1. PICK state \in {cpu, None} :
        tx' = [st |-> "open", sid |-> sessionId, state |-> state,
               puts |-> [p \in pages \cap scope |-> mem[p]]]
  BY DEF Save
<1>2. scope = Live /\ pages = dirty \cup dirtyPages /\ pages \cap scope = pages
  BY DEF IInv, Carried, Live
<1>3. /\ tx'.st = "open" /\ tx'.sid = session /\ tx'.state = state
      /\ tx'.puts = [p \in pages |-> mem[p]]
  BY <1>1, <1>2
<1> HIDE DEF pages, scope
<1>4. ASSUME NEW p \in AllPages
      PROVE  (IF p \in DOMAIN tx'.puts THEN tx'.puts[p] ELSE db[session].mem[p])
               = IF p \in Live THEN mem[p] ELSE db[session].mem[p]
  <2>1. CASE p \in pages
    BY <1>2, <1>3, <2>1 DEF IInv, Carried
  <2>2. CASE p \notin pages
    BY <1>2, <1>3, <2>2 DEF IInv, NoLostWrite
  <2> QED
    BY <2>1, <2>2
<1>5. image.mem = LiveImage.mem
  BY <1>3, <1>4 DEF ShotImage, Overlay, LiveImage
<1>6. image \in {LiveMap, [LiveMap EXCEPT !.state = None]}
  <2>1. image = [mem |-> LiveImage.mem, state |-> state]
    BY <1>3, <1>5 DEF ShotImage
  <2>2. LiveMap = [mem |-> LiveImage.mem, state |-> cpu]
    BY DEF LiveMap, LiveImage
  <2> QED
    BY <2>1, <2>2
<1>7. ShotMap' = [sid |-> session, image |-> image]
  BY <1>3 DEF ShotMap
<1>8. ShotMap = None
  BY DEF ShotMap
<1> QED
  BY <1>6, <1>7, <1>8, MapsKept, CaptureMaps

\* The rest of triggerSnapshotOnce captures the machine or leaves it alone.
LEMMA SaveUnlessSuspendedMaps ==
    ASSUME IInv, SaveUnlessSuspended(mounted), session # None, lockMine, tx.st = "none",
           UNCHANGED <<mem, cpu, mounted, session, db, lockMine>>
    PROVE  Abstract!Next \/ Stutter
<1>1. CASE UNCHANGED tx
  BY <1>1, QuietStep
<1>2. CASE session = sessionId /\ Save(mounted)
  BY <1>2, SaveCaptures
<1> QED
  BY <1>1, <1>2 DEF SaveUnlessSuspended

\* The commit puts the image of the transaction on disk, whole.
LEMMA CommitStep ==
    ASSUME IInv, tx.st \in {"open", "committing"}, db' = Apply(tx)
    PROVE  /\ ShotMap # None
           /\ DiskMap' = [DiskMap EXCEPT ![ShotMap.sid] = ShotMap.image]
<1>1. /\ ShotMap # None /\ ShotMap.sid = tx.sid /\ ShotMap.image = ShotImage
      /\ tx.sid \in Sessions
  BY ShotShape DEF IInv, TypeOK, NoTx, Transaction
<1>2. db' = [db EXCEPT ![tx.sid] = [mem |-> Overlay(tx.puts, db[tx.sid].mem),
                                    state |-> tx.state, card |-> db[tx.sid].card]]
  BY DEF Apply
<1>3. db \in [Sessions -> Record]
  BY DEF IInv, TypeOK
<1>4. ASSUME NEW s \in Sessions
      PROVE  DiskMap'[s] = IF s = tx.sid THEN ShotImage ELSE DiskMap[s]
  <2>1. CASE s = tx.sid
    <3>1. db'[s].mem = Overlay(tx.puts, db[tx.sid].mem) /\ db'[s].state = tx.state
      BY <1>2, <1>3, <2>1
    <3> QED
      BY <2>1, <3>1 DEF DiskMap, Stored, ShotImage
  <2>2. CASE s # tx.sid
    BY <1>2, <1>3, <2>2 DEF DiskMap, Stored
  <2> QED
    BY <2>1, <2>2
<1>5. /\ DiskMap = [s \in Sessions |-> DiskMap[s]]
      /\ DiskMap' = [s \in Sessions |-> DiskMap'[s]]
  BY DEF DiskMap
<1> HIDE DEF DiskMap
<1> QED
  BY <1>1, <1>4, <1>5

LEMMA TxCommitOkMaps ==
    ASSUME IInv, TxCommitOk
    PROVE  Abstract!Next
<1>1. /\ tx.st = "committing" /\ db' = Apply(tx) /\ tx' = [tx EXCEPT !.st = "done"]
      /\ UNCHANGED <<mem, cpu, mounted, session, lockMine>>
  BY DEF TxCommitOk, emulator
<1>2. /\ lockMine /\ tx.sid = session /\ DOMAIN tx.puts \subseteq Live /\ session # None
      /\ tx \in Transaction /\ session \in Sessions
  BY <1>1 DEF IInv, Control, Transactions, Carried, TxLive, TypeOK, NoTx
<1>3. tx'.st = "done"
  BY <1>1, <1>2 DEF Transaction
<1>4. ShotMap' = None
  BY <1>3 DEF ShotMap
<1>5. LiveMap' = LiveMap
  <2>1. db'[session].mem = Overlay(tx.puts, db[session].mem)
    BY <1>1, <1>2 DEF Apply, IInv, TypeOK
  <2>2. \A p \in AllPages : p \notin Live => db'[session].mem[p] = db[session].mem[p]
    BY <1>2, <2>1 DEF Overlay
  <2> QED
    BY <1>1, <2>2 DEF LiveMap, LiveImage, Live
<1> QED
  BY <1>1, <1>2, <1>4, <1>5, CommitStep, CommitMaps

LEMMA LoadMaps ==
    ASSUME IInv, NEW s \in Sessions, Load(s)
    PROVE  Abstract!Next \/ Stutter
<1>1. session = None /\ UNCHANGED <<tx, db, lockMine>>
  BY DEF Load
<1>2. CASE ~(lockMine /\ ~fatal)
  BY <1>1, <1>2, QuietStep DEF Load, emulator
<1>3. CASE lockMine /\ ~fatal
  <2>1. /\ mem' = Loaded(db[s].mem, db[s].card)
        /\ cpu' \in {Blank} \cup ({db[s].state} \ {None})
        /\ mounted' = db[s].card /\ session' = s
    BY <1>3 DEF Load
  <2>2. db[s].mem \in [AllPages -> Vals] /\ MetaPage \in AllPages /\ MetaPage \in Live'
    BY ConstantsAssumption DEF IInv, TypeOK, Record, Image, AllPages, Live
  <2>3. s # None
    BY ConstantsAssumption
  <2>4. LiveMap' = [mem |-> [p \in AllPages |-> IF p \in Live' THEN mem'[p] ELSE db[s].mem[p]],
                    state |-> cpu']
    BY <1>1, <2>1, <2>3 DEF LiveMap, LiveImage
  <2>5. [p \in AllPages |-> IF p \in Live' THEN mem'[p] ELSE db[s].mem[p]]
          = [db[s].mem EXCEPT ![MetaPage] = Toc]
    <3>1. ASSUME NEW p \in AllPages
          PROVE  (IF p \in Live' THEN mem'[p] ELSE db[s].mem[p])
                   = IF p = MetaPage THEN Toc ELSE db[s].mem[p]
      BY <2>1, <2>2 DEF Loaded, Live
    <3> QED
      BY <2>2, <3>1
  <2>6. DiskMap[s].mem = db[s].mem /\ DiskMap[s].state = db[s].state
    BY DEF DiskMap, Stored
  <2>7. LiveMap' \in RestoredImages(DiskMap[s])
    BY <2>1, <2>4, <2>5, <2>6 DEF RestoredImages
  <2> QED
    BY <1>1, <1>3, <2>1, <2>7, MapsKept, OpenMaps
<1> QED
  BY <1>2, <1>3

\* A step that changes at most the card entry of session records: the disk keeps its images.
LEMMA WithCardMaps ==
    ASSUME TypeOK, NEW s \in Sessions, NEW card \in BOOLEAN, db' = WithCard(s, card)
    PROVE  UNCHANGED DiskMap
<1>1. \A k \in Sessions : db'[k].mem = db[k].mem /\ db'[k].state = db[k].state
  BY DEF WithCard, TypeOK
<1> QED
  BY <1>1 DEF DiskMap, Stored

\* The card is ejected or mounted: the machine has other pages, the disk does not.
LEMMA CardMaps ==
    ASSUME IInv, IInv', EjectEnd \/ Insert
    PROVE  Abstract!Next \/ Stutter
<1>1. session # None /\ session \in Sessions /\ TxFree /\ UNCHANGED <<cpu, session, tx, lockMine>>
  BY DEF EjectEnd, Insert, IInv, Control, TypeOK, Waiters, service
<1>2. ShotMap = None /\ ShotMap' = None
  BY <1>1 DEF TxFree, ShotMap
<1>3. CASE UNCHANGED <<mem, mounted, db>>
  BY <1>1, <1>3, QuietStep
<1>4. CASE \E card \in BOOLEAN : db' = WithCard(session, card)
  BY <1>1, <1>2, <1>4, WithCardMaps, MachineStep DEF IInv
<1> QED
  BY <1>3, <1>4 DEF EjectEnd, Insert

LEMMA DeleteStateMaps ==
    ASSUME IInv, NEW s \in Sessions, DeleteState(s)
    PROVE  Abstract!Next
<1>1. /\ session # s /\ lockMine /\ TxFree
      /\ db' = [db EXCEPT ![s] = [mem |-> db[s].mem, state |-> None, card |-> db[s].card]]
      /\ UNCHANGED <<mem, cpu, mounted, session, tx, lockMine>>
  BY DEF DeleteState, emulator, service
<1>2. ShotMap = None /\ ShotMap' = None
  BY <1>1 DEF TxFree, ShotMap
<1>3. db \in [Sessions -> Record]
  BY DEF IInv, TypeOK
<1>4. LiveMap' = LiveMap
  <2>1. CASE session = None
    BY <1>1, <2>1 DEF LiveMap
  <2>2. CASE session # None
    <3>1. db'[session] = db[session]
      BY <1>1, <1>3, <2>2 DEF IInv, TypeOK
    <3> QED
      BY <1>1, <3>1 DEF LiveMap, LiveImage, Live
  <2> QED
    BY <2>1, <2>2
<1>5. ASSUME NEW k \in Sessions
      PROVE  DiskMap'[k] = IF k = s THEN [DiskMap[s] EXCEPT !.state = None] ELSE DiskMap[k]
  BY <1>1, <1>3 DEF DiskMap, Stored
<1>6. /\ DiskMap = [k \in Sessions |-> DiskMap[k]]
      /\ DiskMap' = [k \in Sessions |-> DiskMap'[k]]
  BY DEF DiskMap
<1> HIDE DEF DiskMap
<1>7. DiskMap' = [DiskMap EXCEPT ![s] = [DiskMap[s] EXCEPT !.state = None]]
  BY <1>5, <1>6
<1> QED
  BY <1>1, <1>2, <1>4, <1>7, ResetStateMaps

LEMMA ReloadMaps ==
    ASSUME IInv, Reload
    PROVE  Abstract!Next
<1>1. /\ db' = db \/ (tx.st = "committing" /\ db' = Apply(tx))
      /\ session' = None /\ tx' = NoTx /\ lockMine' = TRUE
  BY DEF Reload
<1>2. LiveMap' = None /\ ShotMap' = None
  BY <1>1 DEF LiveMap, ShotMap, NoTx
<1>3. CASE db' = db
  BY <1>1, <1>2, <1>3, MapsKept, CrashMaps
<1>4. CASE tx.st = "committing" /\ db' = Apply(tx)
  BY <1>1, <1>2, <1>4, CommitStep, CrashMaps
<1> QED
  BY <1>1, <1>3, <1>4

LEMMA OtherTabMaps ==
    ASSUME IInv, IInv', OtherTabOpens \/ OtherTabSaves
    PROVE  Abstract!Next
<1>1. UNCHANGED <<mem, cpu, mounted, session, tx>>
  BY DEF OtherTabOpens, OtherTabSaves, emulator, service
<1>2. CASE OtherTabOpens
  <2>1. ShotMap = None
    BY <1>2 DEF OtherTabOpens, TxFree, ShotMap
  <2> QED
    BY <1>1, <1>2, <2>1, MapsKept, LoseOwnershipMaps DEF OtherTabOpens
<1>3. CASE OtherTabSaves
  <2>1. ~lockMine /\ ~TxLive /\ UNCHANGED lockMine
    BY <1>3 DEF OtherTabSaves, IInv, Transactions
  <2>2. ShotMap = None /\ ShotMap' = None
    BY <1>1, <2>1 DEF TxLive, ShotMap
  <2>3. session = None => LiveMap' = None
    BY <1>1 DEF LiveMap
  <2> QED
    BY <1>1, <2>1, <2>2, <2>3, MapTypesPrime, ForeignMaps DEF IInv
<1> QED
  BY <1>2, <1>3

-----------------------------------------------------------------------------
(***************************************************************************)
(* The refinement.                                                         *)
(***************************************************************************)

LEMMA InitMaps == Init => Abstract!Init
<1> SUFFICES ASSUME Init PROVE Abstract!Init
  OBVIOUS
<1>1. TypeOK
  BY IInvInit DEF IInv
<1>2. DiskMap \in [Sessions -> Images]
  BY <1>1, MapTypes
<1>3. tx.st = "none"
  BY DEF Init, NoTx
<1> QED
  BY <1>2, <1>3 DEF Init, Abstract!Init, DiskMap, Images

LEMMA StepMaps ==
    ASSUME IInv, IInv', [Next]_vars
    PROVE  Abstract!Next \/ Stutter
<1> USE DEF emulator, service
<1>1. CASE LockGranted
  <2>1. /\ lockMine /\ tx.st = "none" /\ session # None
        /\ UNCHANGED <<mem, cpu, mounted, session, db, lockMine>>
    BY <1>1 DEF LockGranted, IInv, Control
  <2>2. CASE mounted
    BY <1>1, <2>1, <2>2, QuietStep DEF LockGranted
  <2>3. CASE ~mounted
    <3>1. mounted = FALSE
      BY <2>3 DEF IInv, TypeOK
    <3> QED
      BY <1>1, <2>1, <3>1, SaveUnlessSuspendedMaps DEF LockGranted
  <2> QED
    BY <2>2, <2>3
<1>2. CASE CardFound
  <2>1. /\ lockMine /\ tx.st = "none" /\ session # None /\ mounted = TRUE
        /\ UNCHANGED <<mem, cpu, mounted, session, db, lockMine>>
    BY <1>2 DEF CardFound, IInv, Control, Transactions, TypeOK
  <2> QED
    BY <1>2, <2>1, SaveUnlessSuspendedMaps DEF CardFound
<1>3. CASE LockLost \/ ReadError \/ NativeError \/ Wake \/ Pause \/ Stop \/ Eject \/ PauseEnd
             \/ Resume \/ (\E w \in Waiters : TriggerAndAwait(w)) \/ UNCHANGED vars
  <2>1. UNCHANGED <<mem, cpu, mounted, session, db, tx, lockMine>>
    BY <1>3 DEF LockLost, ReadError, NativeError, Wake, Pause, Stop, Eject, PauseEnd, Resume,
         TriggerAndAwait, vars
  <2> QED
    BY <2>1, QuietStep
<1>4. CASE WriteError
  <2>1. UNCHANGED <<mem, cpu, mounted, session, db, lockMine>> /\ tx'.st = "none"
    BY <1>4 DEF WriteError, NoTx
  <2> QED
    BY <2>1, GiveUpStep DEF IInv
<1>5. CASE Timeout
  <2>1. UNCHANGED <<mem, cpu, mounted, session, db, lockMine>>
    BY <1>5 DEF Timeout
  <2>2. CASE tx' = tx
    BY <2>1, <2>2, QuietStep
  <2>3. CASE tx' = NoTx
    BY <2>1, <2>3, GiveUpStep DEF IInv, NoTx
  <2> QED
    BY <1>5, <2>2, <2>3 DEF Timeout
<1>6. CASE TxComplete
  <2>1. /\ UNCHANGED <<mem, cpu, mounted, session, db, lockMine>>
        /\ tx.st = "done" /\ tx'.st = "none"
    BY <1>6 DEF TxComplete, NoTx
  <2> QED
    BY <2>1, NoShotStep DEF IInv
<1>7. CASE TxCommitStart
  <2>1. /\ UNCHANGED <<mem, cpu, mounted, session, db, lockMine>>
        /\ tx.st = "open" /\ tx' = [tx EXCEPT !.st = "committing"]
    BY <1>7 DEF TxCommitStart
  <2>2. tx \in Transaction
    BY <2>1 DEF IInv, TypeOK, NoTx
  <2>3. tx'.st = "committing" /\ tx'.sid = tx.sid /\ tx'.puts = tx.puts /\ tx'.state = tx.state
    BY <2>1, <2>2 DEF Transaction
  <2>4. ShotMap' = ShotMap
    BY <2>1, <2>3 DEF ShotMap, ShotImage, Overlay
  <2> QED
    BY <2>1, <2>4, MapsKept DEF Stutter
<1>8. CASE TxCommitOk
  BY <1>8, TxCommitOkMaps
<1>9. CASE TxCommitFails
  <2>1. UNCHANGED <<mem, cpu, mounted, session, db, lockMine>> /\ tx.st = "committing"
    BY <1>9 DEF TxCommitFails
  <2>2. tx \in Transaction
    BY <2>1 DEF IInv, TypeOK, NoTx
  <2>3. tx'.st \in {"aborted", "none"}
    BY <1>9, <2>2 DEF TxCommitFails, Transaction, NoTx
  <2> QED
    BY <2>1, <2>3, GiveUpStep DEF IInv
<1>10. CASE AdvanceEmulation \/ Install
  <2>1. session # None /\ UNCHANGED <<session, tx, db, lockMine>>
    BY <1>10 DEF AdvanceEmulation, Install, IInv, Control
  <2> QED
    BY <2>1, MapsKept, MachineStep DEF IInv
<1>11. CASE EjectEnd \/ Insert
  BY <1>11, CardMaps
<1>12. CASE StopEnd
  <2>1. session # None /\ session' = None /\ UNCHANGED <<tx, db, lockMine>>
    BY <1>12 DEF StopEnd, IInv, Control, Waiters
  <2>2. LiveMap' = None
    BY <2>1 DEF LiveMap
  <2> QED
    BY <2>1, <2>2, MapsKept, CloseMaps
<1>13. CASE \E s \in Sessions : Load(s)
  BY <1>13, LoadMaps
<1>14. CASE \E s \in Sessions : LoadFails(s)
  <2>1. session = None /\ session' = None /\ UNCHANGED <<tx, db, lockMine>>
    BY <1>14 DEF LoadFails
  <2>2. LiveMap' = LiveMap
    BY <2>1 DEF LiveMap
  <2> QED
    BY <2>1, <2>2, MapsKept DEF Stutter
<1>15. CASE \E s \in Sessions : DeleteState(s)
  BY <1>15, DeleteStateMaps
<1>16. CASE Reload
  BY <1>16, ReloadMaps
<1>17. CASE OtherTabOpens \/ OtherTabSaves
  BY <1>17, OtherTabMaps
<1> QED
  BY <1>1, <1>2, <1>3, <1>4, <1>5, <1>6, <1>7, <1>8, <1>9, <1>10, <1>11, <1>12, <1>13, <1>14,
     <1>15, <1>16, <1>17 DEF Next

\* The bitmaps, retries and transactions of SnapshotService implement atomic checkpoints:
\* at every moment, also after a crash, the disk holds for each session an image that its
\* machine had at one instant.
THEOREM Checkpoints == Spec => AtomicCheckpoints
<1>1. ASSUME IInv, IInv', [Next]_vars PROVE [Abstract!Next]_(Abstract!vars)
  BY <1>1, StepMaps, StutterMaps
<1> QED
  BY <1>1, InitMaps, Invariant, PTL DEF Spec, Abstract!Spec, AtomicCheckpoints
=============================================================================
