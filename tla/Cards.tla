------------------------------- MODULE Cards -------------------------------
(***************************************************************************)
(* Who may touch the image of a memory card: StorageCardContext, the       *)
(* operations of StorageCardService and VfsService that claim, load, write *)
(* and release card images, the parts of EmulationService that load and    *)
(* release the card of a session, and the records they keep in IndexedDB.  *)
(*                                                                         *)
(* An operation runs from one await to the next. Every transaction locks   *)
(* the lock store for writing, so IndexedDB serves them in the order they  *)
(* were created: dbq. While a loader or a dialog is shown the user can     *)
(* start nothing new, but what was started before goes on.                 *)
(***************************************************************************)
EXTENDS Naturals, Sequences, FiniteSets

CONSTANTS
    CardIds,     \* ids of the cards
    SessionIds,  \* ids of the sessions
    NoFsck,      \* the cards with dontFsckAutomatically
    Overlaps,    \* bound: the sets of operations that may be under way at once while there
                 \* are these cards and sessions
    None,        \* no card, no session
    Gone         \* a record that was deleted

ASSUME CardsAssumption ==
    /\ Overlaps \in [SUBSET (CardIds \cup SessionIds) -> SUBSET SUBSET STRING]
    /\ NoFsck \subseteq CardIds
    /\ None \notin CardIds \cup SessionIds \cup {"launch", "reset"}
    /\ Gone \notin CardIds \cup SessionIds \cup {None, "clean", "dirty", "unformatted", "unfixable"}

VARIABLES
    disk,     \* IndexedDB: the card records and images, the sessions' mountedCard
    owner,    \* StorageCardContext.ownershipMmap
    emu,      \* ExternalStorage: the allocated images and the mounted one
    vfs,      \* VfsService: the card in the primary and the secondary slot, clipboard
    stale,    \* copies of an image that is newer on disk
    current,  \* EmulationStateService: the record of the current session
    mutex,    \* EmulationService.mutex: the operation that holds it
    jobs,     \* the jobs that wait for the mutex
    op,       \* the operations under way
    dbq,      \* the operations that wait for a transaction, oldest first
    overlap,  \* operations under way were not alone: "ops"; one of them, now or earlier,
              \* puts back a session record it has read before: "rewrite"
    stuck,    \* cards an operation had claimed when it broke off
    lost,     \* cards on which an outdated copy was written
    fatal     \* ErrorService.fatalErrorTriggered

copies == <<owner, emu, vfs, stale>>
session == <<current, mutex, jobs>>
ops == <<op, dbq, overlap>>
fate == <<stuck, lost, fatal>>
vars == <<disk, copies, session, ops, fate>>

-----------------------------------------------------------------------------
Owners == {"none", "cloudpilot", "fstools", "vfs"}
Status == {"clean", "dirty", "unformatted", "unfixable"}
FsckResult == {"ok", "fixed", "invalid", "unfixable"}
Ejects == {"eject", "eject2"}
Launches == {"launch", "reset"}
Rewriters == Launches \cup {"edit"}
Writers == {"file", "paste"}
Ops == {"insert", "browse", "check", "delete", "delSession"}
         \cup Ejects \cup Rewriters \cup Writers

\* The awaits of an operation: for a transaction, for a loader to come up, and for
\* anything else.
DbSteps == {"ejectGet", "ejOther", "ejOther2", "ejCard", "ejStatus", "ejSession",
            "delCard", "ccMounted", "ccCard", "ccCard2", "fsMounted", "fsCard",
            "fsLoad", "fsStatus", "apData", "apStatus", "mtMounted", "ldGet",
            "ldData", "mtStatus", "mtSession", "vfGet", "vfLoad", "fiSync",
            "fiError", "paLoad", "paSync", "paSource", "swSession", "swLoad",
            "swUpdate", "rsState", "dsDelete", "edSave"}
LoaderSteps == {"dlLoader", "fsLoader", "apLoader", "mtLoader", "vfLoader"}
FreeSteps == {"ask", "ejSnap", "fsCtx", "askFix", "askRo", "queued", "queued2",
              "stop", "stopOnly", "swOpen", "edForm"} \cup LoaderSteps

\* The awaits of sync.
SyncSteps == {"fiSync", "paSync", "paSource"}

\* A loader or a dialog is shown. The operations in Shielded show one from the
\* start to the end.
Shielded == {"delete", "delSession", "paste"}
ModalSteps == {"ask", "askFix", "askRo", "fsMounted", "fsCard", "fsCtx", "fsLoad",
               "fsStatus", "apData", "apStatus", "ldGet", "ldData", "mtStatus",
               "mtSession", "vfGet", "vfLoad", "swSession", "swLoad", "swOpen",
               "swUpdate", "edForm"} \cup LoaderSteps

\* card: what it was started for; out: what ejectCurrentCard ejects; res: the
\* result of the FsckContext it holds.
NotRunning == [pc |-> "idle", card |-> None, ses |-> None, out |-> None, res |-> None]
NoSession == [id |-> None, card |-> None]

Active == {o \in Ops : op[o].pc # "idle"}
Modal == \E o \in Ops : op[o].pc # "idle" /\ (o \in Shielded \/ op[o].pc \in ModalSteps)

Exists(c) == disk.status[c] \in Status
SessionExists(s) == disk.mounted[s] # Gone

\* mountedInSession and cardIsMounted: the sessions whose record names the card.
MountedIn(c) == {s \in SessionIds : disk.mounted[s] = c}
SessionOf(c) == IF MountedIn(c) = {} THEN None ELSE CHOOSE s \in MountedIn(c) : TRUE

InVfs(c) == c \in {vfs.primary, vfs.secondary}

TypeOK ==
    /\ disk \in [status : [CardIds -> Status \cup {Gone}],
                 health : [CardIds -> FsckResult \cup {"unknown"}],
                 mounted : [SessionIds -> CardIds \cup {None, Gone}]]
    /\ owner \in [CardIds -> Owners]
    /\ emu \in [images : SUBSET CardIds, key : CardIds \cup {None}]
    /\ vfs \in [{"primary", "secondary", "clip"} -> CardIds \cup {None}]
    /\ stale \subseteq (Ops \cup {"emu", "vfs"}) \X CardIds
    /\ current \in [id : SessionIds \cup {None}, card : CardIds \cup {None}]
    /\ mutex \in Launches \cup {None}
    /\ jobs \in Seq([op : Launches \cup {None}, id : SessionIds \cup {None},
                     card : CardIds \cup {None, Gone}])
    /\ op \in [Ops -> [pc : DbSteps \cup FreeSteps \cup {"idle"},
                       card : CardIds \cup {None}, ses : SessionIds \cup {None},
                       out : CardIds \cup {None}, res : FsckResult \cup {None}]]
    /\ dbq \in Seq(Ops) /\ {dbq[i] : i \in DOMAIN dbq} = {o \in Ops : op[o].pc \in DbSteps}
    /\ \A i, j \in DOMAIN dbq : dbq[i] = dbq[j] => i = j
    /\ stuck \subseteq CardIds /\ lost \subseteq CardIds
    /\ overlap \in {"none", "ops", "rewrite"} /\ fatal \in BOOLEAN

\* What is known of an image when its record is written by createEmptyCard,
\* createCardFromImage or addAllCardsFromArchive: an empty card is formatted, an
\* imported one is checked by fsckNewCard unless the user declines, one from an
\* archive counts as dirty. The health of an image is what fsck would find.
NewCard(c) ==
    {<<"clean", "ok">>, <<"dirty", "unknown">>, <<"unformatted", "invalid">>,
     <<"unfixable", "unfixable">>, <<Gone, "unknown">>}
      \cup (IF c \in NoFsck THEN {<<"clean", "unknown">>} ELSE {})

\* The page as it comes up: no session runs and nobody holds a card.
FreshPage ==
    [owner |-> [c \in CardIds |-> "none"], emu |-> [images |-> {}, key |-> None],
     vfs |-> [primary |-> None, secondary |-> None, clip |-> None],
     op |-> [o \in Ops |-> NotRunning]]

Init ==
    /\ \E sessions \in SUBSET SessionIds,
          new \in [CardIds -> UNION {NewCard(c) : c \in CardIds}] :
         /\ \A c \in CardIds : new[c] \in NewCard(c)
         /\ disk = [status |-> [c \in CardIds |-> new[c][1]],
                    health |-> [c \in CardIds |-> new[c][2]],
                    mounted |-> [s \in SessionIds |->
                                   IF s \in sessions THEN None ELSE Gone]]
    /\ owner = FreshPage.owner /\ emu = FreshPage.emu /\ vfs = FreshPage.vfs
    /\ stale = {} /\ current = NoSession /\ mutex = None /\ jobs = <<>>
    /\ op = FreshPage.op /\ dbq = <<>> /\ overlap = "none"
    /\ stuck = {} /\ lost = {} /\ fatal = FALSE

-----------------------------------------------------------------------------
(***************************************************************************)
(* Building blocks.                                                        *)
(***************************************************************************)

\* An operation goes on to its next await: the transaction it has waited for is over, one
\* it needs now is created and waits behind those that were created before.
Continue(o, rec) ==
    LET running == IF rec.pc = "idle" THEN Active \ {o} ELSE Active \cup {o} IN
    /\ op' = [op EXCEPT ![o] = rec]
    /\ dbq' = (IF op[o].pc \in DbSteps THEN Tail(dbq) ELSE dbq)
                \o (IF rec.pc \in DbSteps THEN <<o>> ELSE <<>>)
    /\ overlap' = CASE overlap = "rewrite" -> "rewrite"
                    [] running = {} -> "none"
                    [] Cardinality(running) > 1 ->
                         IF running \cap Rewriters # {} THEN "rewrite" ELSE "ops"
                    [] OTHER -> overlap

Goto(o, pc) == Continue(o, IF pc = "idle" THEN NotRunning ELSE [op[o] EXCEPT !.pc = pc])
Finish(o) == Continue(o, NotRunning)
OnlyMoves == UNCHANGED <<disk, copies, session, fate>>

\* A job that can have the mutex runs before any other event is handled.
Settled == ~fatal /\ (mutex = None => jobs = <<>>)

\* Operation o stands at an await, and what it waits for is there.
At(o, pc) ==
    /\ op[o].pc = pc
    /\ Settled
    /\ pc \in DbSteps => Head(dbq) = o

Records == {c \in CardIds : Exists(c)} \cup {s \in SessionIds : SessionExists(s)}

\* Bound: the operations that may be under way with o; none once a launch or an edit was
\* not alone.
Room(o) ==
    /\ Active \cup {o} \in Overlaps[Records]
    /\ overlap = "rewrite" => Active = {}

\* The user starts operation o for a card and a session while no loader and no
\* dialog is shown. @debounce keeps a second call of the same kind out; insertCard has
\* none, and one insertion at a time is a bound.
Ready == Settled /\ ~Modal
Begin(o, pc, c, s) ==
    /\ Ready
    /\ op[o].pc = "idle" /\ Room(o)
    /\ Continue(o, [NotRunning EXCEPT !.pc = pc, !.card = c, !.ses = s])

\* The page is gone with all it held.
PageLost ==
    /\ owner' = FreshPage.owner /\ emu' = FreshPage.emu /\ vfs' = FreshPage.vfs
    /\ stale' = {} /\ current' = NoSession /\ mutex' = None /\ jobs' = <<>>
    /\ op' = FreshPage.op /\ dbq' = <<>>

\* fatalBug: the app refuses every further access to the database.
Fatal == PageLost /\ fatal' = TRUE /\ UNCHANGED <<overlap, stuck, lost>>
Die == Fatal /\ UNCHANGED disk

\* VfsService.releaseCard: the image is unmounted. A sync that still waits for its
\* transaction holds pages that are no longer there.
ReleaseOk(c) == InVfs(c) => owner[c] = "vfs"
OwnerWithout(c) == IF InVfs(c) THEN [owner EXCEPT ![c] = "none"] ELSE owner
\* Fault: the card in the secondary slot stays where it is.
VfsWithoutPrimary(c) == [vfs EXCEPT !.primary = IF @ = c THEN None ELSE @]

VfsWithout(c) ==
    [vfs EXCEPT !.primary = IF @ = c THEN None ELSE @,
                !.secondary = IF @ = c THEN None ELSE @]
StaleWithout(c) ==
    (stale \ {<<"vfs", c>>})
      \cup {<<w, c>> : w \in {w \in Writers :
                                 InVfs(c) /\ op[w].card = c /\ op[w].pc \in SyncSteps}}
ReleaseCard(c) ==
    owner' = OwnerWithout(c) /\ vfs' = VfsWithout(c) /\ stale' = StaleWithout(c)

\* releaseCard followed by claim.
ClaimOk(c) == ReleaseOk(c) /\ OwnerWithout(c)[c] = "none"
ClaimFor(c, w) == [OwnerWithout(c) EXCEPT ![c] = w]

\* The image of a card is written from the copy of h: all other copies are
\* outdated now, and if that of h was, what had been written since is lost.
CopiesOf(c) ==
    {h \in {"emu"} : c \in emu.images} \cup {h \in {"vfs"} : InVfs(c)}
      \cup {o \in Ops : op[o].res # None /\ op[o].card = c}
Wrote(h, c) ==
    /\ lost' = IF <<h, c>> \in stale THEN lost \cup {c} ELSE lost
    /\ stale' = (stale \ {<<h, c>>}) \cup {<<k, c>> : k \in CopiesOf(c) \ {h}}

\* updateStorageCardPartial with a status. A record that is gone is fatal.
WithStatus(c, status) == [disk EXCEPT !.status[c] = status]

\* onSessionChange, once it has the mutex: the record of the current session is
\* replaced; the card of a deleted session is released.
Releases(s, c) == s = current.id /\ c = Gone /\ current.card # None
Changed(s, c) ==
    IF s # current.id THEN current
    ELSE IF c = Gone THEN NoSession ELSE [id |-> s, card |-> c]

\* updateSessionPartial and updateSession: the record is stored, and the handler of
\* sessionChangeEvent asks for the mutex.
SetMounted(s, c) ==
    /\ disk' = [disk EXCEPT !.mounted[s] = c]
    /\ jobs' = Append(jobs, [op |-> None, id |-> s, card |-> c])

-----------------------------------------------------------------------------
(***************************************************************************)
(* StorageCardService: eject and delete.                                   *)
(***************************************************************************)

\* The context menu: ejectCurrentCard. The menu stays open and its handler is not
\* debounced: a second tap starts the operation again.
StartEject(o) ==
    /\ current.card # None
    /\ o = "eject2" => op["eject"].pc # "idle"
    /\ Ready /\ op[o].pc = "idle" /\ Room(o)
    /\ Continue(o, [NotRunning EXCEPT !.pc = "ejCard", !.out = current.card,
                                      !.ses = current.id])
    /\ OnlyMoves

\* Where an operation goes on once the card is out of its session.
AfterEject(o) ==
    CASE o = "check" -> "fsLoader"
      [] o = "browse" -> "ccMounted"
      [] o = "delete" -> "delCard"
      [] OTHER -> "idle"

\* An exception ends the operation; the page turns those of eject and delete into
\* fatalBug.
Throw(o) ==
    IF o \in Ejects \cup {"delete"} THEN Die ELSE Finish(o) /\ OnlyMoves

\* "Card is attached": eject it now, or leave it. ejectCard looks for the session
\* again.
AnswerAsk(o) ==
    /\ At(o, "ask")
    /\ \/ Finish(o)
       \/ Continue(o, [op[o] EXCEPT !.pc = "ejectGet", !.ses = SessionOf(op[o].card)])
    /\ OnlyMoves

\* ejectCard after getCard: the card of the running session is ejected with
\* ejectCurrentCard, that of another session by updating the records.
EjectGet(o) ==
    /\ At(o, "ejectGet")
    /\ IF op[o].ses = None \/ ~Exists(op[o].card) THEN
           Goto(o, AfterEject(o)) /\ OnlyMoves
       ELSE IF op[o].ses # current.id THEN
           Goto(o, "ejOther") /\ OnlyMoves
       ELSE IF current.card = None THEN Throw(o)
       ELSE /\ Continue(o, [op[o] EXCEPT !.pc = "ejCard", !.out = current.card])
            /\ OnlyMoves

\* The records of a session that is not running and of its card.
EjectOther(o) ==
    \/ /\ At(o, "ejOther")
       /\ IF ~SessionExists(op[o].ses) THEN Die
          ELSE /\ SetMounted(op[o].ses, None)
               /\ Goto(o, "ejOther2")
               /\ UNCHANGED <<copies, current, mutex, fate>>
    \/ /\ At(o, "ejOther2")
       /\ IF ~Exists(op[o].card) THEN Die
          ELSE /\ disk' = WithStatus(op[o].card, "dirty")
               /\ Goto(o, AfterEject(o))
               /\ UNCHANGED <<copies, session, fate>>

\* ejectCurrentCard up to the snapshots it awaits.
EjectPrepare(o) ==
    \/ /\ At(o, "ejCard")
       /\ IF Exists(op[o].out) THEN Goto(o, "ejStatus") /\ OnlyMoves ELSE Throw(o)
    \/ /\ At(o, "ejStatus")
       /\ IF ~Exists(op[o].out) THEN Die
          ELSE /\ disk' = WithStatus(op[o].out, "dirty")
               /\ Goto(o, "ejSnap")
               /\ UNCHANGED <<copies, session, fate>>
    \/ /\ At(o, "ejSnap")
       /\ Goto(o, "ejSession")
       /\ OnlyMoves

\* The rest of ejectCurrentCard: the session forgets the card, the emulator
\* removes it, it is released.
EjectRemove(o) ==
    LET c == op[o].out
        s == op[o].ses
    IN
    /\ At(o, "ejSession")
    /\ IF ~SessionExists(s) THEN Die
       ELSE IF owner[c] # "cloudpilot" THEN Fatal /\ disk' = [disk EXCEPT !.mounted[s] = None]
       ELSE /\ SetMounted(s, None)
            /\ emu' = [images |-> emu.images \ {c},
                       key |-> IF emu.key = c THEN None ELSE emu.key]
            /\ owner' = [owner EXCEPT ![c] = "none"]
            /\ stale' = stale \ {<<"emu", c>>}
            /\ Goto(o, AfterEject(o))
            /\ UNCHANGED <<vfs, current, mutex, fate>>

\* Fault: the card is deleted without being ejected.
DeleteInserted ==
    /\ At("delete", "dlLoader")
    /\ Goto("delete", "delCard")
    /\ ReleaseCard(op["delete"].card)
    /\ UNCHANGED <<disk, emu, session, fate>>

\* deleteCard shows its loader first.
StartDelete(c) ==
    /\ Exists(c)
    /\ Begin("delete", "dlLoader", c, None)
    /\ OnlyMoves

\* The card leaves the VFS, and ejectCard looks for its session.
DeleteRelease ==
    LET c == op["delete"].card IN
    /\ At("delete", "dlLoader")
    /\ IF ~ReleaseOk(c) THEN Die
       ELSE /\ Continue("delete", [op["delete"] EXCEPT !.pc = "ejectGet", !.ses = SessionOf(c)])
            /\ ReleaseCard(c)
            /\ UNCHANGED <<disk, emu, session, fate>>

\* deleteStorageCard, and the clipboard of the VFS forgets the card.
DeleteCard ==
    LET c == op["delete"].card IN
    /\ At("delete", "delCard")
    /\ IF owner[c] # "none" THEN Die
       ELSE /\ disk' = [disk EXCEPT !.status[c] = Gone, !.health[c] = "unknown"]
            /\ vfs' = [vfs EXCEPT !.clip = IF @ = c THEN None ELSE @]
            /\ Finish("delete")
            /\ UNCHANGED <<owner, emu, stale, session, fate>>

-----------------------------------------------------------------------------
(***************************************************************************)
(* StorageCardService: check, insert, browse.                              *)
(***************************************************************************)

\* checkCard: a card in use has to be ejected first.
StartCheck(c) ==
    /\ Exists(c)
    /\ Begin("check", IF MountedIn(c) = {} THEN "fsLoader" ELSE "ask", c, None)
    /\ OnlyMoves

\* The context menu offers the cards that are in no session while the current
\* session has none.
StartInsert(c) ==
    /\ Exists(c) /\ MountedIn(c) = {}
    /\ current.id # None /\ current.card = None
    /\ Begin("insert", "ccMounted", c, None)
    /\ OnlyMoves

\* browseCard of a card that is not open in the VFS.
StartBrowse(c) ==
    /\ Exists(c) /\ owner[c] # "vfs"
    /\ Begin("browse", IF MountedIn(c) = {} THEN "ccMounted" ELSE "ask", c, None)
    /\ OnlyMoves

\* What checkAndClaimCard does with a card in this state.
MountStep(o) == IF o = "insert" THEN "mtMounted" ELSE "vfLoader"
SwitchStatus(o, status) ==
    CASE status = "clean" -> MountStep(o)
      [] status = "unfixable" -> "askRo"
      [] OTHER -> "idle"

\* checkAndClaimCard: a card in use is refused, a dirty one is checked first. A
\* card that is to be inserted leaves the VFS.
ClaimSteps(o) ==
    LET c == op[o].card IN
    CASE op[o].pc = "ccMounted" -> {IF MountedIn(c) = {} THEN "ccCard" ELSE "idle"}
      [] op[o].pc = "ccCard" ->
           {IF ~Exists(c) THEN "idle"
            ELSE IF c \in NoFsck THEN MountStep(o)
            ELSE IF disk.status[c] = "dirty" THEN "fsLoader"
            ELSE SwitchStatus(o, disk.status[c])}
      [] op[o].pc = "ccCard2" -> {IF Exists(c) THEN SwitchStatus(o, disk.status[c]) ELSE "idle"}
      [] OTHER -> {MountStep(o), "idle"}

CheckAndClaim(o) ==
    LET c == op[o].card IN
    /\ \E pc \in {"ccMounted", "ccCard", "ccCard2", "askRo"} : At(o, pc)
    /\ \E pc \in ClaimSteps(o) :
         IF pc # "mtMounted" THEN Goto(o, pc) /\ OnlyMoves
         ELSE IF ~ReleaseOk(c) THEN Die
         ELSE Goto(o, pc) /\ ReleaseCard(c) /\ UNCHANGED <<disk, emu, session, fate>>

\* A loader is shown before a card is checked, repaired and opened in the VFS.
LoaderShown(o) ==
    \/ At(o, "fsLoader") /\ Goto(o, "fsMounted") /\ OnlyMoves
    \/ At(o, "apLoader") /\ Goto(o, "apData") /\ OnlyMoves
    \/ At(o, "vfLoader") /\ Goto(o, "vfGet") /\ OnlyMoves

\* executeFsckAndUpdateCard up to the claim.
FsckClaim(o) ==
    LET c == op[o].card IN
    \/ /\ At(o, "fsMounted")
       /\ Goto(o, IF MountedIn(c) = {} THEN "fsCard" ELSE "idle")
       /\ OnlyMoves
    \/ /\ At(o, "fsCard")
       /\ IF ~Exists(c) THEN Finish(o) /\ OnlyMoves
          ELSE IF ~ClaimOk(c) THEN Die
          ELSE /\ owner' = ClaimFor(c, "fstools")
               /\ vfs' = VfsWithout(c) /\ stale' = StaleWithout(c)
               /\ Goto(o, "fsCtx")
               /\ UNCHANGED <<disk, emu, session, fate>>

\* createFsckContext: the WASM module is instantiated and allocates the image. If
\* that fails the exception leaves the claim behind.
FsckContext(o) ==
    /\ At(o, "fsCtx")
    /\ \/ Goto(o, "fsLoad") /\ UNCHANGED stuck
       \/ Finish(o) /\ stuck' = stuck \cup {op[o].card}
    /\ UNCHANGED <<disk, copies, session, lost, fatal>>

\* loadCardData and fsck, which repairs its copy in place.
FsckLoad(o) ==
    LET c == op[o].card IN
    /\ At(o, "fsLoad")
    /\ IF owner[c] # "fstools" THEN Die
       ELSE /\ \E res \in IF disk.health[c] = "unknown" THEN FsckResult
                          ELSE {disk.health[c]} :
                 /\ Continue(o, [op[o] EXCEPT !.pc = "fsStatus", !.res = res])
                 /\ disk' = [disk EXCEPT !.health[c] = res]
            /\ stale' = stale \ {<<o, c>>}
            /\ UNCHANGED <<owner, emu, vfs, session, fate>>

\* The status that is written for what fsck found.
StatusAfterFsck(res) ==
    CASE res = "ok" -> "clean"
      [] res = "fixed" -> "dirty"
      [] res = "invalid" -> "unformatted"
      [] res = "unfixable" -> "unfixable"

\* The status is written and the card released, unless errors were fixed: then
\* the caller asks whether to apply the result.
FsckStatus(o) ==
    LET c == op[o].card
        fixed == op[o].res = "fixed"
    IN
    /\ At(o, "fsStatus")
    /\ IF ~Exists(c) \/ (~fixed /\ owner[c] # "fstools") THEN Die
       ELSE /\ disk' = WithStatus(c, StatusAfterFsck(op[o].res))
            /\ owner' = IF fixed THEN owner ELSE [owner EXCEPT ![c] = "none"]
            /\ Goto(o, IF fixed THEN "askFix" ELSE IF o = "check" THEN "idle" ELSE "ccCard2")
            /\ UNCHANGED <<emu, vfs, stale, session, fate>>

\* Fault: the card is not released when the user declines.
AnswerFixKept(o) ==
    /\ At(o, "askFix")
    /\ Goto(o, "apLoader") \/ Finish(o)
    /\ OnlyMoves

\* "Do you want to fix them now?" If not, the caller releases the card.
AnswerFix(o) ==
    LET c == op[o].card IN
    /\ At(o, "askFix")
    /\ \/ Goto(o, "apLoader") /\ OnlyMoves
       \/ IF owner[c] # "fstools" THEN Die
          ELSE /\ owner' = [owner EXCEPT ![c] = "none"]
               /\ Finish(o)
               /\ UNCHANGED <<disk, emu, vfs, stale, session, fate>>

\* applyFsckResult: the repaired pages are written. If the transaction fails the
\* exception leaves the claim behind.
ApplyData(o) ==
    LET c == op[o].card IN
    /\ At(o, "apData")
    /\ IF owner[c] # "fstools" THEN Die
       ELSE \/ /\ Exists(c)
               /\ disk' = [disk EXCEPT !.health[c] = "ok"]
               /\ Wrote(o, c)
               /\ Goto(o, "apStatus")
               /\ UNCHANGED <<owner, emu, vfs, session, stuck, fatal>>
            \/ /\ stuck' = stuck \cup {c}
               /\ Finish(o)
               /\ UNCHANGED <<disk, copies, session, lost, fatal>>

\* The card is clean and released.
ApplyStatus(o) ==
    LET c == op[o].card IN
    /\ At(o, "apStatus")
    /\ IF ~Exists(c) \/ owner[c] # "fstools" THEN Die
       ELSE /\ disk' = WithStatus(c, "clean")
            /\ owner' = [owner EXCEPT ![c] = "none"]
            /\ Goto(o, IF o = "check" THEN "idle" ELSE "ccCard2")
            /\ UNCHANGED <<emu, vfs, stale, session, fate>>

-----------------------------------------------------------------------------
(***************************************************************************)
(* Loading a card into the emulator.                                       *)
(***************************************************************************)

\* mountCardInEmulator: a card in use is refused, and a loader is shown. Its
\* exceptions are fatal.
MountCheck ==
    /\ At("insert", "mtMounted")
    /\ IF MountedIn(op["insert"].card) # {} THEN Die
       ELSE Goto("insert", "mtLoader") /\ OnlyMoves

\* mountCardInEmulator goes on up to loadCardInEmulator.
MountRelease ==
    LET c == op["insert"].card IN
    /\ At("insert", "mtLoader")
    /\ IF ~ReleaseOk(c) \/ current.id = None \/ current.card # None
       THEN Die
       ELSE /\ ReleaseCard(c)
            /\ Continue("insert", [op["insert"] EXCEPT !.pc = "ldGet", !.ses = current.id])
            /\ UNCHANGED <<disk, emu, session, fate>>

\* A launch ends; the next job may have the mutex.
EndLaunch(o) == Finish(o) /\ mutex' = None

\* An exception while a card is loaded.
LoadThrows(o) ==
    IF o = "insert" THEN Die
    ELSE EndLaunch(o) /\ UNCHANGED <<disk, copies, current, jobs, fate>>

\* loadCardInEmulator after getCard: the card is taken from the VFS, allocated in
\* the emulator and claimed, in this order. An image that fsck has just loaded
\* is used instead of the one on disk.
LoadClaim(o) ==
    LET c == op[o].card
        checked == op[o].res # None
        outdated == IF checked /\ <<o, c>> \in stale THEN {<<"emu", c>>} ELSE {}
    IN
    /\ At(o, "ldGet")
    /\ IF ~Exists(c) \/ emu.key # None \/ c \in emu.images THEN LoadThrows(o)
       ELSE IF ~ClaimOk(c) THEN Die
       ELSE /\ owner' = ClaimFor(c, "cloudpilot")
            /\ vfs' = VfsWithout(c)
            /\ emu' = [emu EXCEPT !.images = @ \cup {c}]
            /\ stale' = (StaleWithout(c) \ {<<"emu", c>>, <<o, c>>}) \cup outdated
            /\ Goto(o, IF checked THEN "mtStatus" ELSE "ldData")
            /\ UNCHANGED <<disk, session, fate>>

\* loadCardData into the memory of the emulator.
LoadData(o) ==
    LET c == op[o].card IN
    /\ At(o, "ldData")
    /\ IF owner[c] # "cloudpilot" THEN Die
       ELSE /\ stale' = stale \ {<<"emu", c>>}
            /\ Goto(o, IF o = "insert" THEN "mtStatus" ELSE "swOpen")
            /\ UNCHANGED <<disk, owner, emu, vfs, session, fate>>

\* Fault: a card that is inserted stays clean.
MountStatusUnmarked ==
    /\ At("insert", "mtStatus")
    /\ Goto("insert", "mtSession")
    /\ OnlyMoves

\* The card is marked dirty before the session refers to it.
MountStatus ==
    LET c == op["insert"].card IN
    /\ At("insert", "mtStatus")
    /\ IF ~Exists(c) THEN Die
       ELSE /\ disk' = WithStatus(c, "dirty")
            /\ Goto("insert", "mtSession")
            /\ UNCHANGED <<copies, session, fate>>

\* The session refers to the card and the emulator mounts it; if it does not, that
\* is fatal. mountCardEvent: the clipboard of the VFS forgets the card.
MountSession ==
    LET c == op["insert"].card
        s == op["insert"].ses
    IN
    /\ At("insert", "mtSession")
    /\ IF ~SessionExists(s) THEN Die
       ELSE IF c \notin emu.images \/ emu.key # None
       THEN Fatal /\ disk' = [disk EXCEPT !.mounted[s] = c]
       ELSE /\ SetMounted(s, c)
            /\ emu' = [emu EXCEPT !.key = c]
            /\ vfs' = [vfs EXCEPT !.clip = IF @ = c THEN None ELSE @]
            /\ Finish("insert")
            /\ UNCHANGED <<owner, stale, current, mutex, fate>>

\* The machine writes to the mounted card and a snapshot saves what it wrote.
Snapshot ==
    LET c == emu.key IN
    /\ Settled /\ current.id # None /\ c # None
    /\ Exists(c)
    /\ IF owner[c] # "cloudpilot" THEN Die
       ELSE /\ disk' = [disk EXCEPT !.health[c] = "unknown"]
            /\ Wrote("emu", c)
            /\ UNCHANGED <<owner, emu, vfs, session, ops, stuck, fatal>>

-----------------------------------------------------------------------------
(***************************************************************************)
(* EmulationService and the sessions.                                      *)
(***************************************************************************)

\* launchSession, and resetSession of the running session: stop, drop the saved
\* state, launch again.
StartLaunch(o, s) ==
    /\ SessionExists(s)
    /\ o = "reset" => s = current.id
    /\ Begin(o, "queued", None, s)
    /\ jobs' = Append(jobs, [op |-> o, id |-> None, card |-> None])
    /\ UNCHANGED <<disk, copies, current, mutex, fate>>

\* onSessionChange has the mutex.
RunChange ==
    LET j == Head(jobs)
        releases == Releases(j.id, j.card)
    IN
    /\ ~fatal /\ mutex = None /\ jobs # <<>> /\ j.op = None
    /\ IF releases /\ owner[current.card] # "cloudpilot" THEN Die
       ELSE /\ current' = Changed(j.id, j.card)
            /\ owner' = IF releases THEN [owner EXCEPT ![current.card] = "none"] ELSE owner
            /\ jobs' = Tail(jobs)
            /\ UNCHANGED <<disk, emu, vfs, stale, mutex, ops, fate>>

\* switchSession or stop has the mutex. Launching the running session does nothing.
RunLaunch ==
    LET o == Head(jobs).op
        stops == o = "reset" /\ op[o].pc = "queued"
    IN
    /\ ~fatal /\ mutex = None /\ jobs # <<>> /\ o # None
    /\ jobs' = Tail(jobs)
    /\ IF op[o].ses = current.id /\ ~stops
       THEN Finish(o) /\ UNCHANGED mutex
       ELSE /\ mutex' = o
            /\ Goto(o, IF stops THEN "stopOnly"
                       ELSE IF current.id = None THEN "swSession" ELSE "stop")
    /\ UNCHANGED <<disk, copies, current, fate>>

\* Fault: onEmulatorStop is not called.
StopKeeping(o) ==
    /\ At(o, "stop") \/ At(o, "stopOnly")
    /\ current' = NoSession
    /\ IF op[o].pc = "stopOnly"
       THEN Goto(o, "rsState") /\ mutex' = None
       ELSE Goto(o, "swSession") /\ UNCHANGED mutex
    /\ UNCHANGED <<disk, copies, jobs, fate>>

\* stopUnchecked after its snapshots: onEmulatorStop releases the card.
Stop(o) ==
    LET c == current.card
        release == IF c = None THEN owner ELSE [owner EXCEPT ![c] = "none"]
    IN
    /\ At(o, "stop") \/ At(o, "stopOnly")
    /\ IF c # None /\ owner[c] # "cloudpilot" THEN Die
       ELSE /\ owner' = release
            /\ current' = NoSession
            /\ IF op[o].pc = "stopOnly"
               THEN Goto(o, "rsState") /\ mutex' = None
               ELSE Goto(o, "swSession") /\ UNCHANGED mutex
            /\ UNCHANGED <<disk, emu, vfs, stale, jobs, fate>>

\* resetSession drops the saved state and launches the session again.
ResetState ==
    LET s == op["reset"].ses
        launch == [op |-> "reset", id |-> None, card |-> None]
        change == [op |-> None, id |-> s, card |-> disk.mounted[s]]
    IN
    /\ At("reset", "rsState")
    /\ IF ~SessionExists(s) THEN Die
       ELSE /\ Goto("reset", "queued2")
            /\ jobs' = jobs \o <<change, launch>>
            /\ UNCHANGED <<disk, copies, current, mutex, fate>>

\* switchSession reads the record of the session, and restoreSession clears the
\* emulator before it loads the card the record names.
SwitchRead(o) ==
    \/ /\ At(o, "swSession")
       /\ IF SessionExists(op[o].ses)
          THEN /\ Continue(o, [op[o] EXCEPT !.pc = "swLoad", !.card = disk.mounted[op[o].ses]])
               /\ current' = NoSession
               /\ UNCHANGED mutex
          ELSE EndLaunch(o) /\ UNCHANGED current
       /\ UNCHANGED <<disk, copies, jobs, fate>>
    \/ /\ At(o, "swLoad")
       /\ emu' = FreshPage.emu
       /\ stale' = {x \in stale : x[1] # "emu"}
       /\ Goto(o, IF op[o].card = None THEN "swOpen" ELSE "ldGet")
       /\ UNCHANGED <<disk, owner, vfs, session, fate>>

\* openSession. The machine finds its card mounted (or not, if its saved state is
\* older than the insertion: then it does not write to it). If the session cannot
\* be opened the card stays claimed.
SwitchOpen(o) ==
    LET c == op[o].card IN
    /\ At(o, "swOpen")
    /\ \/ /\ current' = [id |-> op[o].ses, card |-> c]
          /\ emu' = [emu EXCEPT !.key = c]
          /\ Goto(o, "swUpdate")
          /\ UNCHANGED <<mutex, stuck>>
       \/ /\ EndLaunch(o)
          /\ stuck' = stuck \cup ({c} \ {None})
          /\ UNCHANGED <<current, emu>>
    /\ UNCHANGED <<disk, owner, vfs, stale, jobs, lost, fatal>>

\* Fault: the handlers of sessionChangeEvent are awaited.
SwitchUpdateAwaited(o) ==
    /\ At(o, "swUpdate")
    /\ SetMounted(op[o].ses, op[o].card)
    /\ Goto(o, "queued2")
    /\ UNCHANGED <<copies, current, mutex, fate>>

\* The record is put back as it was read, with a new time of the last launch. The
\* handler of sessionChangeEvent asks for the mutex the launch still holds; nobody
\* awaits it.
SwitchUpdate(o) ==
    /\ At(o, "swUpdate")
    /\ IF ~SessionExists(op[o].ses) THEN Die
       ELSE /\ SetMounted(op[o].ses, op[o].card)
            /\ EndLaunch(o)
            /\ UNCHANGED <<copies, current, fate>>

\* editSession: the form works on the record as it was when it was opened, and the whole
\* record is stored when it is closed.
StartEdit(s) ==
    /\ SessionExists(s)
    /\ Begin("edit", "edForm", disk.mounted[s], s)
    /\ OnlyMoves

AnswerEdit ==
    /\ At("edit", "edForm")
    /\ Goto("edit", "edSave") \/ Finish("edit")
    /\ OnlyMoves

SaveEdit ==
    /\ At("edit", "edSave")
    /\ IF ~SessionExists(op["edit"].ses) THEN Die
       ELSE /\ SetMounted(op["edit"].ses, op["edit"].card)
            /\ Finish("edit")
            /\ UNCHANGED <<copies, current, mutex, fate>>

\* deleteSession of the sessions page; the card of the running session is released
\* when the event is handled.
StartDeleteSession(s) ==
    /\ SessionExists(s)
    /\ Begin("delSession", "dsDelete", None, s)
    /\ OnlyMoves

DeleteSession ==
    LET s == op["delSession"].ses IN
    /\ At("delSession", "dsDelete")
    /\ SetMounted(s, Gone)
    /\ Finish("delSession")
    /\ UNCHANGED <<copies, current, mutex, fate>>

-----------------------------------------------------------------------------
(***************************************************************************)
(* VfsService.                                                             *)
(***************************************************************************)

\* mountCardUnchecked after getCard: the card is claimed, and the card in the
\* primary slot makes room. If the clipboard refers to it, it becomes the
\* secondary card, in place of the one there.
Swapped == [vfs EXCEPT !.primary = vfs.secondary, !.secondary = vfs.primary]
BrowseClaim ==
    LET c == op["browse"].card
        room == IF vfs.primary # None /\ vfs.primary = vfs.clip THEN Swapped ELSE vfs
        out == room.primary
        claimed == [d \in CardIds |->
                      IF d = c THEN "vfs" ELSE IF d = out THEN "none" ELSE owner[d]]
        rest == IF out = None THEN stale ELSE StaleWithout(out)
        outdated == IF <<"browse", c>> \in stale THEN {<<"vfs", c>>} ELSE {}
    IN
    /\ At("browse", "vfGet")
    /\ IF ~Exists(c) \/ InVfs(c) \/ owner[c] # "none" \/ (out # None /\ owner[out] # "vfs")
       THEN Die
       ELSE /\ IF op["browse"].res = None
               THEN /\ owner' = claimed /\ vfs' = [room EXCEPT !.primary = None]
                    /\ stale' = rest
                    /\ Goto("browse", "vfLoad")
               ELSE \E mounted \in BOOLEAN :
                      /\ owner' = IF mounted THEN claimed ELSE [claimed EXCEPT ![c] = "none"]
                      /\ vfs' = [room EXCEPT !.primary = IF mounted THEN c ELSE None]
                      /\ stale' = (IF mounted THEN rest \cup outdated ELSE rest) \ {<<"browse", c>>}
                      /\ Finish("browse")
            /\ UNCHANGED <<disk, emu, session, fate>>

\* loadCardData and mountImage, which may fail.
BrowseLoad ==
    LET c == op["browse"].card IN
    /\ At("browse", "vfLoad")
    /\ IF owner[c] # "vfs" THEN Die
       ELSE /\ \/ vfs' = [vfs EXCEPT !.primary = c] /\ UNCHANGED owner
               \/ owner' = [owner EXCEPT ![c] = "none"] /\ UNCHANGED vfs
            /\ stale' = stale \ {<<"vfs", c>>}
            /\ Finish("browse")
            /\ UNCHANGED <<disk, emu, session, fate>>

\* browseCard of a card that is open in the VFS.
ActivateCard(c) ==
    /\ Ready /\ Exists(c) /\ owner[c] = "vfs" /\ vfs.secondary = c
    /\ vfs' = Swapped
    /\ UNCHANGED <<disk, owner, emu, stale, session, ops, fate>>

CopyToClipboard ==
    /\ Ready /\ vfs.primary # None
    /\ vfs' = [vfs EXCEPT !.clip = vfs.primary]
    /\ UNCHANGED <<disk, owner, emu, stale, session, ops, fate>>

\* unlinkEntry, mkdir, updateFileEntry and the like change the image in the primary
\* slot and go on to sync; or FatFs fails and fatalError follows. This holds for a card
\* with uncorrectable errors too: mountCardUnchecked does not pass readonly on.
StartFile ==
    /\ vfs.primary # None
    /\ \E pc \in {"fiSync", "fiError"} : Begin("file", pc, vfs.primary, None)
    /\ OnlyMoves

\* Fault: the owner is not asserted once the transaction is there.
SyncSlotUnasserted(o, next) ==
    LET c == op[o].card IN
    /\ IF <<o, c>> \in stale
       THEN lost' = lost \cup {c} /\ stale' = stale \ {<<o, c>>}
       ELSE Wrote("vfs", c)
    /\ Continue(o, next)
    /\ UNCHANGED <<disk, owner, emu, vfs, session, stuck, fatal>>

\* updateCardData with the dirty pages of a slot. The pages of a slot that was
\* unmounted in the meantime are no longer there.
SyncSlot(o, next) ==
    LET c == op[o].card IN
    IF owner[c] # "vfs" THEN Die
    ELSE /\ IF <<o, c>> \in stale
            THEN lost' = lost \cup {c} /\ stale' = stale \ {<<o, c>>}
            ELSE Wrote("vfs", c)
         /\ Continue(o, next)
         /\ vfs' \in IF o = "paste" /\ next = NotRunning
                     THEN {vfs, [vfs EXCEPT !.clip = None]} ELSE {vfs}
         /\ disk' = [disk EXCEPT !.health[c] = IF @ = "ok" THEN "ok" ELSE "unknown"]
         /\ UNCHANGED <<owner, emu, session, stuck, fatal>>

FileSync == At("file", "fiSync") /\ SyncSlot("file", NotRunning)

\* fatalError: the card is marked dirty and leaves the VFS.
FileError(o) ==
    LET c == op[o].card
        p == vfs.primary
    IN
    /\ At(o, "fiError")
    /\ IF ~Exists(c) \/ (p # None /\ ~ReleaseOk(p)) THEN Die
       ELSE /\ disk' = WithStatus(c, "dirty")
            /\ owner' = IF p = None THEN owner ELSE OwnerWithout(p)
            /\ vfs' = IF p = None THEN vfs ELSE VfsWithout(p)
            /\ stale' = IF p = None THEN stale ELSE StaleWithout(p)
            /\ Finish(o)
            /\ UNCHANGED <<emu, session, fate>>

\* paste: mountClipboard needs the card of the clipboard in the other slot.
PasteResults == {"paSync", "fiError"}
StartPaste ==
    LET c == vfs.clip
        out == vfs.secondary
    IN
    /\ c # None /\ vfs.primary # None
    /\ disk.status[c] = "clean" \/ (disk.status[c] = "dirty" /\ c \in NoFsck)
    /\ IF InVfs(c)
       THEN /\ \E pc \in PasteResults : Begin("paste", pc, vfs.primary, None)
            /\ OnlyMoves
       ELSE IF owner[c] # "none" \/ (out # None /\ owner[out] # "vfs")
       THEN Ready /\ Room("paste") /\ Die
       ELSE /\ Begin("paste", "paLoad", c, None)
            /\ owner' = [d \in CardIds |->
                           IF d = c THEN "vfs" ELSE IF d = out THEN "none" ELSE owner[d]]
            /\ vfs' = [vfs EXCEPT !.secondary = None]
            /\ stale' = IF out = None THEN stale ELSE StaleWithout(out)
            /\ UNCHANGED <<disk, emu, session, fate>>

PasteLoad ==
    LET c == op["paste"].card IN
    /\ At("paste", "paLoad")
    /\ IF owner[c] # "vfs" THEN Die
       ELSE /\ \/ /\ vfs' = [vfs EXCEPT !.secondary = c]
                  /\ \E pc \in PasteResults :
                       Continue("paste",
                                IF vfs.primary = None THEN NotRunning
                                ELSE [op["paste"] EXCEPT !.pc = pc, !.card = vfs.primary])
                  /\ UNCHANGED owner
               \/ /\ owner' = [owner EXCEPT ![c] = "none"]
                  /\ Finish("paste")
                  /\ UNCHANGED vfs
            /\ stale' = stale \ {<<"vfs", c>>}
            /\ UNCHANGED <<disk, emu, session, fate>>

\* Both slots are synced, the destination first; what was cut leaves the clipboard.
PasteSync ==
    \/ /\ At("paste", "paSync")
       /\ IF vfs.secondary # None /\ vfs.secondary = vfs.clip
          THEN SyncSlot("paste", [op["paste"] EXCEPT !.pc = "paSource", !.card = vfs.secondary])
          ELSE SyncSlot("paste", NotRunning)
    \/ At("paste", "paSource") /\ SyncSlot("paste", NotRunning)

-----------------------------------------------------------------------------
\* Sessions that refer to a card that is gone, or to that of another session.
Dangling ==
    {s \in SessionIds :
        \E c \in CardIds : disk.mounted[s] = c /\ (~Exists(c) \/ MountedIn(c) # {s})}

\* The page is reloaded, or the browser crashed: only the database is left.
Reload ==
    /\ PageLost
    /\ overlap' = IF overlap = "rewrite" THEN "rewrite" ELSE "none"
    /\ stuck' = {} /\ fatal' = FALSE
    /\ UNCHANGED <<disk, lost>>

Ejectors == Ejects \cup {"browse", "check", "delete"}
Checkers == {"insert", "browse", "check"}

User ==
    \/ \E o \in Ejects : StartEject(o)
    \/ \E c \in CardIds : \/ StartDelete(c) \/ StartCheck(c) \/ StartInsert(c)
                           \/ StartBrowse(c) \/ ActivateCard(c)
    \/ \E s \in SessionIds : \/ \E o \in Launches : StartLaunch(o, s)
                             \/ StartEdit(s) \/ StartDeleteSession(s)
    \/ CopyToClipboard \/ StartFile \/ StartPaste

Progress ==
    \/ \E o \in Ejectors : \/ AnswerAsk(o) \/ EjectGet(o) \/ EjectOther(o)
                            \/ EjectPrepare(o) \/ EjectRemove(o)
    \/ DeleteRelease \/ DeleteCard
    \/ \E o \in Checkers : \/ CheckAndClaim(o) \/ LoaderShown(o) \/ FsckClaim(o) \/ FsckContext(o)
                            \/ FsckLoad(o) \/ FsckStatus(o) \/ AnswerFix(o)
                            \/ ApplyData(o) \/ ApplyStatus(o)
    \/ MountCheck \/ MountRelease \/ MountStatus \/ MountSession
    \/ \E o \in Launches \cup {"insert"} : LoadClaim(o) \/ LoadData(o)
    \/ RunChange \/ RunLaunch \/ ResetState \/ AnswerEdit \/ SaveEdit \/ DeleteSession
    \/ \E o \in Launches : \/ Stop(o) \/ SwitchRead(o) \/ SwitchOpen(o) \/ SwitchUpdate(o)
    \/ BrowseClaim \/ BrowseLoad \/ FileSync \/ PasteLoad \/ PasteSync
    \/ \E o \in Writers : FileError(o)

Next == User \/ Progress \/ Snapshot \/ Reload

Spec == Init /\ [][Next]_vars

-----------------------------------------------------------------------------
(***************************************************************************)
(* Properties.                                                             *)
(***************************************************************************)

\* The copy that whoever owns the card can write to it is outdated.
Endangered(c) ==
    CASE owner[c] = "cloudpilot" -> <<"emu", c>> \in stale
      [] owner[c] = "vfs" -> \E h \in Writers \cup {"vfs"} : <<h, c>> \in stale
      [] owner[c] = "fstools" ->
           \E o \in Checkers : op[o].card = c /\ op[o].pc = "apData" /\ <<o, c>> \in stale
      [] OTHER -> FALSE

\* An insertion or a browse mounts the copy fsck had loaded for it, and that copy is outdated.
HandsOver(c) ==
    \E o \in {"insert", "browse"} :
        /\ op[o].card = c /\ op[o].res # None /\ <<o, c>> \in stale
        /\ op[o].pc \in {"ldGet", "vfGet"} /\ op'[o].pc # op[o].pc

\* What is written to a card image comes from the copy of the card's owner, and no step of
\* another operation makes that copy older than the image: updateCardData, saveDirtyStorage
\* and loadCardData assert the owner once they have their transaction. There is one
\* exception. checkAndClaimCard keeps the image fsck has loaded after the card was released,
\* and mounts it without a look at the disk; what another operation has written in between
\* (a sync from the VFS while the loader of an insertion comes up) is lost with the next write.
LostOnlyByHandOver ==
    [][\A c \in CardIds :
         /\ c \in lost' \ lost => Endangered(c)
         /\ Endangered(c)' => Endangered(c) \/ HandsOver(c)]_vars

\* No write to a card image was made from a copy that is older than what is on disk. This
\* holds as long as operations do not overlap.
NoLostUpdate == lost = {}

\* A card that counts as clean and is checked automatically has an intact file
\* system on disk: whoever writes to it without checking marks it dirty first. Not so
\* once a launch or an edit has overlapped another operation: switchSession and
\* editSession put back the record they read before, and with it a card that was
\* ejected and checked in the meantime.
CleanIsSound ==
    overlap = "rewrite"
      \/ \A c \in CardIds \ NoFsck : disk.status[c] = "clean" => disk.health[c] = "ok"

\* With two operations under way, the sessions on disk refer to cards that exist, and no
\* two to the same one, unless a launch or an edit overlapped another operation (the same
\* record that is put back). Three can do more: the second of two ejects releases a card
\* that has been inserted again since, and a deletion then finds it free.
MountedOnce == overlap = "rewrite" \/ Dangling = {}

\* When nothing is under way, each card is owned by what holds its image, unless an
\* operation that had claimed it broke off, or a launch or an edit overlapped another
\* operation.
Holder(c) ==
    IF InVfs(c) THEN "vfs" ELSE IF current.card = c THEN "cloudpilot" ELSE "none"
OwnershipSettled ==
    Settled /\ overlap # "rewrite" /\ Active = {} =>
        \A c \in CardIds \ stuck : owner[c] = Holder(c)

\* Operations never wait for each other in a circle: while one is under way, a
\* transaction is due, or one waits for something outside (a snapshot, WASM, the user),
\* or the emulation mutex can be handed on. An operation that waits for the mutex thus
\* never waits for itself, although switchSession fires the event whose handler asks
\* for the mutex.
NobodyWaitsForEver ==
    ~fatal /\ Active # {} =>
        \/ dbq # <<>>
        \/ \E o \in Active : op[o].pc \in FreeSteps \ {"queued", "queued2"}
        \/ mutex = None /\ jobs # <<>>

\* The assertions of StorageCardContext, and those for records that are gone, fail
\* only if operations overlapped or one broke off after it had claimed a card.
FatalOnlyByOverlap == fatal => overlap # "none" \/ stuck # {}

=============================================================================
