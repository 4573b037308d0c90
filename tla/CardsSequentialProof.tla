------------------------ MODULE CardsSequentialProof ------------------------
(***************************************************************************)
(* Theorems about the behaviours of Cards in which operations never        *)
(* overlap, for any number of cards and sessions: what the services keep   *)
(* true as long as the user lets one operation end before the next starts. *)
(* The machine runs, takes snapshots and may break off or be reloaded all  *)
(* the while, and a launch still waits for the mutex.                      *)
(***************************************************************************)
EXTENDS CardsProof, FiniteSetTheorems

-----------------------------------------------------------------------------
(***************************************************************************)
(* Operations that follow each other.                                      *)
(***************************************************************************)

\* The record of the current session, and the card it holds, once the change of a session
\* that has the mutex next is handled. The card of a deleted session is released then.
Pending == jobs # <<>> /\ Head(jobs).op = None
Cur == IF Pending THEN Changed(Head(jobs).id, Head(jobs).card) ELSE current
Held == IF Pending /\ Releases(Head(jobs).id, Head(jobs).card) THEN current.card ELSE Cur.card

\* At most one change waits for the mutex, and behind it at most the second half of a
\* reset. Nobody has the mutex then.
OneJob ==
    jobs # <<>> =>
      /\ mutex = None
      /\ \E j \in JobRecord :
           \/ jobs = <<j>>
           \/ j.op = None /\ \E k \in JobRecord : k.op # None /\ jobs = <<j, k>>

\* A card on disk is in one session at most, exists and does not count as clean then. One
\* that counts as clean is.
Unmounted(c) == \A s \in SessionIds : disk.mounted[s] # c
RecordsOK ==
    \A c \in CardIds :
      /\ ~Unmounted(c) => Exists(c) /\ disk.status[c] # "clean"
      /\ \A s, t \in SessionIds : disk.mounted[s] = c /\ disk.mounted[t] = c => s = t
      /\ c \notin NoFsck /\ disk.status[c] = "clean" => disk.health[c] = "ok"

\* The current session is as its record on disk, and what the VFS has, or is to paste from,
\* is in no session.
SessionOK ==
    /\ Cur.id = None => Cur.card = None
    /\ Cur.id # None => Cur.card = disk.mounted[Cur.id]
SlotsFree == \A c \in CardIds : InVfs(c) \/ vfs.clip = c => Unmounted(c)

\* Operation o loads card c into the emulator.
Loads(o, c) ==
    /\ op[o].card = c
    /\ \/ o = "insert" /\ op[o].pc \in {"ldData", "mtStatus", "mtSession"}
       \/ o \in Launches /\ op[o].pc \in {"ldData", "swOpen"}

\* Nothing but operation o is under way.
Alone(o) == \A p \in Ops \ {o} : op[p].pc = "idle" /\ op[p].res = None

\* The emulator has the card of the running session and the one that is being loaded.
EmulatorOK(o) ==
    Cur.id # None =>
      /\ emu.key = Cur.card
      /\ \A c \in CardIds : c \in emu.images <=> c = Cur.card \/ Loads(o, c)

\* Only what a stopped session has left in the emulator is outdated.
LoadSteps == {"ldGet", "ldData", "swOpen"}
CopiesOK(o) ==
    /\ \A x \in stale : x[1] = "emu"
    /\ Cur.id # None \/ (o \in Launches /\ op[o].pc \in LoadSteps) => stale = {}

\* Who owns a card for the emulator. A card that an operation has left claimed stays so.
OwnersOK(o) ==
    ~fatal => \A c \in CardIds :
      /\ owner[c] = "cloudpilot" => c \in stuck \/ Held = c \/ Loads(o, c)
      /\ Held = c \/ Loads(o, c) => owner[c] = "cloudpilot" /\ c \notin stuck
      /\ c \in stuck => owner[c] \in {"cloudpilot", "fstools"} /\ ~Checks(o, c)

\* What operation o knows at its step.
EjectFrom == {"ejCard", "ejStatus", "ejSnap", "ejSession"}
Attached == {"idle", "ask", "dlLoader", "ejectGet", "ejOther"} \cup EjectFrom
CardKnown(o) ==
    LET r == op[o] IN
    /\ r.pc # "idle" => Exists(r.card)
    /\ r.pc \notin Attached => Unmounted(r.card)
    /\ o \in {"browse", "delete"} /\ r.pc \notin {"idle", "dlLoader"} => ~InVfs(r.card)
    /\ r.pc = "ejectGet" => \/ r.ses = None /\ Unmounted(r.card)
                            \/ r.ses # None /\ disk.mounted[r.ses] = r.card
    /\ r.pc = "ejOther" => r.ses # None /\ disk.mounted[r.ses] = r.card /\ r.ses # Cur.id
    /\ r.pc \in EjectFrom => r.out = r.card
    /\ r.pc = "fsStatus" => disk.health[r.card] = r.res
    /\ r.pc = "apStatus" => disk.health[r.card] = "ok"
    /\ r.pc = "mtSession" => disk.status[r.card] # "clean"
    /\ o = "insert" /\ r.pc # "idle" => Cur.id # None /\ Cur.card = None
    /\ r.pc \in {"ldGet", "ldData", "mtStatus", "mtSession"} => r.ses = Cur.id
LaunchKnown(o) ==
    LET r == op[o] IN
    /\ r.pc # "idle" => SessionExists(r.ses)
    /\ r.pc \in {"rsState", "queued2", "swSession", "swLoad"} \cup LoadSteps => Cur.id = None
    /\ r.pc \in {"swLoad", "swUpdate"} \cup LoadSteps => r.card = disk.mounted[r.ses]
    /\ r.pc = "ldGet" => emu.images = {}
    /\ r.pc \in {"ldData", "swOpen"} => emu.images = {r.card} \ {None}
    /\ r.pc = "swUpdate" => Cur.id = r.ses
StepKnown(o) ==
    LET r == op[o] IN
    /\ r.pc \in Attached \/ o \notin Checkers => r.res = None
    /\ o \in Ejects => r.pc \in EjectFrom \cup {"idle"}
    /\ r.pc \in EjectFrom => r.out \in CardIds /\ r.ses \in SessionIds /\ r.ses = Cur.id /\ r.out = Cur.card
    /\ o \in {"insert", "browse", "check", "delete"} => CardKnown(o)
    /\ o \in Launches => LaunchKnown(o)
    /\ o \in Writers /\ r.pc \notin {"idle", "paLoad"} => InVfs(r.card)
    /\ o = "paste" /\ r.pc = "paLoad" => Unmounted(r.card)
    /\ o \in {"edit", "delSession"} /\ r.pc # "idle" => r.ses \in SessionIds
    /\ o = "edit" /\ r.pc # "idle" => SessionExists(r.ses) /\ r.card = disk.mounted[r.ses]

OneAtATime(o) == Alone(o) /\ EmulatorOK(o) /\ CopiesOK(o) /\ OwnersOK(o) /\ StepKnown(o)

Sequential ==
    /\ OneJob /\ RecordsOK /\ SessionOK /\ SlotsFree /\ lost = {}
    /\ fatal => stuck # {}
    /\ \E o \in Ops : OneAtATime(o)

\* Operations do not overlap in this step.
NoOverlap == overlap = "none" /\ overlap' = "none"

-----------------------------------------------------------------------------
(***************************************************************************)
(* One operation at a time: what all steps share.                          *)
(***************************************************************************)

Workers == {"insert", "browse", "check", "delete"}

LEMMA Kinds ==
    /\ Workers \subseteq Ops \ Launches /\ Ejectors = Ejects \cup {"browse", "check", "delete"}
    /\ Workers \cap Writers = {} /\ Ejects \cap (Workers \cup Writers \cup Launches \cup {"edit"}) = {}
    /\ Ejects \subseteq Ops
    /\ Checkers \subseteq Workers /\ "delete" \notin Checkers
    /\ Launches = {"launch", "reset"} /\ Writers = {"file", "paste"}
    /\ "edit" \notin Workers \cup Launches \cup Writers \cup Checkers
    /\ "delSession" \notin Workers \cup Launches \cup Writers \cup Checkers
    /\ Writers \cap (Checkers \cup Launches) = {}
    /\ Launches \cap Checkers = {}
  BY DEF Workers, Ops, Launches, Ejectors, Ejects, Writers, Checkers, Rewriters

LEMMA Nothing == None \notin CardIds /\ None \notin SessionIds /\ Gone \notin CardIds /\ Gone # None
  BY CardsAssumption

\* While an operation stands at a step, no job waits.
LEMMA NothingWaits ==
    ASSUME OneJob, Settled
    PROVE  jobs = <<>> /\ Cur = current /\ Held = current.card /\ ~fatal
  <1>1. jobs = <<>> /\ ~fatal
    BY DEF OneJob, Settled
  <1> QED
    BY <1>1 DEF Cur, Held, Pending

\* With one operation under way, it is the one that everything is known of.
LEMMA Acting ==
    ASSUME Sequential, NEW o \in Ops, op[o].pc # "idle"
    PROVE  OneAtATime(o)
  <1>1. PICK p \in Ops : OneAtATime(p)
    BY DEF Sequential
  <1>2. p = o
    BY <1>1 DEF OneAtATime, Alone
  <1> QED
    BY <1>1, <1>2

\* With none under way, it is any.
LEMMA Resting ==
    ASSUME Sequential, \A p \in Ops : op[p].pc = "idle", NEW o \in Ops
    PROVE  OneAtATime(o)
  <1>1. PICK p \in Ops : OneAtATime(p)
    BY DEF Sequential
  <1>2. op[p].res = None /\ op[o].pc = "idle"
    BY <1>1 DEF OneAtATime, StepKnown, Attached
  <1>3. Alone(o) /\ op[o].res = None
    BY <1>1, <1>2 DEF OneAtATime, Alone
  <1>4. \A c \in CardIds : ~Loads(p, c) /\ ~Loads(o, c)
    BY <1>2 DEF Loads
  <1>5. EmulatorOK(o)
    BY <1>1, <1>4 DEF OneAtATime, EmulatorOK
  <1>6. CopiesOK(o)
    BY <1>1, <1>2 DEF OneAtATime, CopiesOK, LoadSteps
  <1>7. \A c \in CardIds : ~Checks(o, c)
    BY <1>2 DEF Checks, FsckSteps
  <1>8. OwnersOK(o)
    BY <1>1, <1>4, <1>7 DEF OneAtATime, OwnersOK
  <1>9. StepKnown(o)
    BY <1>2, <1>3 DEF StepKnown, CardKnown, LaunchKnown, LoadSteps, EjectFrom, Attached
  <1> QED
    BY <1>3, <1>5, <1>6, <1>8, <1>9 DEF OneAtATime

\* The operation that goes on is alone before and after.
LEMMA GoesOn ==
    ASSUME IInv, Sequential, NoOverlap, NEW o \in Ops, NEW rec,
           Continue(o, rec), op[o].pc # "idle" \/ rec.pc # "idle"
    PROVE  /\ OneAtATime(o) /\ Alone(o)'
           /\ op'[o] = rec /\ \A p \in Ops \ {o} : op'[p] = op[p]
  <1>1. op' = [op EXCEPT ![o] = rec] /\ op \in [Ops -> OpRecord]
    BY DEF Continue, IInv, Running, OpsOK
  <1>2. OneAtATime(o)
    <2>1. CASE op[o].pc # "idle"
      BY <2>1, Acting
    <2>2. CASE op[o].pc = "idle"
      <3>1. PICK p \in Ops : OneAtATime(p)
        BY DEF Sequential
      <3>2. CASE op[p].pc = "idle"
        <4>1. \A q \in Ops : op[q].pc = "idle"
          BY <3>1, <3>2 DEF OneAtATime, Alone
        <4> QED
          BY <4>1, Resting
      <3>3. CASE op[p].pc # "idle"
        <4>1. Active = {p} /\ p # o
          BY <2>2, <3>1, <3>3 DEF OneAtATime, Alone, Active
        <4>2. Cardinality({p} \cup {o}) = 2
          <5>1. IsFiniteSet({p}) /\ Cardinality({p}) = 1
            BY FS_Singleton
          <5>2. Cardinality({p} \cup {o}) = Cardinality({p}) + 1
            BY <4>1, <5>1, FS_AddElement
          <5> QED
            BY <5>1, <5>2
        <4>3. Active \cup {o} = {p} \cup {o} /\ Active \cup {o} # {}
          BY <4>1
        <4>4. Cardinality(Active \cup {o}) > 1
          <5>1. Cardinality(Active \cup {o}) = 2
            BY <4>2, <4>3, Zenon
          <5> QED
            BY <5>1
        <4>5. overlap' \in {"ops", "rewrite"}
          BY <2>2, <4>3, <4>4 DEF Continue
        <4> QED
          BY <4>5 DEF NoOverlap
      <3> QED
        BY <3>2, <3>3
    <2> QED
      BY <2>1, <2>2
  <1>3. op'[o] = rec /\ \A p \in Ops \ {o} : op'[p] = op[p]
    BY <1>1
  <1>4. Alone(o)'
    BY <1>2, <1>3 DEF OneAtATime, Alone
  <1> QED
    BY <1>2, <1>3, <1>4

\* A page that holds nothing, after an operation that broke off or without one.
LEMMA FreshAlone ==
    ASSUME Fresh, RecordsOK, lost = {}, fatal => stuck # {}, ~fatal => stuck = {}
    PROVE  Sequential
  <1>1. /\ \A o \in Ops : op[o] = NotRunning /\ op[o].pc = "idle" /\ op[o].res = None
        /\ jobs = <<>> /\ current.id = None /\ current.card = None /\ stale = {} /\ emu.images = {}
    BY DEF Fresh, FreshPage, NotRunning, NoSession
  <1>2. Cur = current /\ Held = None
    BY <1>1 DEF Cur, Held, Pending
  <1>3. OneJob /\ SessionOK
    BY <1>1, <1>2 DEF OneJob, SessionOK
  <1>4. SlotsFree
    BY Nothing DEF SlotsFree, Fresh, FreshPage, InVfs
  <1>5. "edit" \in Ops
    BY Names
  <1>6. Alone("edit") /\ CopiesOK("edit") /\ EmulatorOK("edit")
    BY <1>1, <1>2, <1>5, Kinds DEF Alone, CopiesOK, EmulatorOK
  <1>7. \A c \in CardIds : ~Loads("edit", c) /\ owner[c] = "none"
    BY <1>1, <1>5 DEF Loads, Fresh, FreshPage
  <1>8. OwnersOK("edit")
    BY <1>2, <1>7, Nothing DEF OwnersOK
  <1>9. StepKnown("edit")
    BY <1>1, <1>5, Kinds DEF StepKnown, Workers, EjectFrom, Attached
  <1> QED
    BY <1>3, <1>4, <1>5, <1>6, <1>8, <1>9 DEF Sequential, OneAtATime

\* fatalBug after an operation has left a card claimed, and a reload.
LEMMA DieAlone ==
    ASSUME IInv, Sequential, Die, stuck # {} PROVE Sequential'
  <1>1. Fresh'
    BY DEF Die, Fatal, PageLost, Fresh, IInv, Running, Data
  <1>2. RecordsOK' /\ (lost = {})' /\ (fatal => stuck # {})' /\ (~fatal => stuck = {})'
    BY DEF Die, Fatal, Sequential, RecordsOK, Unmounted, Exists
  <1> QED
    BY <1>1, <1>2, FreshAlone, PTL

LEMMA ReloadAlone ==
    ASSUME IInv, Sequential, Reload PROVE Sequential'
  <1>1. Fresh'
    BY DEF Reload, PageLost, Fresh, IInv, Running, Data
  <1>2. RecordsOK' /\ (lost = {})' /\ (fatal => stuck # {})' /\ (~fatal => stuck = {})'
    BY DEF Reload, Sequential, RecordsOK, Unmounted, Exists
  <1> QED
    BY <1>1, <1>2, FreshAlone, PTL

LEMMA InitAlone == Init => Sequential
  <1> SUFFICES ASSUME Init PROVE Sequential
    OBVIOUS
  <1>1. Fresh
    BY IInvInit DEF Init, Fresh, IInv, Data
  <1>2. RecordsOK
    <2>1. PICK sessions \in SUBSET SessionIds,
               new \in [CardIds -> UNION {NewCard(c) : c \in CardIds}] :
            /\ \A c \in CardIds : new[c] \in NewCard(c)
            /\ disk = [status |-> [c \in CardIds |-> new[c][1]],
                       health |-> [c \in CardIds |-> new[c][2]],
                       mounted |-> [s \in SessionIds |->
                                      IF s \in sessions THEN None ELSE Gone]]
      BY DEF Init
    <2>2. \A s \in SessionIds : disk.mounted[s] \in {None, Gone}
      BY <2>1
    <2>3. ASSUME NEW c \in CardIds \ NoFsck, NEW x \in NewCard(c), x[1] = "clean"
          PROVE  x[2] = "ok"
      BY <2>3, CardsAssumption DEF NewCard
    <2>4. \A c \in CardIds \ NoFsck : disk.status[c] = "clean" => disk.health[c] = "ok"
      BY <2>1, <2>3
    <2> QED
      BY <2>2, <2>4, Nothing DEF RecordsOK, Unmounted
  <1> QED
    BY <1>1, <1>2, FreshAlone DEF Init

\* A step that leaves the sessions alone.
LEMMA PlainAlone ==
    ASSUME IInv, Sequential, NoOverlap, Settled, NEW o \in Ops, NEW rec,
           Continue(o, rec), op[o].pc # "idle" \/ rec.pc # "idle",
           UNCHANGED <<jobs, current, fatal>>, disk'.mounted = disk.mounted,
           RecordsOK', SlotsFree', lost' = {},
           EmulatorOK(o)', CopiesOK(o)', OwnersOK(o)', StepKnown(o)'
    PROVE  Sequential'
  <1>1. jobs = <<>> /\ Cur = current /\ Held = current.card /\ ~fatal
    BY NothingWaits DEF Sequential
  <1>2. OneJob' /\ Cur' = Cur /\ Held' = Held
    BY <1>1 DEF OneJob, Cur, Held, Pending
  <1>3. SessionOK'
    BY <1>2 DEF SessionOK, Sequential
  <1>4. Alone(o)'
    BY GoesOn
  <1> QED
    BY <1>1, <1>2, <1>3, <1>4 DEF Sequential, OneAtATime

\* What an operation loads and checks before and after it goes on.
SameUse(o) ==
    \A c \in CardIds : (Loads(o, c)' <=> Loads(o, c)) /\ (Checks(o, c)' => Checks(o, c))

\* A step that leaves the sessions, the owners and the copies alone.
LEMMA StayAlone ==
    ASSUME IInv, Sequential, NoOverlap, Settled, NEW o \in Ops, NEW rec,
           Continue(o, rec), op[o].pc # "idle" \/ rec.pc # "idle",
           UNCHANGED <<copies, session, fate>>, disk'.mounted = disk.mounted, RecordsOK',
           SameUse(o), o \in Launches /\ rec.pc \in LoadSteps => stale = {}, StepKnown(o)'
    PROVE  Sequential'
  <1>1. jobs = <<>> /\ Cur = current /\ Held = current.card /\ ~fatal
    BY NothingWaits DEF Sequential
  <1>2. /\ jobs' = jobs /\ current' = current /\ fatal' = fatal /\ owner' = owner /\ emu' = emu
        /\ vfs' = vfs /\ stale' = stale /\ lost' = lost /\ stuck' = stuck
    BY DEF copies, session, fate
  <1>3. Cur' = Cur /\ Held' = Held
    BY <1>1, <1>2 DEF Cur, Held, Pending
  <1>4. OneAtATime(o) /\ op'[o] = rec
    BY GoesOn
  <1>5. SlotsFree' /\ lost' = {}
    BY <1>2 DEF Sequential, SlotsFree, InVfs, Unmounted
  <1>6. EmulatorOK(o)'
    BY <1>2, <1>3, <1>4 DEF OneAtATime, EmulatorOK, SameUse
  <1>7. CopiesOK(o)'
    BY <1>2, <1>3, <1>4 DEF OneAtATime, CopiesOK
  <1>8. OwnersOK(o)'
    BY <1>2, <1>3, <1>4 DEF OneAtATime, OwnersOK, SameUse
  <1> QED
    BY <1>2, <1>5, <1>6, <1>7, <1>8, PlainAlone

\* A step that only moves an operation.
LEMMA MoveAlone ==
    ASSUME IInv, Sequential, NoOverlap, Settled, NEW o \in Ops, NEW rec,
           Continue(o, rec), op[o].pc # "idle" \/ rec.pc # "idle", OnlyMoves,
           SameUse(o), o \in Launches /\ rec.pc \in LoadSteps => stale = {}, StepKnown(o)'
    PROVE  Sequential'
  <1>1. disk' = disk /\ UNCHANGED <<copies, session, fate>>
    BY DEF OnlyMoves
  <1>2. disk'.mounted = disk.mounted /\ RecordsOK'
    BY <1>1 DEF Sequential, RecordsOK, Unmounted, Exists
  <1> QED
    BY <1>1, <1>2, StayAlone

\* What is left alone by a step that only moves an operation.
LEMMA OnlyMoved ==
    ASSUME Sequential, Settled, OnlyMoves
    PROVE  /\ Cur = current /\ Cur' = Cur /\ Held' = Held /\ Held = current.card
           /\ disk' = disk /\ vfs' = vfs /\ emu' = emu /\ owner' = owner /\ stale' = stale
  <1>1. jobs = <<>> /\ Cur = current /\ Held = current.card /\ ~fatal
    BY NothingWaits DEF Sequential
  <1>2. jobs' = jobs /\ current' = current /\ disk' = disk /\ vfs' = vfs /\ emu' = emu
        /\ owner' = owner /\ stale' = stale
    BY DEF OnlyMoves, copies, session
  <1> QED
    BY <1>1, <1>2 DEF Cur, Held, Pending

\* The record of an operation that has gone on.
LEMMA Record ==
    ASSUME IInv, NEW o \in Ops, NEW pc, Goto(o, pc), pc # "idle"
    PROVE  /\ Continue(o, [op[o] EXCEPT !.pc = pc])
           /\ op'[o].pc = pc /\ op'[o].card = op[o].card /\ op'[o].ses = op[o].ses
           /\ op'[o].out = op[o].out /\ op'[o].res = op[o].res
           /\ [op[o] EXCEPT !.pc = pc].pc = pc
  <1>1. op[o] \in OpRecord /\ op \in [Ops -> OpRecord]
    BY DEF IInv, Running, OpsOK
  <1>2. Continue(o, [op[o] EXCEPT !.pc = pc])
    BY DEF Goto
  <1>3. op' = [op EXCEPT ![o] = [op[o] EXCEPT !.pc = pc]]
    BY <1>2 DEF Continue
  <1> QED
    BY <1>1, <1>2, <1>3 DEF OpRecord

LEMMA Ended ==
    ASSUME IInv, NEW o \in Ops, Finish(o)
    PROVE  /\ Continue(o, NotRunning) /\ NotRunning.pc = "idle"
           /\ op'[o].pc = "idle" /\ op'[o].res = None
           /\ StepKnown(o)' /\ \A c \in CardIds : ~Loads(o, c)' /\ ~Checks(o, c)'
  <1>1. op \in [Ops -> OpRecord]
    BY DEF IInv, Running, OpsOK
  <1>2. Continue(o, NotRunning) /\ op' = [op EXCEPT ![o] = NotRunning]
    BY DEF Finish, Continue
  <1>3. op'[o] = NotRunning /\ NotRunning.pc = "idle" /\ NotRunning.res = None
    BY <1>1, <1>2 DEF NotRunning
  <1>4. StepKnown(o)'
    BY <1>3 DEF StepKnown, CardKnown, LaunchKnown, LoadSteps, EjectFrom, Attached
  <1>5. \A c \in CardIds : ~Loads(o, c)' /\ ~Checks(o, c)'
    BY <1>3 DEF Loads, Checks, FsckSteps
  <1> QED
    BY <1>2, <1>3, <1>4, <1>5

\* An operation ends that does not load a card.
LEMMA EndAlone ==
    ASSUME IInv, Sequential, NoOverlap, Settled, NEW o \in Ops,
           op[o].pc # "idle", Finish(o), OnlyMoves, \A c \in CardIds : ~Loads(o, c)
    PROVE  Sequential'
  <1>1. /\ Continue(o, NotRunning) /\ NotRunning.pc = "idle" /\ StepKnown(o)'
        /\ \A c \in CardIds : ~Loads(o, c)' /\ ~Checks(o, c)'
    BY Ended
  <1>2. SameUse(o) /\ NotRunning.pc \notin LoadSteps
    BY <1>1 DEF SameUse, LoadSteps
  <1> QED
    BY <1>1, <1>2, MoveAlone

-----------------------------------------------------------------------------
(***************************************************************************)
(* One operation at a time: eject.                                         *)
(***************************************************************************)

LEMMA MountedInNone == ASSUME NEW c PROVE MountedIn(c) = {} <=> Unmounted(c)
  BY DEF MountedIn, Unmounted

LEMMA SessionOfKnown ==
    ASSUME NEW c
    PROVE  \/ SessionOf(c) = None /\ Unmounted(c)
           \/ SessionOf(c) \in SessionIds /\ disk.mounted[SessionOf(c)] = c
  <1>1. CASE MountedIn(c) = {}
    BY <1>1, MountedInNone DEF SessionOf
  <1>2. CASE MountedIn(c) # {}
    <2>1. (CHOOSE s \in MountedIn(c) : TRUE) \in MountedIn(c)
      BY <1>2
    <2> QED
      BY <1>2, <2>1 DEF SessionOf, MountedIn
  <1> QED
    BY <1>1, <1>2

\* An operation at a step where it neither loads nor checks a card.
LEMMA Unused ==
    ASSUME NEW o, op[o].pc \notin {"ldData", "mtStatus", "mtSession", "swOpen"} \cup FsckSteps
    PROVE  \A c \in CardIds : ~Loads(o, c) /\ ~Checks(o, c)
  BY DEF Loads, Checks

LEMMA SameUseAt ==
    ASSUME NEW o, op[o].pc \notin {"ldData", "mtStatus", "mtSession", "swOpen"} \cup FsckSteps,
           op'[o].pc \notin {"ldData", "mtStatus", "mtSession", "swOpen"} \cup FsckSteps
    PROVE  SameUse(o)
  BY DEF Loads, Checks, SameUse

LEMMA AnswerAskAlone ==
    ASSUME IInv, Sequential, NoOverlap, NEW o \in Ejectors, AnswerAsk(o)
    PROVE  Sequential'
  <1>1. /\ op[o].pc = "ask" /\ Settled /\ OnlyMoves /\ o \in Ops /\ o \notin Launches
        /\ o \in Ejects \/ o \in Workers
    BY Kinds, Names DEF AnswerAsk, At, Ejectors, Workers
  <1>2. OneAtATime(o) /\ \A c \in CardIds : ~Loads(o, c) /\ ~Checks(o, c)
    BY <1>1, Acting, Unused DEF FsckSteps
  <1>3. CASE Finish(o)
    BY <1>1, <1>2, <1>3, EndAlone
  <1> DEFINE rec == [op[o] EXCEPT !.pc = "ejectGet", !.ses = SessionOf(op[o].card)]
  <1>4. CASE Continue(o, rec)
    <2>1. op[o] \in OpRecord /\ op \in [Ops -> OpRecord]
      BY <1>1 DEF IInv, Running, OpsOK
    <2>2. op'[o] = rec
      BY <1>1, <1>4, <2>1 DEF Continue
    <2>3. /\ rec.pc = "ejectGet" /\ rec.card = op[o].card /\ rec.ses = SessionOf(op[o].card)
          /\ rec.res = op[o].res
      BY <2>1 DEF OpRecord
    <2> HIDE DEF rec
    <2>4. SameUse(o)
      BY <1>1, <2>2, <2>3, SameUseAt DEF FsckSteps
    <2>5. Cur' = Cur /\ disk' = disk /\ vfs' = vfs /\ emu' = emu
      BY <1>1, OnlyMoved
    <2>6. CardKnown(o)' \/ o \notin Workers
      <3> SUFFICES ASSUME o \in Workers PROVE CardKnown(o)'
        OBVIOUS
      <3>1. CardKnown(o)
        BY <1>2 DEF OneAtATime, StepKnown, Workers
      <3> QED
        BY <1>1, <2>2, <2>3, <2>5, <3>1, SessionOfKnown, Nothing
           DEF CardKnown, Attached, EjectFrom, Exists, InVfs, Unmounted
    <2>7. StepKnown(o)'
      BY <1>1, <1>2, <2>2, <2>3, <2>6, Kinds DEF OneAtATime, StepKnown, Workers, EjectFrom, Attached
    <2> QED
      BY <1>1, <1>4, <2>3, <2>4, <2>7, MoveAlone
  <1> QED
    BY <1>1, <1>3, <1>4 DEF AnswerAsk

\* What nobody but a launch can disturb: the mutex is free.
LEMMA NoMutex ==
    ASSUME IInv, NEW o \in Ops \ Launches, Alone(o)
    PROVE  mutex = None
  <1>1. \A p \in Launches : op[p].pc = "idle"
    BY Names DEF Alone
  <1> QED
    BY <1>1 DEF IInv, MutexOK, MutexSteps

\* The record of a session is written, and its change waits for the mutex.
LEMMA ChangeShape ==
    ASSUME IInv, Sequential, Settled, NEW s \in SessionIds, NEW c \in CardIds \cup {None, Gone},
           SetMounted(s, c), current' = current, mutex' = None
    PROVE  /\ OneJob' /\ SessionOK' /\ Cur = current /\ Cur' = Changed(s, c)
           /\ Held' = IF Releases(s, c) THEN current.card ELSE Changed(s, c).card
           /\ Held = current.card
           /\ disk'.mounted = [disk.mounted EXCEPT ![s] = c] /\ disk'.mounted[s] = c
           /\ \A t \in SessionIds \ {s} : disk'.mounted[t] = disk.mounted[t]
           /\ disk'.status = disk.status /\ disk'.health = disk.health
  <1>1. jobs = <<>> /\ Cur = current /\ Held = current.card /\ SessionOK
    BY NothingWaits DEF Sequential
  <1> DEFINE j == [op |-> None, id |-> s, card |-> c]
  <1>2. j \in JobRecord /\ j.op = None /\ j.id = s /\ j.card = c
    BY DEF JobRecord
  <1>3. jobs' = <<j>>
    BY <1>1 DEF SetMounted
  <1> HIDE DEF j
  <1>4. Head(jobs') = j /\ jobs' # <<>>
    BY <1>3
  <1>5. OneJob'
    BY <1>2, <1>3 DEF OneJob
  <1>6. Pending'
    BY <1>2, <1>4 DEF Pending
  <1>7. Changed(s, c)' = Changed(s, c) /\ (Releases(s, c)' <=> Releases(s, c))
    BY DEF Changed, Releases
  <1>8. Cur' = Changed(s, c) /\ Held' = IF Releases(s, c) THEN current.card ELSE Changed(s, c).card
    BY <1>2, <1>4, <1>6, <1>7 DEF Cur, Held, Changed, Releases
  <1>9. disk \in Disk /\ current \in Sessions
    BY DEF IInv, Data
  <1>10. /\ disk'.mounted = [disk.mounted EXCEPT ![s] = c]
         /\ disk'.status = disk.status /\ disk'.health = disk.health
    BY <1>9 DEF Disk, SetMounted
  <1>11. /\ disk'.mounted[s] = c /\ \A t \in SessionIds \ {s} : disk'.mounted[t] = disk.mounted[t]
    BY <1>9, <1>10 DEF Disk
  <1>12. SessionOK'
    <2>1. CASE s # current.id
      BY <1>1, <1>8, <1>9, <1>11, <2>1 DEF SessionOK, Changed, Sessions
    <2>2. CASE s = current.id /\ c = Gone
      BY <1>8, <2>2 DEF SessionOK, Changed, NoSession
    <2>3. CASE s = current.id /\ c # Gone
      <3>1. Cur'.id = s /\ Cur'.card = c
        BY <1>8, <2>3 DEF Changed
      <3> QED
        BY <1>11, <3>1, Nothing DEF SessionOK
    <2> QED
      BY <2>1, <2>2, <2>3
  <1> QED
    BY <1>1, <1>5, <1>8, <1>10, <1>11, <1>12

\* The records stay sound if the session takes a card that is in no other one.
LEMMA ChangeRecords ==
    ASSUME RecordsOK, NEW s \in SessionIds, NEW c,
           disk'.status = disk.status, disk'.health = disk.health, disk'.mounted[s] = c,
           \A t \in SessionIds \ {s} : disk'.mounted[t] = disk.mounted[t],
           c \in CardIds => /\ Exists(c) /\ disk.status[c] # "clean"
                            /\ \A t \in SessionIds \ {s} : disk.mounted[t] # c
    PROVE  RecordsOK' /\ \A d \in CardIds \ {c} : Unmounted(d) => Unmounted(d)'
  <1>1. \A d \in CardIds : Exists(d)' <=> Exists(d)
    BY DEF Exists
  <1>2. \A d \in CardIds \ {c} : ~Unmounted(d)' => ~Unmounted(d)
    BY DEF Unmounted
  <1>3. \A d \in CardIds : \A t, u \in SessionIds :
          disk'.mounted[t] = d /\ disk'.mounted[u] = d => t = u
    BY DEF RecordsOK
  <1>4. \A d \in CardIds : ~Unmounted(d)' => Exists(d) /\ disk.status[d] # "clean"
    BY <1>2 DEF RecordsOK
  <1> QED
    BY <1>1, <1>2, <1>3, <1>4 DEF RecordsOK

\* Steps of an operation on a card that is in no session.
PlainSteps == {"ccMounted", "ccCard", "ccCard2", "askRo", "fsLoader", "fsMounted", "fsCard",
               "vfLoader", "vfGet", "mtMounted", "mtLoader", "delCard", "fsLoad", "apLoader",
               "apData"}

LEMMA PlainKnown ==
    ASSUME NEW o \in Workers, StepKnown(o), op[o].pc \notin {"idle", "dlLoader"},
           Unmounted(op[o].card), disk' = disk, vfs' = vfs, Cur' = Cur, op'[o].pc \in PlainSteps,
           op'[o].card = op[o].card, op'[o].res = op[o].res
    PROVE  StepKnown(o)'
  <1>1. CardKnown(o)
    BY DEF StepKnown, Workers
  <1>2. CardKnown(o)'
    BY <1>1 DEF CardKnown, PlainSteps, Attached, EjectFrom, Exists, InVfs, Unmounted
  <1> QED
    BY <1>2, Kinds DEF StepKnown, Workers, PlainSteps, EjectFrom, Attached

LEMMA WorkerMoves ==
    ASSUME IInv, Sequential, NoOverlap, Settled, NEW o \in Workers,
           op[o].pc \notin {"idle", "dlLoader"}, NEW pc \in PlainSteps, Goto(o, pc), OnlyMoves,
           Unmounted(op[o].card), SameUse(o)
    PROVE  Sequential'
  <1>1. o \in Ops /\ o \notin Launches /\ pc # "idle"
    BY Kinds DEF PlainSteps
  <1>2. /\ Continue(o, [op[o] EXCEPT !.pc = pc])
        /\ op'[o].pc = pc /\ op'[o].card = op[o].card /\ op'[o].res = op[o].res
    BY <1>1, Record
  <1>3. OneAtATime(o)
    BY <1>1, Acting
  <1>4. Cur' = Cur /\ disk' = disk /\ vfs' = vfs
    BY OnlyMoved
  <1>5. StepKnown(o)'
    BY <1>2, <1>3, <1>4, PlainKnown DEF OneAtATime
  <1> QED
    BY <1>1, <1>2, <1>5, MoveAlone

\* What an ejecting operation knows, and where it goes when the card is out.
LEMMA Ejecting ==
    ASSUME IInv, Sequential, NEW o \in Ejectors, NEW pc, At(o, pc), pc # "idle"
    PROVE  /\ o \in Ops /\ o \notin Launches /\ Settled /\ op[o].pc = pc /\ OneAtATime(o)
           /\ Cur = current /\ Held = current.card /\ ~fatal /\ mutex = None
           /\ op[o] \in OpRecord /\ current \in Sessions
           /\ o \in Ejects \/ (o \in Workers /\ o # "insert" /\ CardKnown(o) /\ op[o].card \in CardIds)
  <1>1. o \in Ops /\ o \notin Launches /\ Settled /\ op[o].pc = pc
    BY Kinds, Names DEF At
  <1>2. OneAtATime(o)
    BY <1>1, Acting
  <1>3. Cur = current /\ Held = current.card /\ ~fatal
    BY <1>1, NothingWaits DEF Sequential
  <1>4. mutex = None
    BY <1>1, <1>2, NoMutex DEF OneAtATime
  <1>5. op[o] \in OpRecord /\ current \in Sessions
    BY <1>1 DEF IInv, Running, OpsOK, Data
  <1>6. o \in Ejects \/ (o \in Workers /\ o # "insert")
    BY Kinds DEF Workers
  <1>7. o \in Workers => CardKnown(o) /\ op[o].card \in CardIds
    BY <1>1, <1>2, CardOf DEF OneAtATime, StepKnown, Workers, CardOps
  <1> QED
    BY <1>1, <1>2, <1>3, <1>4, <1>5, <1>6, <1>7

LEMMA AfterEjectKnown ==
    ASSUME NEW o \in Ejectors
    PROVE  /\ o \in Ejects => AfterEject(o) = "idle"
           /\ o \in Workers => AfterEject(o) \in {"fsLoader", "ccMounted", "delCard"}
           /\ AfterEject(o) \in PlainSteps \cup {"idle"}
  BY DEF Ejectors, Ejects, Workers, AfterEject, PlainSteps

LEMMA EjectGetAlone ==
    ASSUME IInv, Sequential, NoOverlap, NEW o \in Ejectors, EjectGet(o)
    PROVE  Sequential'
  <1>1. /\ o \in Ops /\ o \notin Launches /\ Settled /\ op[o].pc = "ejectGet" /\ OneAtATime(o)
        /\ Cur = current /\ op[o] \in OpRecord /\ current \in Sessions
        /\ o \in Ejects \/ (o \in Workers /\ o # "insert" /\ CardKnown(o) /\ op[o].card \in CardIds)
    BY Ejecting DEF EjectGet
  <1>2. o \in Workers /\ CardKnown(o) /\ op[o].card \in CardIds /\ o # "insert"
    BY <1>1 DEF OneAtATime, StepKnown, EjectFrom
  <1>3. /\ Exists(op[o].card)
        /\ \/ op[o].ses = None /\ Unmounted(op[o].card)
           \/ op[o].ses \in SessionIds /\ disk.mounted[op[o].ses] = op[o].card
    BY <1>1, <1>2 DEF CardKnown, OpRecord
  <1>4. CASE op[o].ses = None
    <2>1. Goto(o, AfterEject(o)) /\ OnlyMoves
      BY <1>4 DEF EjectGet
    <2>2. Unmounted(op[o].card)
      BY <1>3, <1>4, Nothing
    <2>3. AfterEject(o) \in PlainSteps \ FsckSteps /\ AfterEject(o) # "idle"
      BY <1>2, AfterEjectKnown DEF PlainSteps, FsckSteps
    <2>4. op'[o].pc = AfterEject(o)
      BY <1>1, <2>1, <2>3, Record
    <2>5. SameUse(o)
      BY <1>1, <2>3, <2>4, SameUseAt DEF PlainSteps, FsckSteps
    <2> QED
      BY <1>1, <1>2, <2>1, <2>2, <2>3, <2>5, WorkerMoves
  <1>5. CASE op[o].ses # None /\ op[o].ses # current.id
    <2>1. Goto(o, "ejOther") /\ OnlyMoves
      BY <1>3, <1>5 DEF EjectGet
    <2>2. /\ op'[o].pc = "ejOther" /\ op'[o].card = op[o].card /\ op'[o].ses = op[o].ses
          /\ op'[o].res = op[o].res /\ Continue(o, [op[o] EXCEPT !.pc = "ejOther"])
      BY <1>1, <2>1, Record
    <2>3. SameUse(o)
      BY <1>1, <2>2, SameUseAt DEF FsckSteps
    <2>4. Cur' = Cur /\ disk' = disk /\ vfs' = vfs /\ emu' = emu
      BY <1>1, <2>1, OnlyMoved
    <2>5. CardKnown(o)'
      BY <1>1, <1>2, <1>3, <1>5, <2>2, <2>4 DEF CardKnown, Attached, EjectFrom, Exists, InVfs, Unmounted
    <2>6. StepKnown(o)'
      BY <1>1, <1>2, <2>2, <2>5, Kinds DEF OneAtATime, StepKnown, Workers, EjectFrom, Attached
    <2> QED
      BY <1>1, <2>1, <2>2, <2>3, <2>6, MoveAlone
  <1>6. CASE op[o].ses # None /\ op[o].ses = current.id
    <2>1. current.card = op[o].card /\ current.card # None
      BY <1>1, <1>2, <1>3, <1>6, Nothing DEF Sequential, SessionOK
    <2> DEFINE rec == [op[o] EXCEPT !.pc = "ejCard", !.out = current.card]
    <2>2. Continue(o, rec) /\ OnlyMoves
      BY <1>3, <1>6, <2>1 DEF EjectGet
    <2>3. op'[o] = rec
      BY <1>1, <2>2 DEF Continue, IInv, Running, OpsOK
    <2>4. /\ rec.pc = "ejCard" /\ rec.card = op[o].card /\ rec.ses = op[o].ses
          /\ rec.out = current.card /\ rec.res = op[o].res
      BY <1>1 DEF OpRecord
    <2> HIDE DEF rec
    <2>5. SameUse(o)
      BY <1>1, <2>3, <2>4, SameUseAt DEF FsckSteps
    <2>6. Cur' = Cur /\ disk' = disk /\ vfs' = vfs /\ emu' = emu
      BY <1>1, <2>2, OnlyMoved
    <2>7. CardKnown(o)'
      BY <1>1, <1>2, <1>3, <2>1, <2>3, <2>4, <2>6
         DEF CardKnown, Attached, EjectFrom, Exists, InVfs, Unmounted
    <2>8. StepKnown(o)'
      BY <1>1, <1>2, <1>3, <1>6, <2>1, <2>3, <2>4, <2>6, <2>7, Kinds, Nothing
         DEF OneAtATime, StepKnown, Workers, EjectFrom, Attached
    <2> QED
      BY <1>1, <2>2, <2>4, <2>5, <2>8, MoveAlone
  <1> QED
    BY <1>4, <1>5, <1>6

\* The status of a card is written: clean only if it is sound and in no session.
LEMMA StatusRecords ==
    ASSUME IInv, RecordsOK, NEW c \in CardIds, NEW status \in Status, disk' = WithStatus(c, status),
           status = "clean" => Unmounted(c) /\ (c \notin NoFsck => disk.health[c] = "ok")
    PROVE  /\ RecordsOK' /\ disk'.mounted = disk.mounted /\ disk'.health = disk.health
           /\ disk'.status[c] = status /\ \A d \in CardIds \ {c} : disk'.status[d] = disk.status[d]
           /\ \A d \in CardIds : (Exists(d) => Exists(d)') /\ (Unmounted(d) <=> Unmounted(d)')
  <1>1. disk \in Disk
    BY DEF IInv, Data
  <1>2. /\ disk'.mounted = disk.mounted /\ disk'.health = disk.health
        /\ disk'.status = [disk.status EXCEPT ![c] = status]
        /\ disk.status \in [CardIds -> Status \cup {Gone}]
    BY <1>1 DEF Disk, WithStatus
  <1>3. disk'.status[c] = status /\ \A d \in CardIds \ {c} : disk'.status[d] = disk.status[d]
    BY <1>2
  <1>4. \A d \in CardIds : (Exists(d) => Exists(d)') /\ (Unmounted(d) <=> Unmounted(d)')
    BY <1>2, <1>3 DEF Exists, Unmounted
  <1>5. RecordsOK'
    BY <1>2, <1>3, <1>4 DEF RecordsOK, Exists
  <1> QED
    BY <1>2, <1>3, <1>4, <1>5

\* A step that changes the record of a session.
LEMMA ChangeAlone ==
    ASSUME IInv, Sequential, NoOverlap, Settled, NEW o \in Ops, NEW rec, Continue(o, rec),
           op[o].pc # "idle" \/ rec.pc # "idle",
           NEW s \in SessionIds, NEW c \in CardIds \cup {None, Gone}, SetMounted(s, c),
           UNCHANGED <<current, fate>>, mutex' = None,
           c \in CardIds => /\ Exists(c) /\ disk.status[c] # "clean"
                            /\ \A t \in SessionIds \ {s} : disk.mounted[t] # c,
           \A d \in CardIds : InVfs(d)' \/ vfs'.clip = d => d # c /\ (InVfs(d) \/ vfs.clip = d),
           EmulatorOK(o)', CopiesOK(o)', OwnersOK(o)', StepKnown(o)'
    PROVE  Sequential'
  <1>1. ~fatal /\ fatal' = fatal /\ lost' = {} /\ current' = current
    BY NothingWaits DEF Sequential, fate
  <1>2. /\ OneJob' /\ SessionOK' /\ disk'.mounted[s] = c
        /\ \A t \in SessionIds \ {s} : disk'.mounted[t] = disk.mounted[t]
        /\ disk'.status = disk.status /\ disk'.health = disk.health
    BY <1>1, ChangeShape
  <1>3. RecordsOK' /\ \A d \in CardIds \ {c} : Unmounted(d) => Unmounted(d)'
    BY <1>2, ChangeRecords DEF Sequential
  <1>4. SlotsFree'
    BY <1>3 DEF SlotsFree, Sequential
  <1>5. Alone(o)'
    BY GoesOn
  <1> QED
    BY <1>1, <1>2, <1>3, <1>4, <1>5 DEF Sequential, OneAtATime

\* The card of an operation is out of its session.
LEMMA OutKnown ==
    ASSUME NEW o \in Workers \ {"insert"}, StepKnown(o), op[o].pc \notin {"idle", "dlLoader"},
           NEW c, op[o].card = c, op'[o].card = c, op'[o].res = op[o].res,
           op'[o].pc \in {"fsLoader", "ccMounted", "delCard", "ejOther2"},
           Exists(c)', Unmounted(c)', vfs' = vfs
    PROVE  StepKnown(o)'
  <1>1. CardKnown(o)
    BY DEF StepKnown, Workers
  <1>2. CardKnown(o)'
    BY <1>1 DEF CardKnown, Attached, EjectFrom, Exists, InVfs, Unmounted
  <1> QED
    BY <1>2, Kinds DEF StepKnown, Workers, EjectFrom, Attached

LEMMA EjectOtherAlone ==
    ASSUME IInv, Sequential, NoOverlap, NEW o \in Ejectors, EjectOther(o)
    PROVE  Sequential'
  <1>1. CASE At(o, "ejOther")
    <2>0. PICK s, c : s = op[o].ses /\ c = op[o].card
      OBVIOUS
    <2>1. /\ o \in Ops /\ o \notin Launches /\ Settled /\ op[o].pc = "ejOther" /\ OneAtATime(o)
          /\ Cur = current /\ Held = current.card /\ mutex = None /\ op[o] \in OpRecord
          /\ o \in Ejects \/ (o \in Workers /\ o # "insert" /\ CardKnown(o) /\ op[o].card \in CardIds)
      BY <1>1, Ejecting
    <2>2. o \in Workers \ {"insert"} /\ CardKnown(o) /\ c \in CardIds
      BY <2>0, <2>1 DEF OneAtATime, StepKnown, EjectFrom
    <2>3. s \in SessionIds /\ disk.mounted[s] = c /\ s # current.id /\ Exists(c)
      BY <2>0, <2>1, <2>2 DEF CardKnown, OpRecord
    <2>4. SessionExists(s)
      BY <2>2, <2>3, Nothing DEF SessionExists
    <2>5. /\ SetMounted(s, None) /\ Goto(o, "ejOther2") /\ UNCHANGED <<copies, current, mutex, fate>>
      BY <1>1, <2>0, <2>1, <2>4 DEF EjectOther, At
    <2>6. /\ op'[o].pc = "ejOther2" /\ op'[o].card = c /\ op'[o].res = op[o].res
          /\ Continue(o, [op[o] EXCEPT !.pc = "ejOther2"])
      BY <2>0, <2>1, <2>5, Record
    <2>7. /\ Cur' = Changed(s, None) /\ disk'.mounted[s] = None /\ disk'.status = disk.status
          /\ Held' = IF Releases(s, None) THEN current.card ELSE Changed(s, None).card
          /\ \A t \in SessionIds \ {s} : disk'.mounted[t] = disk.mounted[t]
      BY <2>1, <2>3, <2>5, ChangeShape
    <2>8. Cur' = Cur /\ Held' = Held
      BY <2>1, <2>3, <2>7 DEF Changed, Releases
    <2>9. /\ emu' = emu /\ stale' = stale /\ owner' = owner /\ vfs' = vfs /\ stuck' = stuck
          /\ fatal' = fatal /\ current' = current /\ mutex' = None
      BY <2>1, <2>5 DEF copies, fate
    <2>10. SameUse(o)
      BY <2>1, <2>6, SameUseAt DEF FsckSteps
    <2>11. EmulatorOK(o)' /\ CopiesOK(o)' /\ OwnersOK(o)'
      BY <2>1, <2>8, <2>9, <2>10 DEF OneAtATime, EmulatorOK, CopiesOK, OwnersOK, SameUse
    <2>12. Unmounted(c)' /\ Exists(c)'
      <3>1. \A t \in SessionIds : disk.mounted[t] = c => t = s
        BY <2>2, <2>3 DEF Sequential, RecordsOK
      <3>2. Unmounted(c)'
        BY <2>2, <2>7, <3>1, Nothing DEF Unmounted
      <3>3. Exists(c)'
        BY <2>3, <2>7 DEF Exists
      <3> QED
        BY <3>2, <3>3
    <2>13. StepKnown(o)'
      BY <2>0, <2>1, <2>2, <2>6, <2>9, <2>12, OutKnown DEF OneAtATime
    <2>14. \A d \in CardIds : InVfs(d)' \/ vfs'.clip = d => d # None /\ (InVfs(d) \/ vfs.clip = d)
      BY <2>9, Nothing DEF InVfs
    <2> QED
      BY <2>1, <2>3, <2>5, <2>6, <2>9, <2>11, <2>13, <2>14, Nothing, ChangeAlone
  <1>2. CASE At(o, "ejOther2")
    <2>0. PICK c : c = op[o].card
      OBVIOUS
    <2>1. /\ o \in Ops /\ o \notin Launches /\ Settled /\ op[o].pc = "ejOther2" /\ OneAtATime(o)
          /\ o \in Ejects \/ (o \in Workers /\ o # "insert" /\ CardKnown(o) /\ op[o].card \in CardIds)
      BY <1>2, Ejecting
    <2>2. o \in Workers \ {"insert"} /\ CardKnown(o) /\ c \in CardIds
      BY <2>0, <2>1 DEF OneAtATime, StepKnown, EjectFrom
    <2>3. Exists(c) /\ Unmounted(c)
      BY <2>0, <2>1, <2>2 DEF CardKnown, Attached, EjectFrom
    <2>4. /\ disk' = WithStatus(c, "dirty") /\ Goto(o, AfterEject(o))
          /\ UNCHANGED <<copies, session, fate>>
      BY <1>2, <2>0, <2>1, <2>3 DEF EjectOther, At
    <2>5. AfterEject(o) \in {"fsLoader", "ccMounted", "delCard"} /\ AfterEject(o) # "idle"
      BY <2>2, AfterEjectKnown
    <2>6. /\ op'[o].pc = AfterEject(o) /\ op'[o].card = c /\ op'[o].res = op[o].res
          /\ Continue(o, [op[o] EXCEPT !.pc = AfterEject(o)])
      BY <2>0, <2>1, <2>4, <2>5, Record
    <2>7. "dirty" \in Status
      BY DEF Status
    <2>8. /\ RecordsOK' /\ disk'.mounted = disk.mounted
          /\ \A d \in CardIds : (Exists(d) => Exists(d)') /\ (Unmounted(d) <=> Unmounted(d)')
      BY <2>2, <2>4, <2>7, StatusRecords DEF Sequential
    <2>9. vfs' = vfs
      BY <2>4 DEF copies
    <2>10. StepKnown(o)'
      BY <2>0, <2>1, <2>2, <2>3, <2>5, <2>6, <2>8, <2>9, OutKnown DEF OneAtATime
    <2>11. SameUse(o)
      BY <2>1, <2>5, <2>6, SameUseAt DEF FsckSteps
    <2> QED
      BY <2>1, <2>4, <2>6, <2>8, <2>10, <2>11, StayAlone
  <1> QED
    BY <1>1, <1>2 DEF EjectOther

\* What an operation that ejects the card of the running session knows.
LEMMA EjectingCurrent ==
    ASSUME IInv, Sequential, NEW o \in Ejectors, NEW pc \in EjectFrom, At(o, pc)
    PROVE  /\ op[o].out \in CardIds /\ op[o].ses \in SessionIds
           /\ op[o].ses = current.id /\ op[o].out = current.card
           /\ o \in Workers => op[o].out = op[o].card
           /\ Exists(op[o].out) /\ SessionExists(op[o].ses) /\ owner[op[o].out] = "cloudpilot"
           /\ disk.mounted[op[o].ses] = op[o].out /\ op[o].out \notin stuck
           /\ op[o].res = None \/ o \notin Workers
  <1>1. pc # "idle"
    BY DEF EjectFrom
  <1>2. /\ OneAtATime(o) /\ op[o].pc = pc /\ Cur = current /\ Held = current.card /\ ~fatal
        /\ o \in Ejects \/ (o \in Workers /\ CardKnown(o))
    BY <1>1, Ejecting
  <1>3. /\ op[o].out \in CardIds /\ op[o].ses \in SessionIds
        /\ op[o].ses = current.id /\ op[o].out = current.card
    BY <1>2 DEF OneAtATime, StepKnown
  <1>4. o \in Workers => op[o].out = op[o].card /\ op[o].res = None
    BY <1>2, Kinds DEF CardKnown, OneAtATime, StepKnown, Attached
  <1>5. disk.mounted[op[o].ses] = op[o].out
    BY <1>2, <1>3, Nothing DEF Sequential, SessionOK
  <1>6. Exists(op[o].out) /\ SessionExists(op[o].ses)
    BY <1>3, <1>5, Nothing DEF Sequential, RecordsOK, Unmounted, SessionExists
  <1>7. owner[op[o].out] = "cloudpilot" /\ op[o].out \notin stuck
    BY <1>2, <1>3 DEF OneAtATime, OwnersOK
  <1> QED
    BY <1>3, <1>4, <1>5, <1>6, <1>7

\* An operation that goes on with the eject knows the same.
LEMMA EjectKnown ==
    ASSUME IInv, Sequential, NEW o \in Ejectors, NEW pc \in EjectFrom, At(o, pc),
           op'[o].pc \in EjectFrom, op'[o].card = op[o].card, op'[o].ses = op[o].ses,
           op'[o].out = op[o].out, op'[o].res = op[o].res,
           Cur' = Cur, vfs' = vfs, \A d \in CardIds : Exists(d) => Exists(d)'
    PROVE  StepKnown(o)'
  <1>1. pc # "idle"
    BY DEF EjectFrom
  <1>2. /\ OneAtATime(o) /\ op[o].pc = pc
        /\ o \in Ejects \/ (o \in Workers /\ o # "insert" /\ CardKnown(o) /\ op[o].card \in CardIds)
    BY <1>1, Ejecting
  <1>3. o \in Workers => CardKnown(o)'
    BY <1>2, Kinds DEF CardKnown, Attached, EjectFrom, InVfs
  <1> QED
    BY <1>2, <1>3, Kinds DEF OneAtATime, StepKnown, Workers, EjectFrom, Attached

LEMMA EjectPrepareAlone ==
    ASSUME IInv, Sequential, NoOverlap, NEW o \in Ejectors, EjectPrepare(o)
    PROVE  Sequential'
  <1>1. PICK pc \in {"ejCard", "ejStatus", "ejSnap"} : At(o, pc)
    BY DEF EjectPrepare
  <1>2. pc \in EjectFrom /\ pc # "idle"
    BY <1>1 DEF EjectFrom
  <1>3. /\ o \in Ops /\ o \notin Launches /\ Settled /\ op[o].pc = pc /\ OneAtATime(o) /\ Cur = current
    BY <1>1, <1>2, Ejecting
  <1>4. op[o].out \in CardIds /\ Exists(op[o].out)
    BY <1>1, <1>2, EjectingCurrent
  <1>5. CASE pc \in {"ejCard", "ejSnap"}
    <2>1. PICK next \in {"ejStatus", "ejSession"} : Goto(o, next) /\ OnlyMoves
      BY <1>3, <1>4, <1>5 DEF EjectPrepare, At
    <2>2. /\ op'[o].pc = next /\ op'[o].card = op[o].card /\ op'[o].ses = op[o].ses
          /\ op'[o].out = op[o].out /\ op'[o].res = op[o].res
          /\ Continue(o, [op[o] EXCEPT !.pc = next])
      BY <1>3, <2>1, Record
    <2>3. Cur' = Cur /\ disk' = disk /\ vfs' = vfs
      BY <1>3, <2>1, OnlyMoved
    <2>4. next \in EjectFrom /\ \A d \in CardIds : Exists(d) => Exists(d)'
      BY <2>3 DEF EjectFrom, Exists
    <2>5. StepKnown(o)'
      BY <1>1, <1>2, <2>2, <2>3, <2>4, EjectKnown
    <2>6. SameUse(o)
      BY <1>3, <1>5, <2>1, <2>2, SameUseAt DEF FsckSteps
    <2> QED
      BY <1>2, <1>3, <2>1, <2>2, <2>5, <2>6, MoveAlone
  <1>6. CASE pc = "ejStatus"
    <2>1. /\ disk' = WithStatus(op[o].out, "dirty") /\ Goto(o, "ejSnap")
          /\ UNCHANGED <<copies, session, fate>>
      BY <1>3, <1>4, <1>6 DEF EjectPrepare, At
    <2>2. /\ op'[o].pc = "ejSnap" /\ op'[o].card = op[o].card /\ op'[o].ses = op[o].ses
          /\ op'[o].out = op[o].out /\ op'[o].res = op[o].res
          /\ Continue(o, [op[o] EXCEPT !.pc = "ejSnap"])
      BY <1>3, <2>1, Record
    <2>3. "dirty" \in Status /\ "ejSnap" \in EjectFrom
      BY DEF Status, EjectFrom
    <2>4. /\ RecordsOK' /\ disk'.mounted = disk.mounted
          /\ \A d \in CardIds : (Exists(d) => Exists(d)') /\ (Unmounted(d) <=> Unmounted(d)')
      BY <1>4, <2>1, <2>3, StatusRecords DEF Sequential
    <2>5. Cur' = Cur /\ vfs' = vfs
      <3>1. jobs = <<>>
        BY <1>3, NothingWaits DEF Sequential
      <3>2. jobs' = jobs /\ current' = current /\ vfs' = vfs
        BY <2>1 DEF session, copies
      <3> QED
        BY <3>1, <3>2 DEF Cur, Pending
    <2>6. StepKnown(o)'
      BY <1>1, <1>2, <2>2, <2>3, <2>4, <2>5, EjectKnown
    <2>7. SameUse(o)
      BY <1>3, <1>6, <2>2, SameUseAt DEF FsckSteps
    <2> QED
      BY <1>2, <1>3, <2>1, <2>2, <2>4, <2>6, <2>7, StayAlone
  <1> QED
    BY <1>1, <1>5, <1>6

LEMMA EjectRemoveAlone ==
    ASSUME IInv, Sequential, NoOverlap, NEW o \in Ejectors, EjectRemove(o)
    PROVE  Sequential'
  <1>0. PICK s, c : s = op[o].ses /\ c = op[o].out
    OBVIOUS
  <1>1. At(o, "ejSession") /\ "ejSession" \in EjectFrom /\ "ejSession" # "idle"
    BY DEF EjectRemove, EjectFrom
  <1>2. /\ o \in Ops /\ o \notin Launches /\ Settled /\ op[o].pc = "ejSession" /\ OneAtATime(o)
        /\ Cur = current /\ Held = current.card /\ mutex = None /\ ~fatal
        /\ o \in Ejects \/ (o \in Workers /\ o # "insert" /\ CardKnown(o) /\ op[o].card \in CardIds)
    BY <1>1, Ejecting
  <1>3. /\ c \in CardIds /\ s \in SessionIds /\ s = current.id /\ c = current.card
        /\ o \in Workers => c = op[o].card
        /\ Exists(c) /\ SessionExists(s) /\ owner[c] = "cloudpilot"
        /\ disk.mounted[s] = c /\ c \notin stuck
    BY <1>0, <1>1, EjectingCurrent
  <1>4. /\ SetMounted(s, None)
        /\ emu' = [images |-> emu.images \ {c}, key |-> IF emu.key = c THEN None ELSE emu.key]
        /\ owner' = [owner EXCEPT ![c] = "none"]
        /\ stale' = stale \ {<<"emu", c>>}
        /\ Goto(o, AfterEject(o)) /\ UNCHANGED <<vfs, current, mutex, fate>>
    BY <1>0, <1>3 DEF EjectRemove
  <1>5. PICK rec : /\ Continue(o, rec) /\ op'[o].pc = AfterEject(o)
                   /\ AfterEject(o) # "idle" => op'[o].card = op[o].card /\ op'[o].res = op[o].res
                   /\ AfterEject(o) = "idle" => StepKnown(o)'
    <2>1. CASE AfterEject(o) = "idle"
      <3>1. Finish(o)
        BY <1>4, <2>1 DEF Goto, Finish
      <3>2. Continue(o, NotRunning) /\ op'[o].pc = "idle" /\ StepKnown(o)'
        BY <1>2, <3>1, Ended
      <3> QED
        BY <2>1, <3>2
    <2>2. CASE AfterEject(o) # "idle"
      <3>1. /\ Continue(o, [op[o] EXCEPT !.pc = AfterEject(o)]) /\ op'[o].pc = AfterEject(o)
            /\ op'[o].card = op[o].card /\ op'[o].res = op[o].res
        BY <1>2, <1>4, <2>2, Record
      <3> QED
        BY <2>2, <3>1
    <2> QED
      BY <2>1, <2>2
  <1>6. /\ Cur' = Changed(s, None) /\ disk'.mounted[s] = None /\ disk'.status = disk.status
        /\ Held' = IF Releases(s, None) THEN current.card ELSE Changed(s, None).card
        /\ \A t \in SessionIds \ {s} : disk'.mounted[t] = disk.mounted[t]
    BY <1>2, <1>3, <1>4, ChangeShape
  <1>7. Cur'.id = s /\ Cur'.card = None /\ Held' = None
    BY <1>3, <1>6, Nothing DEF Changed, Releases
  <1>8. AfterEject(o) \notin {"ldData", "mtStatus", "mtSession", "swOpen"} \cup FsckSteps
    BY AfterEjectKnown, Kinds DEF Workers, FsckSteps
  <1>9. \A d \in CardIds : ~Loads(o, d) /\ ~Loads(o, d)' /\ ~Checks(o, d)'
    BY <1>2, <1>5, <1>8 DEF Loads, Checks
  <1>10. emu'.key = None /\ emu'.images = emu.images \ {c} /\ emu.key = c /\ stale = {}
         /\ \A d \in CardIds : d \in emu.images <=> d = c
    BY <1>2, <1>3, <1>4, <1>9, Nothing DEF OneAtATime, EmulatorOK, CopiesOK
  <1>11. EmulatorOK(o)' /\ CopiesOK(o)'
    BY <1>3, <1>4, <1>7, <1>9, <1>10, Nothing DEF EmulatorOK, CopiesOK
  <1>12. owner'[c] = "none" /\ \A d \in CardIds \ {c} : owner'[d] = owner[d]
    BY <1>3, <1>4 DEF IInv, Data
  <1>13. stuck' = stuck /\ fatal' = fatal /\ vfs' = vfs /\ current' = current /\ mutex' = None
         /\ UNCHANGED <<current, fate>>
    BY <1>2, <1>4 DEF fate
  <1>14. OwnersOK(o)'
    <2>1. OwnersOK(o)
      BY <1>2 DEF OneAtATime
    <2> QED
      BY <1>2, <1>3, <1>7, <1>9, <1>12, <1>13, <2>1, Nothing DEF OwnersOK
  <1>15. Exists(c)' /\ Unmounted(c)'
    <2>1. \A t \in SessionIds : disk.mounted[t] = c => t = s
      BY <1>3 DEF Sequential, RecordsOK
    <2>2. Unmounted(c)'
      BY <1>3, <1>6, <2>1, Nothing DEF Unmounted
    <2>3. Exists(c)'
      BY <1>3, <1>6 DEF Exists
    <2> QED
      BY <2>2, <2>3
  <1>16. StepKnown(o)'
    <2>1. CASE AfterEject(o) = "idle"
      BY <1>5, <2>1
    <2>2. CASE AfterEject(o) # "idle"
      <3>1. o \in Workers \ {"insert"} /\ AfterEject(o) \in {"fsLoader", "ccMounted", "delCard"}
        BY <1>2, <2>2, AfterEjectKnown
      <3> QED
        BY <1>2, <1>3, <1>5, <1>13, <1>15, <2>2, <3>1, OutKnown DEF OneAtATime
    <2> QED
      BY <2>1, <2>2
  <1>17. \A d \in CardIds : InVfs(d)' \/ vfs'.clip = d => d # None /\ (InVfs(d) \/ vfs.clip = d)
    BY <1>13, Nothing DEF InVfs
  <1>18. None \notin CardIds /\ op[o].pc # "idle"
    BY <1>2, Nothing
  <1> QED
    BY <1>2, <1>3, <1>4, <1>5, <1>11, <1>13, <1>14, <1>16, <1>17, <1>18, ChangeAlone

-----------------------------------------------------------------------------
(***************************************************************************)
(* One operation at a time: starts, and delete.                            *)
(***************************************************************************)

LEMMA BeginShape ==
    ASSUME IInv, NEW o \in Ops, NEW pc, NEW c, NEW s, Begin(o, pc, c, s)
    PROVE  /\ Settled /\ op[o].pc = "idle" /\ Continue(o, Started(pc, c, s))
           /\ Started(pc, c, s).pc = pc /\ op'[o].pc = pc /\ op'[o].card = c /\ op'[o].ses = s
           /\ op'[o].out = None /\ op'[o].res = None
  <1>1. Settled /\ op[o].pc = "idle" /\ Continue(o, Started(pc, c, s))
    BY DEF Begin, Ready, Started
  <1>2. op'[o] = Started(pc, c, s)
    BY <1>1 DEF Continue, IInv, Running, OpsOK
  <1> QED
    BY <1>1, <1>2 DEF Started, NotRunning

LEMMA StartEjectAlone ==
    ASSUME IInv, Sequential, NoOverlap, NEW o \in Ejects, StartEject(o)
    PROVE  Sequential'
  <1> DEFINE rec == [NotRunning EXCEPT !.pc = "ejCard", !.out = current.card, !.ses = current.id]
  <1>1. /\ o \in Ops /\ o \notin Launches /\ Settled /\ op[o].pc = "idle" /\ Continue(o, rec)
        /\ OnlyMoves /\ current.card # None
    BY Kinds DEF StartEject, Ready
  <1>2. rec.pc = "ejCard" /\ rec.out = current.card /\ rec.ses = current.id /\ rec.res = None
    BY DEF NotRunning
  <1> HIDE DEF rec
  <1>3. op'[o] = rec
    BY <1>1 DEF Continue, IInv, Running, OpsOK
  <1>4. Cur = current /\ Cur' = Cur
    BY <1>1, OnlyMoved
  <1>5. current.card \in CardIds /\ current.id \in SessionIds
    BY <1>1, <1>4 DEF IInv, Data, Sessions, Sequential, SessionOK
  <1>6. StepKnown(o)'
    BY <1>2, <1>3, <1>4, <1>5, Kinds DEF StepKnown, Workers, EjectFrom
  <1>7. SameUse(o)
    BY <1>1, <1>2, <1>3, SameUseAt DEF FsckSteps
  <1> QED
    BY <1>1, <1>2, <1>6, <1>7, MoveAlone

\* An operation on a card or a session starts and changes nothing yet.
LEMMA StartAlone ==
    ASSUME IInv, Sequential, NoOverlap, NEW o \in Ops \ Launches, NEW pc, NEW c, NEW s,
           Begin(o, pc, c, s), pc # "idle",
           pc \notin {"ldData", "mtStatus", "mtSession", "swOpen"} \cup FsckSteps,
           OnlyMoves, StepKnown(o)'
    PROVE  Sequential'
  <1>1. /\ Settled /\ op[o].pc = "idle" /\ Continue(o, Started(pc, c, s))
        /\ Started(pc, c, s).pc = pc /\ op'[o].pc = pc
    BY BeginShape
  <1>2. SameUse(o)
    BY <1>1, SameUseAt DEF FsckSteps
  <1> QED
    BY <1>1, <1>2, MoveAlone

LEMMA StartCheckAlone ==
    ASSUME IInv, Sequential, NoOverlap, NEW c \in CardIds, StartCheck(c)
    PROVE  Sequential'
  <1> DEFINE pc == IF MountedIn(c) = {} THEN "fsLoader" ELSE "ask"
  <1>1. Exists(c) /\ Begin("check", pc, c, None) /\ OnlyMoves /\ "check" \in Ops \ Launches
    BY Names DEF StartCheck
  <1>2. pc \in {"fsLoader", "ask"} /\ (pc = "fsLoader" => Unmounted(c))
    BY MountedInNone
  <1> HIDE DEF pc
  <1>3. /\ Settled /\ op'["check"].pc = pc /\ op'["check"].card = c /\ op'["check"].res = None
    BY <1>1, BeginShape
  <1>4. disk' = disk /\ vfs' = vfs
    BY <1>1, <1>3, OnlyMoved
  <1>5. CardKnown("check")'
    BY <1>1, <1>2, <1>3, <1>4 DEF CardKnown, Attached, EjectFrom, Exists, Unmounted
  <1>6. StepKnown("check")'
    BY <1>2, <1>3, <1>5, Kinds DEF StepKnown, Workers, EjectFrom, Ejects
  <1> QED
    BY <1>1, <1>2, <1>6, StartAlone DEF FsckSteps

LEMMA StartInsertAlone ==
    ASSUME IInv, Sequential, NoOverlap, NEW c \in CardIds, StartInsert(c)
    PROVE  Sequential'
  <1>1. /\ Exists(c) /\ Begin("insert", "ccMounted", c, None) /\ OnlyMoves /\ "insert" \in Ops \ Launches
        /\ Unmounted(c) /\ current.id # None /\ current.card = None
    BY Names, MountedInNone DEF StartInsert
  <1>2. /\ Settled /\ op'["insert"].pc = "ccMounted" /\ op'["insert"].card = c /\ op'["insert"].res = None
    BY <1>1, BeginShape
  <1>3. disk' = disk /\ vfs' = vfs /\ Cur = current /\ Cur' = Cur
    BY <1>1, <1>2, OnlyMoved
  <1>4. CardKnown("insert")'
    BY <1>1, <1>2, <1>3 DEF CardKnown, Attached, EjectFrom, Exists, Unmounted
  <1>5. StepKnown("insert")'
    BY <1>2, <1>4, Kinds DEF StepKnown, Workers, EjectFrom, Ejects
  <1> QED
    BY <1>1, <1>5, StartAlone DEF FsckSteps

LEMMA StartBrowseAlone ==
    ASSUME IInv, Sequential, NoOverlap, NEW c \in CardIds, StartBrowse(c)
    PROVE  Sequential'
  <1> DEFINE pc == IF MountedIn(c) = {} THEN "ccMounted" ELSE "ask"
  <1>1. /\ Exists(c) /\ Begin("browse", pc, c, None) /\ OnlyMoves /\ "browse" \in Ops \ Launches
        /\ owner[c] # "vfs"
    BY Names DEF StartBrowse
  <1>2. pc \in {"ccMounted", "ask"} /\ (pc = "ccMounted" => Unmounted(c))
    BY MountedInNone
  <1> HIDE DEF pc
  <1>3. /\ Settled /\ op'["browse"].pc = pc /\ op'["browse"].card = c /\ op'["browse"].res = None
    BY <1>1, BeginShape
  <1>4. disk' = disk /\ vfs' = vfs /\ ~InVfs(c)
    BY <1>1, <1>3, OnlyMoved DEF IInv, Claims, VfsClaims
  <1>5. CardKnown("browse")'
    BY <1>1, <1>2, <1>3, <1>4 DEF CardKnown, Attached, EjectFrom, Exists, Unmounted, InVfs
  <1>6. StepKnown("browse")'
    BY <1>2, <1>3, <1>5, Kinds DEF StepKnown, Workers, EjectFrom, Ejects
  <1> QED
    BY <1>1, <1>2, <1>6, StartAlone DEF FsckSteps

LEMMA StartEditAlone ==
    ASSUME IInv, Sequential, NoOverlap, NEW s \in SessionIds, StartEdit(s)
    PROVE  Sequential'
  <1>1. /\ SessionExists(s) /\ Begin("edit", "edForm", disk.mounted[s], s) /\ OnlyMoves
        /\ "edit" \in Ops \ Launches
    BY Names DEF StartEdit
  <1>2. /\ Settled /\ op'["edit"].pc = "edForm" /\ op'["edit"].card = disk.mounted[s]
        /\ op'["edit"].ses = s /\ op'["edit"].res = None
    BY <1>1, BeginShape
  <1>3. disk' = disk
    BY <1>1, <1>2, OnlyMoved
  <1>4. StepKnown("edit")'
    BY <1>1, <1>2, <1>3, Kinds DEF StepKnown, Workers, EjectFrom, Ejects, SessionExists
  <1> QED
    BY <1>1, <1>4, StartAlone DEF FsckSteps

LEMMA StartDeleteSessionAlone ==
    ASSUME IInv, Sequential, NoOverlap, NEW s \in SessionIds, StartDeleteSession(s)
    PROVE  Sequential'
  <1>1. Begin("delSession", "dsDelete", None, s) /\ OnlyMoves /\ "delSession" \in Ops \ Launches
    BY Names DEF StartDeleteSession
  <1>2. op'["delSession"].pc = "dsDelete" /\ op'["delSession"].ses = s /\ op'["delSession"].res = None
    BY <1>1, BeginShape
  <1>3. StepKnown("delSession")'
    BY <1>2, Kinds DEF StepKnown, Workers, EjectFrom, Ejects
  <1> QED
    BY <1>1, <1>3, StartAlone DEF FsckSteps

LEMMA StartFileAlone ==
    ASSUME IInv, Sequential, NoOverlap, StartFile
    PROVE  Sequential'
  <1>1. PICK pc \in {"fiSync", "fiError"} : Begin("file", pc, vfs.primary, None)
    BY DEF StartFile
  <1>2. vfs.primary # None /\ OnlyMoves /\ "file" \in Ops \ Launches
    BY Names DEF StartFile
  <1>3. /\ Settled /\ op'["file"].pc = pc /\ op'["file"].card = vfs.primary /\ op'["file"].res = None
    BY <1>1, <1>2, BeginShape
  <1>4. vfs' = vfs
    BY <1>2, <1>3, OnlyMoved
  <1>5. StepKnown("file")'
    BY <1>3, <1>4, Kinds DEF StepKnown, Workers, EjectFrom, Ejects, InVfs
  <1> QED
    BY <1>1, <1>2, <1>5, StartAlone DEF FsckSteps

-----------------------------------------------------------------------------
(***************************************************************************)
(* One operation at a time: a card leaves the VFS, delete.                 *)
(***************************************************************************)

\* A step that leaves the sessions and the emulator alone, and does not touch what the
\* emulator owns.
LEMMA WorkAlone ==
    ASSUME IInv, Sequential, NoOverlap, Settled, NEW o \in Ops \ Launches, NEW rec,
           Continue(o, rec), op[o].pc # "idle" \/ rec.pc # "idle",
           UNCHANGED <<jobs, current, fatal, emu>>, disk'.mounted = disk.mounted,
           RecordsOK', lost' = {},
           \A c \in CardIds : InVfs(c)' \/ vfs'.clip = c => InVfs(c) \/ vfs.clip = c \/ Unmounted(c),
           \A x \in stale' : x \in stale \/ (x[1] = "emu" /\ current.id = None),
           \A c \in CardIds : owner'[c] = "cloudpilot" <=> owner[c] = "cloudpilot",
           \A c \in CardIds : Loads(o, c)' <=> Loads(o, c),
           \A c \in stuck : c \in stuck',
           \A c \in stuck' : /\ ~Checks(o, c)'
                             /\ (c \in stuck /\ owner'[c] = owner[c]) \/ owner'[c] = "fstools",
           StepKnown(o)'
    PROVE  Sequential'
  <1>1. Cur = current /\ Held = current.card /\ ~fatal /\ jobs = <<>>
    BY NothingWaits DEF Sequential
  <1>2. Cur' = Cur /\ Held' = Held
    BY <1>1 DEF Cur, Held, Pending
  <1>3. OneAtATime(o)
    BY GoesOn
  <1>4. SlotsFree'
    BY DEF SlotsFree, Sequential, Unmounted
  <1>5. EmulatorOK(o)'
    BY <1>2, <1>3 DEF OneAtATime, EmulatorOK
  <1>6. CopiesOK(o)'
    BY <1>1, <1>2, <1>3 DEF OneAtATime, CopiesOK
  <1>7. OwnersOK(o)'
    BY <1>1, <1>2, <1>3 DEF OneAtATime, OwnersOK
  <1> QED
    BY <1>4, <1>5, <1>6, <1>7, PlainAlone

\* What a card that leaves the VFS takes with it.
LEMMA ReleaseKeeps ==
    ASSUME IInv, NEW c \in CardIds, ReleaseCard(c), \A w \in Writers : op[w].pc \notin SyncSteps
    PROVE  /\ \A d \in CardIds : InVfs(d)' <=> InVfs(d) /\ d # c
           /\ vfs'.clip = vfs.clip /\ stale' \subseteq stale
           /\ \A d \in CardIds : owner'[d] = IF d = c /\ InVfs(c) THEN "none" ELSE owner[d]
           /\ \A d \in CardIds : InVfs(d) => owner[d] = "vfs"
           /\ \A d \in CardIds : owner'[d] = "cloudpilot" <=> owner[d] = "cloudpilot"
           /\ \A d \in CardIds : owner[d] # "vfs" => owner'[d] = owner[d]
  <1>1. owner' = OwnerWithout(c) /\ vfs' = VfsWithout(c) /\ stale' = StaleWithout(c)
    BY DEF ReleaseCard
  <1>2. /\ VfsWithout(c).primary = IF vfs.primary = c THEN None ELSE vfs.primary
        /\ VfsWithout(c).secondary = IF vfs.secondary = c THEN None ELSE vfs.secondary
        /\ VfsWithout(c).clip = vfs.clip
        /\ \A d \in CardIds : OwnerWithout(c)[d] = IF d = c /\ InVfs(c) THEN "none" ELSE owner[d]
        /\ \A d \in CardIds : InVfs(d) => ~Opened(d) /\ owner[d] = "vfs"
    BY ReleaseShape
  <1>3. \A d \in CardIds : InVfs(d)' <=> InVfs(d) /\ d # c
    BY <1>1, <1>2, Nothing DEF InVfs
  <1>4. stale' \subseteq stale
    BY <1>1 DEF StaleWithout
  <1> QED
    BY <1>1, <1>2, <1>3, <1>4

\* Nobody else syncs.
LEMMA NoSync ==
    ASSUME NEW o, Alone(o), op[o].pc \notin SyncSteps
    PROVE  \A w \in Writers : op[w].pc \notin SyncSteps
  BY Names, Kinds DEF Alone, Ops, SyncSteps

\* A card that is left claimed belongs to nobody in the VFS.
LEMMA StuckOwners ==
    ASSUME NEW o, OwnersOK(o), ~fatal, stuck \subseteq CardIds
    PROVE  \A c \in stuck : owner[c] \in {"cloudpilot", "fstools"} /\ ~Checks(o, c)
  BY DEF OwnersOK

LEMMA StartDeleteAlone ==
    ASSUME IInv, Sequential, NoOverlap, NEW c \in CardIds, StartDelete(c)
    PROVE  Sequential'
  <1>1. Exists(c) /\ Begin("delete", "dlLoader", c, None) /\ OnlyMoves /\ "delete" \in Ops \ Launches
    BY Names DEF StartDelete
  <1>2. /\ Settled /\ op'["delete"].pc = "dlLoader" /\ op'["delete"].card = c
        /\ op'["delete"].res = None
    BY <1>1, BeginShape
  <1>3. disk' = disk
    BY <1>1, <1>2, OnlyMoved
  <1>4. CardKnown("delete")'
    BY <1>1, <1>2, <1>3 DEF CardKnown, Attached, EjectFrom, Exists
  <1>5. StepKnown("delete")'
    BY <1>2, <1>4, Kinds DEF StepKnown, Workers, EjectFrom, Ejects
  <1> QED
    BY <1>1, <1>5, StartAlone DEF FsckSteps

LEMMA DeleteReleaseAlone ==
    ASSUME IInv, Sequential, NoOverlap, DeleteRelease
    PROVE  Sequential'
  <1>1. PICK c, s : c = op["delete"].card /\ s = SessionOf(c)
    OBVIOUS
  <1>2. /\ "delete" \in Ops \ Launches /\ "delete" \in Ejectors /\ "delete" \notin Ejects
        /\ At("delete", "dlLoader")
    BY Names DEF Ejectors, Ejects, DeleteRelease
  <1>3. /\ Settled /\ op["delete"].pc = "dlLoader" /\ OneAtATime("delete") /\ op["delete"] \in OpRecord
        /\ CardKnown("delete") /\ c \in CardIds /\ StepKnown("delete")
    BY <1>1, <1>2, Ejecting DEF OneAtATime
  <1>4. ReleaseOk(c) /\ Exists(c) /\ op["delete"].res = None
    BY <1>1, <1>3, Kinds DEF ReleaseOk, IInv, Claims, VfsClaims, CardKnown, StepKnown
  <1> DEFINE rec == [op["delete"] EXCEPT !.pc = "ejectGet", !.ses = s]
  <1>5. Continue("delete", rec) /\ ReleaseCard(c) /\ UNCHANGED <<disk, emu, session, fate>>
    BY <1>1, <1>4 DEF DeleteRelease
  <1>6. rec.pc = "ejectGet" /\ rec.card = c /\ rec.ses = s /\ rec.res = None
    BY <1>1, <1>3, <1>4 DEF OpRecord
  <1> HIDE DEF rec
  <1>7. op'["delete"] = rec
    BY <1>2, <1>5 DEF Continue, IInv, Running, OpsOK
  <1>8. \A w \in Writers : op[w].pc \notin SyncSteps
    BY <1>3, NoSync DEF OneAtATime, SyncSteps
  <1>9. /\ \A d \in CardIds : InVfs(d)' <=> InVfs(d) /\ d # c
        /\ vfs'.clip = vfs.clip /\ stale' \subseteq stale
        /\ \A d \in CardIds : owner'[d] = "cloudpilot" <=> owner[d] = "cloudpilot"
        /\ \A d \in CardIds : owner[d] # "vfs" => owner'[d] = owner[d]
    BY <1>3, <1>5, <1>8, ReleaseKeeps
  <1>10. /\ disk' = disk /\ jobs' = jobs /\ current' = current /\ fatal' = fatal /\ emu' = emu
        /\ stuck' = stuck /\ lost' = lost
    BY <1>5 DEF session, fate
  <1>11. RecordsOK' /\ lost' = {}
    BY <1>10 DEF Sequential, RecordsOK, Unmounted, Exists
  <1>12. \A d \in CardIds : ~Loads("delete", d) /\ ~Loads("delete", d)' /\ ~Checks("delete", d)'
    BY <1>3, <1>6, <1>7 DEF Loads, Checks, FsckSteps
  <1>13. ~fatal /\ stuck \subseteq CardIds
    BY <1>3, NothingWaits DEF Sequential, IInv, Data
  <1>14. \A d \in stuck : owner'[d] = owner[d] /\ d \in CardIds
    BY <1>3, <1>9, <1>13, StuckOwners DEF OneAtATime
  <1>15. \/ s = None /\ Unmounted(c)
         \/ s \in SessionIds /\ disk.mounted[s] = c
    BY <1>1, SessionOfKnown
  <1>16. CardKnown("delete")'
    BY <1>3, <1>4, <1>6, <1>7, <1>9, <1>10, <1>15, Nothing
       DEF CardKnown, Attached, EjectFrom, Exists, Unmounted
  <1>17. StepKnown("delete")'
    BY <1>6, <1>7, <1>16, Kinds DEF StepKnown, Workers, EjectFrom, Ejects
  <1> QED
    BY <1>2, <1>3, <1>5, <1>6, <1>9, <1>10, <1>11, <1>12, <1>14, <1>17, WorkAlone

\* A card that is not that of the current session, in no slot and not in use by the operation
\* has no owner unless it was left claimed.
LEMMA UnownedHeld ==
    ASSUME IInv, Sequential, Settled, NEW o \in Ops, OneAtATime(o), NEW c \in CardIds, current.card # c,
           ~Loads(o, c), ~Checks(o, c), ~InVfs(c), op[o].pc \notin OpenSteps
    PROVE  owner[c] = "none" \/ c \in stuck
  <1>1. Cur = current /\ Held = current.card /\ ~fatal
    BY NothingWaits DEF Sequential
  <1>2. owner[c] = "cloudpilot" => c \in stuck
    BY <1>1 DEF OneAtATime, OwnersOK
  <1>3. ~Opened(c)
    BY Names DEF OneAtATime, Alone, Opened, Opens, OpenSteps
  <1>4. \A p \in Checkers : ~Checks(p, c)
    BY Names DEF OneAtATime, Alone, Checks, FsckSteps
  <1>5. owner[c] \in Owners
    BY DEF IInv, Data
  <1> QED
    BY <1>2, <1>3, <1>4, <1>5 DEF IInv, Claims, VfsClaims, FsckClaims, Owners

LEMMA Unowned ==
    ASSUME IInv, Sequential, Settled, NEW o \in Ops, OneAtATime(o), NEW c \in CardIds, Unmounted(c),
           ~Loads(o, c), ~Checks(o, c), ~InVfs(c), op[o].pc \notin OpenSteps
    PROVE  owner[c] = "none" \/ c \in stuck
  <1>1. Cur = current
    BY NothingWaits DEF Sequential
  <1>2. current.card # c
    BY <1>1, Nothing DEF Sequential, SessionOK, Unmounted, IInv, Data, Sessions
  <1> QED
    BY <1>2, UnownedHeld

LEMMA DeleteCardAlone ==
    ASSUME IInv, Sequential, NoOverlap, DeleteCard
    PROVE  Sequential'
  <1>1. PICK c : c = op["delete"].card
    OBVIOUS
  <1>2. /\ At("delete", "delCard") /\ op["delete"].pc = "delCard" /\ Settled /\ "delete" \in Ejectors
        /\ "delete" \in Ops \ Launches /\ "delete" \in Workers /\ "delCard" # "idle" /\ "delete" \notin Ejects
    BY Names, Kinds DEF DeleteCard, At, Workers, Ejects
  <1>3. OneAtATime("delete") /\ CardKnown("delete") /\ c \in CardIds
    BY <1>1, <1>2, Ejecting
  <1>4. Unmounted(c) /\ Exists(c) /\ ~InVfs(c)
    BY <1>1, <1>2, <1>3 DEF CardKnown, Attached, EjectFrom
  <1>5. \A d \in CardIds : ~Loads("delete", d) /\ ~Checks("delete", d)
    BY <1>2 DEF Loads, Checks, FsckSteps
  <1>6. owner[c] = "none" \/ stuck # {}
    BY <1>2, <1>3, <1>4, <1>5, Unowned DEF OpenSteps
  <1>7. CASE owner[c] # "none"
    BY <1>1, <1>6, <1>7, DieAlone DEF DeleteCard
  <1>8. CASE owner[c] = "none"
    <2>1. /\ disk' = [disk EXCEPT !.status[c] = Gone, !.health[c] = "unknown"]
          /\ vfs' = [vfs EXCEPT !.clip = IF @ = c THEN None ELSE @]
          /\ Finish("delete") /\ UNCHANGED <<owner, emu, stale, session, fate>>
      BY <1>1, <1>8 DEF DeleteCard
    <2>2. /\ Continue("delete", NotRunning) /\ StepKnown("delete")'
          /\ \A d \in CardIds : ~Loads("delete", d)' /\ ~Checks("delete", d)'
      BY <1>2, <2>1, Ended
    <2>3. /\ disk'.mounted = disk.mounted /\ disk'.status[c] = Gone
          /\ \A d \in CardIds \ {c} : disk'.status[d] = disk.status[d] /\ disk'.health[d] = disk.health[d]
      BY <1>3, <2>1 DEF IInv, Data, Disk
    <2>4. RecordsOK'
      BY <1>4, <2>3, CardsAssumption DEF Sequential, RecordsOK, Unmounted, Exists
    <2>5. /\ vfs'.primary = vfs.primary /\ vfs'.secondary = vfs.secondary
          /\ vfs'.clip = IF vfs.clip = c THEN None ELSE vfs.clip
      BY <2>1 DEF IInv, Data, Slots
    <2>6. \A d \in CardIds : InVfs(d)' \/ vfs'.clip = d => InVfs(d) \/ vfs.clip = d
      BY <2>5, Nothing DEF InVfs
    <2>7. /\ jobs' = jobs /\ current' = current /\ fatal' = fatal /\ emu' = emu /\ stale' = stale
          /\ stuck' = stuck /\ lost' = {} /\ owner' = owner /\ stuck \subseteq CardIds
      BY <2>1 DEF session, fate, Sequential, IInv, Data
    <2> QED
      BY <1>2, <1>5, <2>2, <2>3, <2>4, <2>6, <2>7, WorkAlone
  <1> QED
    BY <1>7, <1>8

-----------------------------------------------------------------------------
(***************************************************************************)
(* One operation at a time: check, and the checks before insert and        *)
(* browse.                                                                 *)
(***************************************************************************)

ClaimWaits == {"ccMounted", "ccCard", "ccCard2", "askRo"}
CheckerSteps == {"ccMounted", "ccCard", "ccCard2", "askRo", "fsLoader", "fsMounted", "fsCard",
                 "vfLoader"} \cup FsckSteps

\* What an operation that checks a card knows.
LEMMA Checking ==
    ASSUME IInv, Sequential, NEW o \in Checkers, NEW pc \in CheckerSteps, At(o, pc)
    PROVE  /\ o \in Ops \ Launches /\ o \in Workers /\ Settled /\ op[o].pc = pc /\ pc # "idle"
           /\ pc \notin Attached
           /\ OneAtATime(o) /\ StepKnown(o) /\ CardKnown(o) /\ op[o].card \in CardIds
           /\ Exists(op[o].card) /\ Unmounted(op[o].card) /\ MountedIn(op[o].card) = {}
           /\ Cur = current /\ Held = current.card /\ ~fatal /\ op[o] \in OpRecord
           /\ jobs = <<>> /\ stuck \subseteq CardIds
           /\ \A c \in CardIds : ~Loads(o, c)
           /\ \A c \in stuck : owner[c] \in {"cloudpilot", "fstools"} /\ ~Checks(o, c)
           /\ \A w \in Writers : op[w].pc \notin SyncSteps
  <1>1. o \in Ops \ Launches /\ o \in Workers /\ Settled /\ op[o].pc = pc
    BY Names, Kinds DEF At
  <1>2. /\ pc # "idle" /\ pc \notin Attached
        /\ pc \notin {"ldData", "mtStatus", "mtSession", "swOpen"} \cup SyncSteps
    BY DEF CheckerSteps, FsckSteps, Attached, EjectFrom, SyncSteps
  <1>3. OneAtATime(o)
    BY <1>1, <1>2, Acting
  <1>4. CardKnown(o) /\ StepKnown(o)
    BY <1>1, <1>3 DEF OneAtATime, StepKnown, Workers
  <1>5. op[o].card \in CardIds
    BY <1>1, <1>2, CardOf DEF Workers, CardOps
  <1>6. Exists(op[o].card) /\ Unmounted(op[o].card)
    BY <1>1, <1>2, <1>4 DEF CardKnown
  <1>7. Cur = current /\ Held = current.card /\ ~fatal /\ jobs = <<>>
    BY <1>1, NothingWaits DEF Sequential
  <1>8. op[o] \in OpRecord /\ stuck \subseteq CardIds
    BY <1>1 DEF IInv, Running, OpsOK, Data
  <1>9. \A c \in CardIds : ~Loads(o, c)
    BY <1>1, <1>2 DEF Loads
  <1>10. \A c \in stuck : owner[c] \in {"cloudpilot", "fstools"} /\ ~Checks(o, c)
    BY <1>3, <1>7, <1>8, StuckOwners DEF OneAtATime
  <1>11. \A w \in Writers : op[w].pc \notin SyncSteps
    BY <1>1, <1>2, <1>3, NoSync DEF OneAtATime
  <1>12. MountedIn(op[o].card) = {}
    BY <1>6, MountedInNone
  <1> QED
    BY <1>1, <1>2, <1>3, <1>4, <1>5, <1>6, <1>7, <1>8, <1>9, <1>10, <1>11, <1>12

\* What it knows at its next step.
LEMMA CheckerKnown ==
    ASSUME NEW o \in Checkers, StepKnown(o), op[o].pc \notin {"idle", "dlLoader"}, NEW c,
           op[o].card = c, op'[o].card = c,
           op'[o].pc \in CheckerSteps \cup {"mtMounted", "vfGet", "vfLoad"},
           Cur' = Cur, Exists(c)', Unmounted(c)', ~InVfs(c) => ~InVfs(c)',
           op'[o].pc = "fsStatus" => disk'.health[c] = op'[o].res,
           op'[o].pc = "apStatus" => disk'.health[c] = "ok"
    PROVE  StepKnown(o)'
  <1>1. CardKnown(o) /\ o \in Workers
    BY Kinds DEF StepKnown, Workers
  <1>2. op'[o].pc \notin Attached \cup {"ldGet", "ldData", "mtStatus", "mtSession"}
    BY DEF CheckerSteps, Attached, EjectFrom, FsckSteps
  <1>3. CardKnown(o)'
    BY <1>1, <1>2, Kinds DEF CardKnown, Attached
  <1> QED
    BY <1>1, <1>2, <1>3, Kinds DEF StepKnown, Workers, Attached

LEMMA ClaimStepNames ==
    ASSUME NEW o, NEW pc \in ClaimSteps(o)
    PROVE  pc \in {"idle", "ccCard", "fsLoader", "mtMounted", "vfLoader", "askRo"}
  BY DEF ClaimSteps, MountStep, SwitchStatus

LEMMA CheckAndClaimAlone ==
    ASSUME IInv, Sequential, NoOverlap, NEW o \in Checkers, CheckAndClaim(o)
    PROVE  Sequential'
  <1>1. PICK pc \in ClaimWaits : At(o, pc)
    BY DEF CheckAndClaim, ClaimWaits
  <1>2. PICK c : c = op[o].card
    OBVIOUS
  <1>3. PICK next \in ClaimSteps(o) :
          IF next # "mtMounted" THEN Goto(o, next) /\ OnlyMoves
          ELSE IF ~ReleaseOk(c) THEN Die
          ELSE Goto(o, next) /\ ReleaseCard(c) /\ UNCHANGED <<disk, emu, session, fate>>
    BY <1>2 DEF CheckAndClaim
  <1>4. pc \in CheckerSteps /\ pc \notin FsckSteps /\ pc # "dlLoader"
    BY DEF CheckerSteps, FsckSteps, ClaimWaits
  <1>5. /\ o \in Ops \ Launches /\ o \in Workers /\ Settled /\ op[o].pc = pc /\ pc # "idle"
        /\ OneAtATime(o) /\ StepKnown(o) /\ CardKnown(o) /\ c \in CardIds
        /\ Exists(c) /\ Unmounted(c) /\ Cur = current /\ jobs = <<>> /\ stuck \subseteq CardIds
        /\ \A d \in CardIds : ~Loads(o, d)
        /\ \A d \in stuck : owner[d] \in {"cloudpilot", "fstools"}
        /\ \A w \in Writers : op[w].pc \notin SyncSteps
    BY <1>1, <1>2, <1>4, Checking
  <1>6. next \in {"idle", "ccCard", "fsLoader", "mtMounted", "vfLoader", "askRo"}
    BY ClaimStepNames
  <1>7. CASE next = "idle"
    BY <1>3, <1>5, <1>7, EndAlone DEF Goto, Finish
  <1>8. CASE next \notin {"idle", "mtMounted"}
    <2>1. Goto(o, next) /\ OnlyMoves /\ next \in PlainSteps \ FsckSteps /\ next # "idle"
      BY <1>3, <1>6, <1>8 DEF PlainSteps, FsckSteps
    <2>2. op'[o].pc = next
      BY <1>5, <2>1, Record
    <2>3. SameUse(o)
      BY <1>1, <1>4, <1>5, <2>1, <2>2, SameUseAt DEF PlainSteps, FsckSteps, ClaimWaits
    <2> QED
      BY <1>2, <1>4, <1>5, <2>1, <2>3, WorkerMoves
  <1>9. CASE next = "mtMounted"
    <2>1. ReleaseOk(c)
      BY <1>5 DEF ReleaseOk, IInv, Claims, VfsClaims
    <2>2. Goto(o, "mtMounted") /\ ReleaseCard(c) /\ UNCHANGED <<disk, emu, session, fate>>
      BY <1>3, <1>9, <2>1
    <2>3. /\ Continue(o, [op[o] EXCEPT !.pc = "mtMounted"])
          /\ op'[o].pc = "mtMounted" /\ op'[o].card = c
      BY <1>2, <1>5, <2>2, Record
    <2>4. /\ \A d \in CardIds : InVfs(d)' <=> InVfs(d) /\ d # c
          /\ vfs'.clip = vfs.clip /\ stale' \subseteq stale
          /\ \A d \in CardIds : owner'[d] = "cloudpilot" <=> owner[d] = "cloudpilot"
          /\ \A d \in CardIds : owner[d] # "vfs" => owner'[d] = owner[d]
      BY <1>5, <2>2, ReleaseKeeps
    <2>5. /\ disk' = disk /\ jobs' = jobs /\ current' = current /\ fatal' = fatal /\ emu' = emu
          /\ stuck' = stuck /\ lost' = lost /\ Cur' = Cur
      BY <1>5, <2>2 DEF session, fate, Cur, Pending
    <2>6. RecordsOK' /\ lost' = {} /\ Exists(c)' /\ Unmounted(c)'
      BY <1>5, <2>5 DEF Sequential, RecordsOK, Unmounted, Exists
    <2>7. StepKnown(o)'
      BY <1>2, <1>4, <1>5, <2>3, <2>4, <2>5, <2>6, CheckerKnown
    <2>8. \A d \in CardIds : ~Loads(o, d)' /\ ~Checks(o, d)'
      BY <2>3 DEF Loads, Checks, FsckSteps
    <2> QED
      BY <1>5, <2>3, <2>4, <2>5, <2>6, <2>7, <2>8, WorkAlone
  <1> QED
    BY <1>6, <1>7, <1>8, <1>9

LEMMA LoaderShownAlone ==
    ASSUME IInv, Sequential, NoOverlap, NEW o \in Checkers, LoaderShown(o)
    PROVE  Sequential'
  <1>1. PICK pc \in {"fsLoader", "apLoader", "vfLoader"}, next \in {"fsMounted", "apData", "vfGet"} :
          /\ At(o, pc) /\ Goto(o, next) /\ OnlyMoves
          /\ next = "apData" => pc = "apLoader"
    BY DEF LoaderShown
  <1>2. pc \in CheckerSteps /\ pc # "dlLoader" /\ next \in PlainSteps /\ next # "idle"
    BY DEF CheckerSteps, FsckSteps, PlainSteps
  <1>3. /\ o \in Ops /\ o \in Workers /\ Settled /\ op[o].pc = pc /\ pc # "idle"
        /\ Unmounted(op[o].card)
    BY <1>1, <1>2, Checking
  <1>4. op'[o].pc = next /\ op'[o].card = op[o].card
    BY <1>1, <1>2, <1>3, Record
  <1>5. SameUse(o)
    BY <1>1, <1>3, <1>4 DEF SameUse, Loads, Checks, FsckSteps
  <1> QED
    BY <1>1, <1>2, <1>3, <1>5, WorkerMoves

LEMMA FsckClaimAlone ==
    ASSUME IInv, Sequential, NoOverlap, NEW o \in Checkers, FsckClaim(o)
    PROVE  Sequential'
  <1>1. PICK pc \in {"fsMounted", "fsCard"} : At(o, pc)
    BY DEF FsckClaim
  <1>2. PICK c : c = op[o].card
    OBVIOUS
  <1>4. pc \in CheckerSteps /\ pc \notin FsckSteps
    BY DEF CheckerSteps, FsckSteps
  <1>5. /\ o \in Ops \ Launches /\ o \in Workers /\ Settled /\ op[o].pc = pc /\ pc # "idle"
        /\ OneAtATime(o) /\ StepKnown(o) /\ CardKnown(o) /\ c \in CardIds
        /\ Exists(c) /\ Unmounted(c) /\ Cur = current /\ jobs = <<>> /\ stuck \subseteq CardIds
        /\ \A d \in CardIds : ~Loads(o, d)
        /\ \A d \in stuck : owner[d] \in {"cloudpilot", "fstools"}
        /\ \A w \in Writers : op[w].pc \notin SyncSteps /\ MountedIn(c) = {}
    BY <1>1, <1>2, <1>4, Checking
  <1>6. CASE pc = "fsMounted"
    <2>1. Goto(o, "fsCard") /\ OnlyMoves /\ "fsCard" \in PlainSteps \ FsckSteps
      BY <1>2, <1>5, <1>6, MountedInNone DEF FsckClaim, At, PlainSteps, FsckSteps
    <2>2. op'[o].pc = "fsCard"
      BY <1>5, <2>1, Record
    <2>3. SameUse(o)
      BY <1>5, <1>6, <2>2, SameUseAt DEF FsckSteps
    <2> QED
      BY <1>2, <1>5, <2>1, <2>3, WorkerMoves
  <1>7. CASE pc = "fsCard" /\ ~ClaimOk(c)
    <2>1. Die
      BY <1>2, <1>5, <1>7 DEF FsckClaim, At
    <2>2. ~InVfs(c) /\ owner[c] # "none"
      BY <1>5, <1>7, ReleaseShape DEF ClaimOk, ReleaseOk
    <2>3. ~Checks(o, c) /\ op[o].pc \notin OpenSteps
      BY <1>5, <1>7 DEF Checks, FsckSteps, OpenSteps
    <2>4. c \in stuck
      BY <1>5, <2>2, <2>3, Unowned
    <2> QED
      BY <2>1, <2>4, DieAlone
  <1>8. CASE pc = "fsCard" /\ ClaimOk(c)
    <2>1. /\ owner' = ClaimFor(c, "fstools") /\ vfs' = VfsWithout(c) /\ stale' = StaleWithout(c)
          /\ Goto(o, "fsCtx") /\ UNCHANGED <<disk, emu, session, fate>>
      BY <1>2, <1>5, <1>8 DEF FsckClaim, At
    <2>2. /\ Continue(o, [op[o] EXCEPT !.pc = "fsCtx"])
          /\ op'[o].pc = "fsCtx" /\ op'[o].card = c
      BY <1>2, <1>5, <2>1, Record
    <2>3. /\ VfsWithout(c).primary = IF vfs.primary = c THEN None ELSE vfs.primary
          /\ VfsWithout(c).secondary = IF vfs.secondary = c THEN None ELSE vfs.secondary
          /\ VfsWithout(c).clip = vfs.clip
          /\ \A d \in CardIds : OwnerWithout(c)[d] = IF d = c /\ InVfs(c) THEN "none" ELSE owner[d]
          /\ \A d \in CardIds : InVfs(d) => owner[d] = "vfs"
      BY <1>5, ReleaseShape
    <2>4. OwnerWithout(c) \in [CardIds -> Owners]
      BY <1>5, ReleaseTypes
    <2>5. owner'[c] = "fstools" /\ \A d \in CardIds \ {c} : owner'[d] = owner[d]
      BY <1>5, <2>1, <2>3, <2>4 DEF ClaimFor
    <2>6. owner[c] \in {"none", "vfs"} /\ c \notin stuck
      BY <1>5, <1>8, <2>3 DEF ClaimOk
    <2>7. \A d \in CardIds : owner'[d] = "cloudpilot" <=> owner[d] = "cloudpilot"
      BY <2>5, <2>6
    <2>8. \A d \in CardIds : InVfs(d)' => InVfs(d)
      BY <2>1, <2>3, Nothing DEF InVfs
    <2>9. stale' \subseteq stale
      BY <1>5, <2>1 DEF StaleWithout
    <2>10. /\ disk' = disk /\ jobs' = jobs /\ current' = current /\ fatal' = fatal /\ emu' = emu
           /\ stuck' = stuck /\ lost' = lost /\ Cur' = Cur /\ vfs'.clip = vfs.clip
      BY <1>5, <2>1, <2>3 DEF session, fate, Cur, Pending
    <2>11. RecordsOK' /\ lost' = {} /\ Exists(c)' /\ Unmounted(c)'
      BY <1>5, <2>10 DEF Sequential, RecordsOK, Unmounted, Exists
    <2>12. StepKnown(o)'
      BY <1>2, <1>5, <2>2, <2>8, <2>10, <2>11, CheckerKnown DEF CheckerSteps, FsckSteps
    <2>13. \A d \in CardIds : ~Loads(o, d)' /\ (Checks(o, d)' => d = c)
      BY <2>2 DEF Loads, Checks
    <2>14. \A d \in stuck : owner'[d] = owner[d] /\ ~Checks(o, d)'
      BY <1>5, <2>5, <2>6, <2>13
    <2> QED
      BY <1>5, <2>2, <2>7, <2>8, <2>9, <2>10, <2>11, <2>12, <2>13, <2>14, WorkAlone
  <1> QED
    BY <1>1, <1>6, <1>7, <1>8

\* What an operation knows that holds a card for fstools.
LEMMA FsckHolds ==
    ASSUME IInv, Sequential, NEW o \in Checkers, NEW pc \in FsckSteps, At(o, pc)
    PROVE  /\ o \in Ops \ Launches /\ o \in Workers /\ Settled /\ op[o].pc = pc /\ pc # "idle"
           /\ OneAtATime(o) /\ StepKnown(o) /\ CardKnown(o) /\ op[o].card \in CardIds
           /\ Exists(op[o].card) /\ Unmounted(op[o].card) /\ Cur = current /\ jobs = <<>>
           /\ stuck \subseteq CardIds /\ op[o] \in OpRecord
           /\ owner[op[o].card] = "fstools" /\ op[o].card \notin stuck
           /\ \A d \in CardIds : ~Loads(o, d)
  <1>1. pc \in CheckerSteps
    BY DEF CheckerSteps
  <1>2. /\ o \in Ops \ Launches /\ o \in Workers /\ Settled /\ op[o].pc = pc /\ pc # "idle"
        /\ OneAtATime(o) /\ StepKnown(o) /\ CardKnown(o) /\ op[o].card \in CardIds
        /\ Exists(op[o].card) /\ Unmounted(op[o].card) /\ Cur = current /\ jobs = <<>>
        /\ stuck \subseteq CardIds /\ op[o] \in OpRecord
        /\ \A d \in CardIds : ~Loads(o, d)
        /\ \A d \in stuck : ~Checks(o, d)
    BY <1>1, Checking
  <1>3. owner[op[o].card] = "fstools"
    BY AtFsck
  <1>4. op[o].card \notin stuck
    BY <1>2 DEF Checks
  <1> QED
    BY <1>2, <1>3, <1>4

\* The operation goes on and holds the card, or has released it.
LEMMA FsckGoes ==
    ASSUME IInv, Sequential, NoOverlap, NEW o \in Checkers, NEW pc \in FsckSteps, At(o, pc),
           NEW c, c = op[o].card, NEW rec, Continue(o, rec),
           UNCHANGED <<jobs, current, fatal, emu, vfs>>, disk'.mounted = disk.mounted,
           RecordsOK', lost' = {}, Exists(c)', StepKnown(o)',
           \A x \in stale' : x \in stale \/ (x[1] = "emu" /\ current.id = None),
           \A d \in CardIds : ~Loads(o, d)',
           \A d \in CardIds \ {c} : owner'[d] = owner[d] /\ ~Checks(o, d)',
           \/ stuck' = stuck /\ owner'[c] \in {"none", "fstools"}
           \/ stuck' = stuck \cup {c} /\ owner'[c] = "fstools" /\ ~Checks(o, c)'
    PROVE  Sequential'
  <1>1. /\ o \in Ops \ Launches /\ Settled /\ op[o].pc # "idle" /\ c \in CardIds
        /\ stuck \subseteq CardIds /\ owner[c] = "fstools" /\ c \notin stuck
        /\ \A d \in CardIds : ~Loads(o, d)
    BY FsckHolds
  <1>2. \A d \in CardIds : owner'[d] = "cloudpilot" <=> owner[d] = "cloudpilot"
    BY <1>1
  <1>3. /\ \A d \in stuck : d \in stuck'
        /\ \A d \in stuck' : /\ ~Checks(o, d)'
                             /\ (d \in stuck /\ owner'[d] = owner[d]) \/ owner'[d] = "fstools"
    BY <1>1
  <1>4. \A d \in CardIds : InVfs(d)' \/ vfs'.clip = d => InVfs(d) \/ vfs.clip = d
    BY DEF InVfs
  <1> QED
    BY <1>1, <1>2, <1>3, <1>4, WorkAlone

\* The record of an operation that goes to a step or ends.
LEMMA Goes ==
    ASSUME IInv, NEW o \in Ops, NEW pc, Goto(o, pc)
    PROVE  /\ \E rec : Continue(o, rec)
           /\ op'[o].pc = pc
           /\ pc # "idle" => op'[o].card = op[o].card /\ op'[o].res = op[o].res
           /\ pc = "idle" => StepKnown(o)' /\ \A d \in CardIds : ~Loads(o, d)' /\ ~Checks(o, d)'
  <1>1. CASE pc = "idle"
    <2>1. Finish(o)
      BY <1>1 DEF Goto, Finish
    <2>2. /\ Continue(o, NotRunning) /\ op'[o].pc = "idle" /\ StepKnown(o)'
          /\ \A d \in CardIds : ~Loads(o, d)' /\ ~Checks(o, d)'
      BY <2>1, Ended
    <2> QED
      BY <1>1, <2>2
  <1>2. CASE pc # "idle"
    <2>1. /\ Continue(o, [op[o] EXCEPT !.pc = pc]) /\ op'[o].pc = pc
          /\ op'[o].card = op[o].card /\ op'[o].res = op[o].res
      BY <1>2, Record
    <2> QED
      BY <1>2, <2>1
  <1> QED
    BY <1>1, <1>2

LEMMA FsckContextAlone ==
    ASSUME IInv, Sequential, NoOverlap, NEW o \in Checkers, FsckContext(o)
    PROVE  Sequential'
  <1>1. At(o, "fsCtx") /\ "fsCtx" \in FsckSteps
    BY DEF FsckContext, FsckSteps
  <1>2. PICK c : c = op[o].card
    OBVIOUS
  <1>3. /\ o \in Ops \ Launches /\ o \in Workers /\ Settled /\ op[o].pc = "fsCtx"
        /\ c \in CardIds /\ Exists(c) /\ Unmounted(c) /\ stuck \subseteq CardIds
        /\ owner[c] = "fstools" /\ \A d \in CardIds : ~Loads(o, d)
    BY <1>1, <1>2, FsckHolds
  <1>4. CASE Goto(o, "fsLoad") /\ UNCHANGED stuck
    <2>1. OnlyMoves /\ "fsLoad" \in PlainSteps
      BY <1>4 DEF FsckContext, OnlyMoves, fate, PlainSteps
    <2>2. op'[o].pc = "fsLoad" /\ op'[o].card = c
      BY <1>2, <1>3, <1>4, Record
    <2>3. SameUse(o)
      BY <1>2, <1>3, <2>2 DEF SameUse, Loads, Checks, FsckSteps
    <2> QED
      BY <1>2, <1>3, <1>4, <2>1, <2>3, WorkerMoves
  <1>5. CASE Finish(o) /\ stuck' = stuck \cup {op[o].card}
    <2>1. /\ Continue(o, NotRunning) /\ StepKnown(o)'
          /\ \A d \in CardIds : ~Loads(o, d)' /\ ~Checks(o, d)'
      BY <1>3, <1>5, Ended
    <2>2. /\ disk' = disk /\ owner' = owner /\ emu' = emu /\ vfs' = vfs /\ stale' = stale
          /\ jobs' = jobs /\ current' = current /\ fatal' = fatal /\ lost' = lost
      BY DEF FsckContext, copies, session
    <2>3. RecordsOK' /\ lost' = {} /\ Exists(c)'
      BY <1>3, <2>2 DEF Sequential, RecordsOK, Unmounted, Exists
    <2> QED
      BY <1>1, <1>2, <1>3, <1>5, <2>1, <2>2, <2>3, FsckGoes
  <1> QED
    BY <1>4, <1>5 DEF FsckContext

\* What is known of the image of a card changes: a clean one stays sound.
LEMMA HealthRecords ==
    ASSUME IInv, RecordsOK, NEW c \in CardIds, NEW h, disk' = [disk EXCEPT !.health[c] = h],
           h = "ok" \/ (disk.health[c] # "ok" /\ c \notin NoFsck) \/ disk.status[c] # "clean" \/ c \in NoFsck
    PROVE  /\ RecordsOK' /\ disk'.mounted = disk.mounted /\ disk'.status = disk.status
           /\ disk'.health[c] = h
           /\ \A d \in CardIds : (Exists(d)' <=> Exists(d)) /\ (Unmounted(d)' <=> Unmounted(d))
  <1>1. /\ disk'.mounted = disk.mounted /\ disk'.status = disk.status
        /\ disk'.health = [disk.health EXCEPT ![c] = h] /\ DOMAIN disk.health = CardIds
    BY DEF IInv, Data, Disk
  <1>2. disk'.health[c] = h /\ \A d \in CardIds \ {c} : disk'.health[d] = disk.health[d]
    BY <1>1
  <1>3. \A d \in CardIds : (Exists(d)' <=> Exists(d)) /\ (Unmounted(d)' <=> Unmounted(d))
    BY <1>1 DEF Exists, Unmounted
  <1>4. RecordsOK'
    BY <1>1, <1>2, <1>3 DEF RecordsOK
  <1> QED
    BY <1>1, <1>2, <1>3, <1>4

LEMMA FsckLoadAlone ==
    ASSUME IInv, Sequential, NoOverlap, NEW o \in Checkers, FsckLoad(o)
    PROVE  Sequential'
  <1>1. At(o, "fsLoad") /\ "fsLoad" \in FsckSteps
    BY DEF FsckLoad, FsckSteps
  <1>2. PICK c : c = op[o].card
    OBVIOUS
  <1>3. /\ o \in Ops \ Launches /\ Settled /\ op[o].pc = "fsLoad" /\ StepKnown(o)
        /\ c \in CardIds /\ Exists(c) /\ Unmounted(c) /\ owner[c] = "fstools" /\ op[o] \in OpRecord
        /\ Cur = current /\ jobs = <<>> /\ \A d \in CardIds : ~Loads(o, d)
    BY <1>1, <1>2, FsckHolds
  <1>4. PICK res \in IF disk.health[c] = "unknown" THEN FsckResult ELSE {disk.health[c]} :
          /\ Continue(o, [op[o] EXCEPT !.pc = "fsStatus", !.res = res])
          /\ disk' = [disk EXCEPT !.health[c] = res]
    BY <1>2, <1>3 DEF FsckLoad
  <1>5. /\ stale' = stale \ {<<o, c>>} /\ owner' = owner /\ emu' = emu /\ vfs' = vfs
        /\ jobs' = jobs /\ current' = current /\ fatal' = fatal /\ lost' = lost /\ stuck' = stuck
    BY <1>2, <1>3 DEF FsckLoad, session, fate
  <1> DEFINE rec == [op[o] EXCEPT !.pc = "fsStatus", !.res = res]
  <1>6. rec.pc = "fsStatus" /\ rec.card = c /\ rec.res = res /\ Continue(o, rec)
    BY <1>2, <1>3, <1>4 DEF OpRecord
  <1> HIDE DEF rec
  <1>7. op'[o] = rec
    BY <1>3, <1>6 DEF Continue, IInv, Running, OpsOK
  <1>8. res = "ok" \/ (disk.health[c] # "ok" /\ c \notin NoFsck) \/ disk.status[c] # "clean" \/ c \in NoFsck
    BY <1>3, <1>4 DEF Sequential, RecordsOK
  <1>9. /\ RecordsOK' /\ disk'.mounted = disk.mounted /\ disk'.health[c] = res
        /\ \A d \in CardIds : (Exists(d)' <=> Exists(d)) /\ (Unmounted(d)' <=> Unmounted(d))
    BY <1>3, <1>4, <1>8, HealthRecords DEF Sequential
  <1>10. Cur' = Cur /\ lost' = {}
    BY <1>3, <1>5 DEF Cur, Pending, Sequential
  <1>11. StepKnown(o)'
    BY <1>2, <1>3, <1>5, <1>6, <1>7, <1>9, <1>10, CheckerKnown DEF CheckerSteps, FsckSteps, InVfs
  <1>12. /\ \A d \in CardIds : ~Loads(o, d)'
         /\ \A d \in CardIds \ {c} : ~Checks(o, d)'
    BY <1>6, <1>7 DEF Loads, Checks
  <1> QED
    BY <1>1, <1>2, <1>3, <1>5, <1>6, <1>9, <1>10, <1>11, <1>12, FsckGoes

LEMMA FsckStatusAlone ==
    ASSUME IInv, Sequential, NoOverlap, NEW o \in Checkers, FsckStatus(o)
    PROVE  Sequential'
  <1>1. At(o, "fsStatus") /\ "fsStatus" \in FsckSteps
    BY DEF FsckStatus, FsckSteps
  <1>2. PICK c : c = op[o].card
    OBVIOUS
  <1>3. /\ o \in Ops \ Launches /\ Settled /\ op[o].pc = "fsStatus" /\ StepKnown(o) /\ CardKnown(o)
        /\ c \in CardIds /\ Exists(c) /\ Unmounted(c) /\ owner[c] = "fstools"
        /\ Cur = current /\ jobs = <<>> /\ \A d \in CardIds : ~Loads(o, d)
    BY <1>1, <1>2, FsckHolds
  <1>4. PICK fixed \in BOOLEAN : fixed <=> op[o].res = "fixed"
    OBVIOUS
  <1>5. PICK next : next = IF fixed THEN "askFix" ELSE IF o = "check" THEN "idle" ELSE "ccCard2"
    OBVIOUS
  <1>6. /\ disk' = WithStatus(c, StatusAfterFsck(op[o].res))
        /\ owner' = IF fixed THEN owner ELSE [owner EXCEPT ![c] = "none"]
        /\ Goto(o, next) /\ UNCHANGED <<emu, vfs, stale, session, fate>>
    BY <1>2, <1>3, <1>4, <1>5 DEF FsckStatus
  <1>7. disk.health[c] = op[o].res /\ op[o].res \in FsckResult
    BY <1>2, <1>3 DEF CardKnown, IInv, Running, OpsOK, Fits
  <1>8. /\ StatusAfterFsck(op[o].res) \in Status
        /\ StatusAfterFsck(op[o].res) = "clean" => op[o].res = "ok"
    BY <1>7 DEF StatusAfterFsck, FsckResult, Status
  <1>9. /\ RecordsOK' /\ disk'.mounted = disk.mounted /\ disk'.health = disk.health
        /\ \A d \in CardIds : (Exists(d) => Exists(d)') /\ (Unmounted(d) <=> Unmounted(d)')
    BY <1>3, <1>6, <1>7, <1>8, StatusRecords DEF Sequential
  <1>10. PICK rec : Continue(o, rec)
    BY <1>3, <1>6, Goes
  <1>11. /\ op'[o].pc = next
         /\ next # "idle" => op'[o].card = c
         /\ next = "idle" => StepKnown(o)' /\ \A d \in CardIds : ~Loads(o, d)' /\ ~Checks(o, d)'
    BY <1>2, <1>3, <1>6, Goes
  <1>12. /\ jobs' = jobs /\ current' = current /\ fatal' = fatal /\ lost' = {} /\ stuck' = stuck
         /\ Cur' = Cur /\ emu' = emu /\ vfs' = vfs /\ stale' = stale
    BY <1>3, <1>6 DEF session, fate, Cur, Pending, Sequential
  <1>13. StepKnown(o)'
    <2>1. CASE next = "idle"
      BY <1>11, <2>1
    <2>2. CASE next # "idle"
      <3>1. next \in {"askFix", "ccCard2"} /\ next \in CheckerSteps
        BY <1>5, <2>2 DEF CheckerSteps, FsckSteps
      <3> QED
        BY <1>2, <1>3, <1>9, <1>11, <1>12, <2>2, <3>1, CheckerKnown DEF InVfs
    <2> QED
      BY <2>1, <2>2
  <1>14. /\ \A d \in CardIds : ~Loads(o, d)'
         /\ \A d \in CardIds \ {c} : ~Checks(o, d)'
    BY <1>5, <1>11 DEF Loads, Checks
  <1>15. owner'[c] \in {"none", "fstools"} /\ \A d \in CardIds \ {c} : owner'[d] = owner[d]
    BY <1>3, <1>6 DEF IInv, Data
  <1> QED
    BY <1>1, <1>2, <1>3, <1>9, <1>10, <1>12, <1>13, <1>14, <1>15, FsckGoes

LEMMA AnswerFixAlone ==
    ASSUME IInv, Sequential, NoOverlap, NEW o \in Checkers, AnswerFix(o)
    PROVE  Sequential'
  <1>1. At(o, "askFix") /\ "askFix" \in FsckSteps
    BY DEF AnswerFix, FsckSteps
  <1>2. PICK c : c = op[o].card
    OBVIOUS
  <1>3. /\ o \in Ops \ Launches /\ o \in Workers /\ Settled /\ op[o].pc = "askFix"
        /\ c \in CardIds /\ Exists(c) /\ Unmounted(c) /\ owner[c] = "fstools"
        /\ \A d \in CardIds : ~Loads(o, d)
    BY <1>1, <1>2, FsckHolds
  <1>4. CASE Goto(o, "apLoader") /\ OnlyMoves
    <2>1. "apLoader" \in PlainSteps
      BY DEF PlainSteps
    <2>2. op'[o].pc = "apLoader" /\ op'[o].card = c
      BY <1>2, <1>3, <1>4, Record
    <2>3. SameUse(o)
      BY <1>2, <1>3, <2>2 DEF SameUse, Loads, Checks, FsckSteps
    <2> QED
      BY <1>2, <1>3, <1>4, <2>1, <2>3, WorkerMoves
  <1>5. CASE /\ owner' = [owner EXCEPT ![c] = "none"] /\ Finish(o)
             /\ UNCHANGED <<disk, emu, vfs, stale, session, fate>>
    <2>1. /\ Continue(o, NotRunning) /\ StepKnown(o)'
          /\ \A d \in CardIds : ~Loads(o, d)' /\ ~Checks(o, d)'
      BY <1>3, <1>5, Ended
    <2>2. /\ disk' = disk /\ emu' = emu /\ vfs' = vfs /\ stale' = stale /\ stuck' = stuck
          /\ jobs' = jobs /\ current' = current /\ fatal' = fatal /\ lost' = lost
      BY <1>5 DEF session, fate
    <2>3. RecordsOK' /\ lost' = {} /\ Exists(c)'
      BY <1>3, <2>2 DEF Sequential, RecordsOK, Unmounted, Exists
    <2>4. owner'[c] = "none" /\ \A d \in CardIds \ {c} : owner'[d] = owner[d]
      BY <1>3, <1>5 DEF IInv, Data
    <2> QED
      BY <1>1, <1>2, <1>3, <2>1, <2>2, <2>3, <2>4, FsckGoes
  <1> QED
    BY <1>2, <1>3, <1>4, <1>5 DEF AnswerFix

\* The copies of a card in no session that are outdated by a write.
LEMMA WroteAlone ==
    ASSUME IInv, Sequential, Settled, NEW o \in Ops \ Launches, OneAtATime(o),
           \A d \in CardIds : ~Loads(o, d),
           NEW c \in CardIds, Unmounted(c), NEW h \in Ops \cup {"vfs"}, Wrote(h, c),
           h # "vfs" => ~InVfs(c), h # o => op[o].res = None
    PROVE  lost' = {} /\ \A x \in stale' : x \in stale \/ (x[1] = "emu" /\ current.id = None)
  <1>1. "emu" \notin Ops \cup {"vfs"}
    BY DEF Ops, Ejects, Rewriters, Launches, Writers
  <1>2. <<h, c>> \notin stale
    BY <1>1 DEF OneAtATime, CopiesOK
  <1>3. Cur = current
    BY NothingWaits DEF Sequential
  <1>4. c \in emu.images => current.id = None
    BY <1>3 DEF OneAtATime, EmulatorOK, Sequential, SessionOK, Unmounted, IInv, Data, Sessions
  <1>5. \A p \in Ops : op[p].res # None => p = h
    BY DEF OneAtATime, Alone
  <1>6. \A k \in CopiesOf(c) \ {h} : k = "emu" /\ current.id = None
    BY <1>4, <1>5 DEF CopiesOf
  <1>7. \A x \in stale' : x \in stale \/ \E k \in CopiesOf(c) \ {h} : x = <<k, c>>
    BY DEF Wrote
  <1>8. lost' = {}
    BY <1>2 DEF Wrote, Sequential
  <1> QED
    BY <1>6, <1>7, <1>8

LEMMA ApplyDataAlone ==
    ASSUME IInv, Sequential, NoOverlap, NEW o \in Checkers, ApplyData(o)
    PROVE  Sequential'
  <1>1. At(o, "apData") /\ "apData" \in FsckSteps
    BY DEF ApplyData, FsckSteps
  <1>2. PICK c : c = op[o].card
    OBVIOUS
  <1>3. /\ o \in Ops \ Launches /\ Settled /\ op[o].pc = "apData" /\ StepKnown(o) /\ OneAtATime(o)
        /\ c \in CardIds /\ Exists(c) /\ Unmounted(c) /\ owner[c] = "fstools"
        /\ Cur = current /\ jobs = <<>> /\ \A d \in CardIds : ~Loads(o, d)
    BY <1>1, <1>2, FsckHolds
  <1>4. CASE /\ disk' = [disk EXCEPT !.health[c] = "ok"] /\ Wrote(o, c) /\ Goto(o, "apStatus")
             /\ UNCHANGED <<owner, emu, vfs, session, stuck, fatal>>
    <2>1. /\ Continue(o, [op[o] EXCEPT !.pc = "apStatus"])
          /\ op'[o].pc = "apStatus" /\ op'[o].card = c
      BY <1>2, <1>3, <1>4, Record
    <2>2. ~InVfs(c)
      BY <1>3 DEF IInv, Claims, VfsClaims
    <2>3. lost' = {} /\ \A x \in stale' : x \in stale \/ (x[1] = "emu" /\ current.id = None)
      BY <1>3, <1>4, <2>2, WroteAlone
    <2>4. /\ RecordsOK' /\ disk'.mounted = disk.mounted /\ disk'.health[c] = "ok"
          /\ \A d \in CardIds : (Exists(d)' <=> Exists(d)) /\ (Unmounted(d)' <=> Unmounted(d))
      BY <1>3, <1>4, HealthRecords DEF Sequential
    <2>5. jobs' = jobs /\ current' = current /\ Cur' = Cur /\ vfs' = vfs
      BY <1>3, <1>4 DEF session, Cur, Pending
    <2>6. StepKnown(o)'
      BY <1>2, <1>3, <2>1, <2>4, <2>5, CheckerKnown DEF CheckerSteps, FsckSteps, InVfs
    <2>7. /\ \A d \in CardIds : ~Loads(o, d)'
          /\ \A d \in CardIds \ {c} : ~Checks(o, d)'
      BY <2>1 DEF Loads, Checks
    <2> QED
      BY <1>1, <1>2, <1>3, <1>4, <2>1, <2>3, <2>4, <2>5, <2>6, <2>7, FsckGoes
  <1>5. CASE /\ stuck' = stuck \cup {c} /\ Finish(o) /\ UNCHANGED <<disk, copies, session, lost, fatal>>
    <2>1. /\ Continue(o, NotRunning) /\ StepKnown(o)'
          /\ \A d \in CardIds : ~Loads(o, d)' /\ ~Checks(o, d)'
      BY <1>3, <1>5, Ended
    <2>2. /\ disk' = disk /\ owner' = owner /\ emu' = emu /\ vfs' = vfs /\ stale' = stale
          /\ jobs' = jobs /\ current' = current /\ fatal' = fatal /\ lost' = lost
      BY <1>5 DEF copies, session
    <2>3. RecordsOK' /\ lost' = {} /\ Exists(c)'
      BY <1>3, <2>2 DEF Sequential, RecordsOK, Unmounted, Exists
    <2> QED
      BY <1>1, <1>2, <1>3, <1>5, <2>1, <2>2, <2>3, FsckGoes
  <1> QED
    BY <1>2, <1>3, <1>4, <1>5 DEF ApplyData

LEMMA ApplyStatusAlone ==
    ASSUME IInv, Sequential, NoOverlap, NEW o \in Checkers, ApplyStatus(o)
    PROVE  Sequential'
  <1>1. At(o, "apStatus") /\ "apStatus" \in FsckSteps
    BY DEF ApplyStatus, FsckSteps
  <1>2. PICK c : c = op[o].card
    OBVIOUS
  <1>3. /\ o \in Ops \ Launches /\ Settled /\ op[o].pc = "apStatus" /\ StepKnown(o) /\ CardKnown(o)
        /\ c \in CardIds /\ Exists(c) /\ Unmounted(c) /\ owner[c] = "fstools"
        /\ Cur = current /\ jobs = <<>> /\ \A d \in CardIds : ~Loads(o, d)
    BY <1>1, <1>2, FsckHolds
  <1>4. PICK next : next = IF o = "check" THEN "idle" ELSE "ccCard2"
    OBVIOUS
  <1>5. /\ disk' = WithStatus(c, "clean") /\ owner' = [owner EXCEPT ![c] = "none"]
        /\ Goto(o, next) /\ UNCHANGED <<emu, vfs, stale, session, fate>>
    BY <1>2, <1>3, <1>4 DEF ApplyStatus
  <1>6. disk.health[c] = "ok" /\ "clean" \in Status
    BY <1>2, <1>3 DEF CardKnown, Status
  <1>7. /\ RecordsOK' /\ disk'.mounted = disk.mounted /\ disk'.health = disk.health
        /\ \A d \in CardIds : (Exists(d) => Exists(d)') /\ (Unmounted(d) <=> Unmounted(d)')
    BY <1>3, <1>5, <1>6, StatusRecords DEF Sequential
  <1>8. PICK rec : Continue(o, rec)
    BY <1>3, <1>5, Goes
  <1>9. /\ op'[o].pc = next
        /\ next # "idle" => op'[o].card = c
        /\ next = "idle" => StepKnown(o)' /\ \A d \in CardIds : ~Loads(o, d)' /\ ~Checks(o, d)'
    BY <1>2, <1>3, <1>5, Goes
  <1>10. /\ jobs' = jobs /\ current' = current /\ fatal' = fatal /\ lost' = {} /\ stuck' = stuck
         /\ Cur' = Cur /\ emu' = emu /\ vfs' = vfs /\ stale' = stale
    BY <1>3, <1>5 DEF session, fate, Cur, Pending, Sequential
  <1>11. StepKnown(o)'
    <2>1. CASE next = "idle"
      BY <1>9, <2>1
    <2>2. CASE next # "idle"
      <3>1. next = "ccCard2" /\ next \in CheckerSteps
        BY <1>4, <2>2 DEF CheckerSteps
      <3> QED
        BY <1>2, <1>3, <1>7, <1>9, <1>10, <2>2, <3>1, CheckerKnown DEF InVfs
    <2> QED
      BY <2>1, <2>2
  <1>12. /\ \A d \in CardIds : ~Loads(o, d)'
         /\ \A d \in CardIds \ {c} : ~Checks(o, d)'
    BY <1>4, <1>9 DEF Loads, Checks
  <1>13. owner'[c] \in {"none", "fstools"} /\ \A d \in CardIds \ {c} : owner'[d] = owner[d]
    BY <1>3, <1>5 DEF IInv, Data
  <1> QED
    BY <1>1, <1>2, <1>3, <1>7, <1>8, <1>10, <1>11, <1>12, <1>13, FsckGoes

-----------------------------------------------------------------------------
(***************************************************************************)
(* One operation at a time: loading a card into the emulator.              *)
(***************************************************************************)

InsertSteps == {"mtMounted", "mtLoader", "ldGet", "ldData", "mtStatus", "mtSession"}

\* What an insertion knows.
LEMMA Inserting ==
    ASSUME IInv, Sequential, NEW pc \in InsertSteps, At("insert", pc)
    PROVE  /\ "insert" \in Ops \ Launches /\ "insert" \in Workers /\ Settled
           /\ op["insert"].pc = pc /\ pc # "idle"
           /\ OneAtATime("insert") /\ StepKnown("insert") /\ CardKnown("insert")
           /\ op["insert"].card \in CardIds /\ Exists(op["insert"].card) /\ Unmounted(op["insert"].card)
           /\ Cur = current /\ Held = current.card /\ ~fatal /\ jobs = <<>> /\ mutex = None
           /\ current.id \in SessionIds /\ current.card = None /\ disk.mounted[current.id] = None
           /\ emu.key = None /\ stale = {} /\ op["insert"] \in OpRecord
           /\ \A d \in CardIds : d \in emu.images <=> Loads("insert", d)
           /\ stuck \subseteq CardIds
           /\ \A d \in stuck : owner[d] \in {"cloudpilot", "fstools"}
           /\ \A w \in Writers : op[w].pc \notin SyncSteps
  <1>1. "insert" \in Ops \ Launches /\ "insert" \in Workers /\ Settled /\ op["insert"].pc = pc
    BY Names, Kinds DEF At, Workers
  <1>2. pc # "idle" /\ pc \notin Attached /\ pc \notin SyncSteps
    BY DEF InsertSteps, Attached, EjectFrom, SyncSteps
  <1>3. OneAtATime("insert")
    BY <1>1, <1>2, Acting
  <1>4. CardKnown("insert") /\ StepKnown("insert")
    BY <1>1, <1>3 DEF OneAtATime, StepKnown, Workers
  <1>5. op["insert"].card \in CardIds
    BY <1>1, <1>2, CardOf DEF CardOps
  <1>6. Exists(op["insert"].card) /\ Unmounted(op["insert"].card)
    BY <1>1, <1>2, <1>4 DEF CardKnown
  <1>7. Cur = current /\ Held = current.card /\ ~fatal /\ jobs = <<>>
    BY <1>1, NothingWaits DEF Sequential
  <1>8. /\ op["insert"] \in OpRecord /\ stuck \subseteq CardIds /\ current \in Sessions
    BY <1>1 DEF IInv, Running, OpsOK, Data
  <1>9. current.id \in SessionIds /\ current.card = None /\ disk.mounted[current.id] = None
    BY <1>1, <1>2, <1>4, <1>7, <1>8 DEF CardKnown, Sessions, Sequential, SessionOK
  <1>10. /\ emu.key = None /\ stale = {} /\ \A d \in CardIds : d \in emu.images <=> Loads("insert", d)
    BY <1>3, <1>7, <1>9, Nothing DEF OneAtATime, EmulatorOK, CopiesOK
  <1>11. \A d \in stuck : owner[d] \in {"cloudpilot", "fstools"}
    BY <1>3, <1>7, <1>8, StuckOwners DEF OneAtATime
  <1>12. \A w \in Writers : op[w].pc \notin SyncSteps
    BY <1>1, <1>2, <1>3, NoSync DEF OneAtATime
  <1>13. mutex = None
    BY <1>1, <1>3, NoMutex DEF OneAtATime
  <1> QED
    BY <1>1, <1>2, <1>3, <1>4, <1>5, <1>6, <1>7, <1>8, <1>9, <1>10, <1>11, <1>12, <1>13

\* What it knows at its next step.
LEMMA InsertKnown ==
    ASSUME StepKnown("insert"), op["insert"].pc # "idle", NEW c, op'["insert"].card = c,
           op'["insert"].pc \in InsertSteps, op'["insert"].ses = Cur.id,
           Cur' = Cur, Exists(c)', Unmounted(c)',
           op'["insert"].pc = "mtSession" => disk'.status[c] # "clean"
    PROVE  StepKnown("insert")'
  <1>1. CardKnown("insert") /\ "insert" \in Workers
    BY Kinds DEF StepKnown, Workers
  <1>2. op'["insert"].pc \notin Attached
    BY DEF InsertSteps, Attached, EjectFrom
  <1>3. CardKnown("insert")'
    BY <1>1, <1>2 DEF CardKnown, Attached, InsertSteps
  <1> QED
    BY <1>1, <1>2, <1>3, Kinds DEF StepKnown, Workers, Attached, Checkers

LEMMA MountCheckAlone ==
    ASSUME IInv, Sequential, NoOverlap, MountCheck
    PROVE  Sequential'
  <1>1. At("insert", "mtMounted") /\ "mtMounted" \in InsertSteps
    BY DEF MountCheck, InsertSteps
  <1>2. /\ "insert" \in Ops /\ "insert" \in Workers /\ Settled /\ op["insert"].pc = "mtMounted"
        /\ Unmounted(op["insert"].card) /\ MountedIn(op["insert"].card) = {}
    BY <1>1, Inserting, MountedInNone
  <1>3. Goto("insert", "mtLoader") /\ OnlyMoves /\ "mtLoader" \in PlainSteps
    BY <1>2 DEF MountCheck, PlainSteps
  <1>4. op'["insert"].pc = "mtLoader"
    BY <1>2, <1>3, Record
  <1>5. SameUse("insert")
    BY <1>2, <1>4, SameUseAt DEF FsckSteps
  <1> QED
    BY <1>2, <1>3, <1>5, WorkerMoves

LEMMA MountReleaseAlone ==
    ASSUME IInv, Sequential, NoOverlap, MountRelease
    PROVE  Sequential'
  <1>1. At("insert", "mtLoader") /\ "mtLoader" \in InsertSteps
    BY DEF MountRelease, InsertSteps
  <1>2. PICK c : c = op["insert"].card
    OBVIOUS
  <1>3. /\ "insert" \in Ops \ Launches /\ Settled /\ op["insert"].pc = "mtLoader" /\ OneAtATime("insert")
        /\ StepKnown("insert") /\ c \in CardIds /\ Exists(c) /\ Unmounted(c) /\ op["insert"] \in OpRecord
        /\ Cur = current /\ jobs = <<>> /\ current.id \in SessionIds /\ current.card = None
        /\ stuck \subseteq CardIds /\ \A d \in stuck : owner[d] \in {"cloudpilot", "fstools"}
        /\ \A w \in Writers : op[w].pc \notin SyncSteps
    BY <1>1, <1>2, Inserting
  <1>4. ReleaseOk(c) /\ current.id # None
    BY <1>3, Nothing DEF ReleaseOk, IInv, Claims, VfsClaims
  <1> DEFINE rec == [op["insert"] EXCEPT !.pc = "ldGet", !.ses = current.id]
  <1>5. ReleaseCard(c) /\ Continue("insert", rec) /\ UNCHANGED <<disk, emu, session, fate>>
    BY <1>2, <1>3, <1>4 DEF MountRelease
  <1>6. rec.pc = "ldGet" /\ rec.card = c /\ rec.ses = current.id
    BY <1>2, <1>3 DEF OpRecord
  <1> HIDE DEF rec
  <1>7. op'["insert"] = rec
    BY <1>3, <1>5 DEF Continue, IInv, Running, OpsOK
  <1>8. /\ \A d \in CardIds : InVfs(d)' <=> InVfs(d) /\ d # c
        /\ vfs'.clip = vfs.clip /\ stale' \subseteq stale
        /\ \A d \in CardIds : owner'[d] = "cloudpilot" <=> owner[d] = "cloudpilot"
        /\ \A d \in CardIds : owner[d] # "vfs" => owner'[d] = owner[d]
    BY <1>3, <1>5, ReleaseKeeps
  <1>9. /\ disk' = disk /\ jobs' = jobs /\ current' = current /\ fatal' = fatal /\ emu' = emu
        /\ stuck' = stuck /\ lost' = lost /\ Cur' = Cur
    BY <1>3, <1>5 DEF session, fate, Cur, Pending
  <1>10. RecordsOK' /\ lost' = {} /\ Exists(c)' /\ Unmounted(c)'
    BY <1>3, <1>9 DEF Sequential, RecordsOK, Unmounted, Exists
  <1>11. StepKnown("insert")'
    BY <1>3, <1>6, <1>7, <1>9, <1>10, InsertKnown DEF InsertSteps
  <1>12. \A d \in CardIds : ~Loads("insert", d) /\ ~Loads("insert", d)' /\ ~Checks("insert", d)'
    BY <1>3, <1>6, <1>7 DEF Loads, Checks, FsckSteps
  <1> QED
    BY <1>3, <1>5, <1>8, <1>9, <1>10, <1>11, <1>12, WorkAlone

\* What a launch knows.
LEMMA Launching ==
    ASSUME IInv, Sequential, NEW o \in Launches, op[o].pc # "idle"
    PROVE  /\ o \in Ops /\ OneAtATime(o) /\ StepKnown(o) /\ LaunchKnown(o) /\ op[o] \in OpRecord
           /\ op[o].res = None /\ op[o].ses \in SessionIds /\ SessionExists(op[o].ses)
           /\ stuck \subseteq CardIds /\ \A d \in CardIds : ~Checks(o, d)
           /\ \A w \in Writers : op[w].pc \notin SyncSteps
  <1>1. o \in Ops /\ o \notin Checkers /\ o \notin Writers
    BY Names, Kinds
  <1>2. OneAtATime(o)
    BY <1>1, Acting
  <1>3. StepKnown(o) /\ LaunchKnown(o)
    BY <1>2 DEF OneAtATime, StepKnown
  <1>4. /\ op[o] \in OpRecord /\ op[o].res = None /\ op[o].ses \in SessionIds
        /\ op[o].pc \notin FsckSteps /\ stuck \subseteq CardIds
    BY <1>1 DEF IInv, Running, OpsOK, Fits, StepFits, Data
  <1>5. SessionExists(op[o].ses)
    BY <1>3 DEF LaunchKnown
  <1>6. \A d \in CardIds : ~Checks(o, d)
    BY <1>4 DEF Checks
  <1>7. \A w \in Writers : op[w].pc \notin SyncSteps
    BY <1>1, <1>2, Names DEF OneAtATime, Alone, SyncSteps
  <1> QED
    BY <1>1, <1>2, <1>3, <1>4, <1>5, <1>6, <1>7

\* A launch gives up: what it has loaded stays claimed.
LEMMA EndLaunchAlone ==
    ASSUME IInv, Sequential, NoOverlap, Settled, NEW o \in Launches, op[o].pc # "idle",
           EndLaunch(o), UNCHANGED <<disk, copies, current, jobs, lost, fatal>>,
           Cur.id = None, stuck \subseteq stuck',
           \A d \in CardIds : d \in stuck' <=> d \in stuck \/ Loads(o, d)
    PROVE  Sequential'
  <1>1. /\ o \in Ops /\ OneAtATime(o) /\ StepKnown(o)
    BY Launching
  <1>2. /\ Continue(o, NotRunning) /\ StepKnown(o)' /\ op'[o].pc = "idle"
        /\ \A c \in CardIds : ~Loads(o, c)' /\ ~Checks(o, c)'
    BY <1>1, Ended DEF EndLaunch
  <1>3. Cur = current /\ Held = current.card /\ ~fatal /\ jobs = <<>>
    BY NothingWaits DEF Sequential
  <1>4. /\ disk' = disk /\ jobs' = jobs /\ current' = current /\ owner' = owner /\ emu' = emu
        /\ vfs' = vfs /\ stale' = stale /\ lost' = {} /\ fatal' = fatal
    BY DEF copies, Sequential
  <1>5. Cur' = Cur /\ Held' = Held
    BY <1>3, <1>4 DEF Cur, Held, Pending
  <1>6. RecordsOK' /\ SlotsFree'
    BY <1>4 DEF Sequential, RecordsOK, SlotsFree, Unmounted, Exists, InVfs
  <1>7. EmulatorOK(o)'
    BY <1>5 DEF EmulatorOK
  <1>8. CopiesOK(o)'
    BY <1>1, <1>2, <1>4, <1>5 DEF OneAtATime, CopiesOK, LoadSteps
  <1>9. Held = None
    BY <1>3 DEF Sequential, SessionOK
  <1>10. OwnersOK(o)'
    BY <1>1, <1>2, <1>3, <1>4, <1>5, <1>9, Nothing DEF OneAtATime, OwnersOK
  <1> QED
    BY <1>1, <1>2, <1>4, <1>6, <1>7, <1>8, <1>10, PlainAlone

\* The card is claimed for the emulator, or somebody had left it claimed.
LEMMA ClaimAlone ==
    ASSUME IInv, Sequential, NoOverlap, NEW o \in Loaders, At(o, "ldGet"), NEW c \in CardIds,
           c = op[o].card, OneAtATime(o), Exists(c), emu.key = None, c \notin emu.images,
           current.card # c, stale = {}, \A w \in Writers : op[w].pc \notin SyncSteps,
           \A d \in CardIds : ~Loads(o, d) /\ ~Checks(o, d), LoadClaim(o),
           current.id = None \/ (o = "insert" /\ current.card = None /\ emu.images = {}),
           ASSUME op'[o].pc = IF op[o].res # None THEN "mtStatus" ELSE "ldData", op'[o].card = c,
                  op'[o].ses = op[o].ses, op'[o].res = op[o].res, Cur' = Cur, disk' = disk,
                  emu'.images = emu.images \cup {c}
           PROVE  StepKnown(o)'
    PROVE  Sequential'
  <1>1. Settled /\ op[o].pc = "ldGet" /\ o \in Ops
    BY Names, Kinds DEF At, Loaders
  <1>2. Cur = current /\ Held = current.card /\ ~fatal /\ jobs = <<>>
    BY <1>1, NothingWaits DEF Sequential
  <1>3. CASE ~ClaimOk(c)
    <2>1. Die
      BY <1>3 DEF LoadClaim
    <2>2. ~InVfs(c) /\ owner[c] # "none"
      BY <1>3, ReleaseShape DEF ClaimOk, ReleaseOk
    <2>3. c \in stuck
      BY <1>1, <2>2, UnownedHeld DEF OpenSteps
    <2> QED
      BY <2>1, <2>3, DieAlone
  <1>4. CASE ClaimOk(c)
    <2>0. PICK next : next = IF op[o].res # None THEN "mtStatus" ELSE "ldData"
      OBVIOUS
    <2>1. /\ owner' = ClaimFor(c, "cloudpilot") /\ vfs' = VfsWithout(c)
          /\ emu' = [emu EXCEPT !.images = @ \cup {c}]
          /\ stale' = (StaleWithout(c) \ {<<"emu", c>>, <<o, c>>})
                        \cup (IF op[o].res # None /\ <<o, c>> \in stale THEN {<<"emu", c>>} ELSE {})
          /\ Goto(o, next) /\ UNCHANGED <<disk, session, fate>>
      BY <1>4, <2>0 DEF LoadClaim
    <2>2. /\ Continue(o, [op[o] EXCEPT !.pc = next]) /\ op'[o].pc = next /\ op'[o].card = c
          /\ op'[o].ses = op[o].ses /\ op'[o].res = op[o].res
      BY <1>1, <2>0, <2>1, Record
    <2>3. /\ VfsWithout(c).primary = IF vfs.primary = c THEN None ELSE vfs.primary
          /\ VfsWithout(c).secondary = IF vfs.secondary = c THEN None ELSE vfs.secondary
          /\ VfsWithout(c).clip = vfs.clip
          /\ \A d \in CardIds : OwnerWithout(c)[d] = IF d = c /\ InVfs(c) THEN "none" ELSE owner[d]
          /\ \A d \in CardIds : InVfs(d) => owner[d] = "vfs"
      BY ReleaseShape
    <2>4. OwnerWithout(c) \in [CardIds -> Owners]
      BY ReleaseTypes
    <2>5. owner'[c] = "cloudpilot" /\ \A d \in CardIds \ {c} : owner'[d] = owner[d]
      BY <2>1, <2>3, <2>4 DEF ClaimFor
    <2>6. owner[c] \in {"none", "vfs"} /\ c \notin stuck
      BY <1>2, <1>4, <2>3 DEF ClaimOk, OneAtATime, OwnersOK
    <2>7. \A d \in CardIds : InVfs(d)' => InVfs(d)
      BY <2>1, <2>3, Nothing DEF InVfs
    <2>8. stale' = {}
      BY <2>1 DEF StaleWithout
    <2>9. /\ disk' = disk /\ jobs' = jobs /\ current' = current /\ fatal' = fatal
          /\ stuck' = stuck /\ lost' = {} /\ Cur' = Cur /\ Held' = Held /\ vfs'.clip = vfs.clip
      BY <1>2, <2>1, <2>3 DEF session, fate, Cur, Held, Pending, Sequential
    <2>10. emu'.images = emu.images \cup {c} /\ emu'.key = emu.key
      BY <2>1 DEF IInv, Data, Images
    <2>11. RecordsOK' /\ SlotsFree'
      BY <2>7, <2>9 DEF Sequential, RecordsOK, SlotsFree, Unmounted, Exists
    <2>12. \A d \in CardIds : ~Checks(o, d)' /\ (Loads(o, d)' <=> d = c)
      <3>1. op[o].res # None => o = "insert"
        BY <1>1 DEF Loaders, IInv, Running, OpsOK, Fits
      <3> QED
        BY <2>0, <2>2, <3>1 DEF Loads, Checks, FsckSteps, Loaders
    <2>13. EmulatorOK(o)'
      BY <1>2, <2>9, <2>10, <2>12, Nothing DEF EmulatorOK
    <2>14. CopiesOK(o)'
      BY <2>8 DEF CopiesOK
    <2>15. OwnersOK(o)'
      BY <1>2, <2>5, <2>6, <2>9, <2>12 DEF OneAtATime, OwnersOK
    <2>16. StepKnown(o)'
      BY <2>0, <2>2, <2>9, <2>10
    <2> QED
      BY <1>1, <2>2, <2>9, <2>11, <2>13, <2>14, <2>15, <2>16, PlainAlone
  <1> QED
    BY <1>3, <1>4

LEMMA LoadClaimAlone ==
    ASSUME IInv, Sequential, NoOverlap, NEW o \in Loaders, LoadClaim(o)
    PROVE  Sequential'
  <1>1. At(o, "ldGet") /\ op[o].pc = "ldGet" /\ Settled
    BY DEF LoadClaim, At
  <1>2. PICK c : c = op[o].card
    OBVIOUS
  <1>3. \A d \in CardIds : ~Loads(o, d) /\ ~Checks(o, d)
    BY <1>1 DEF Loads, Checks, FsckSteps
  <1>4. CASE o = "insert"
    <2>1. /\ OneAtATime("insert") /\ StepKnown("insert") /\ CardKnown("insert")
          /\ c \in CardIds /\ Exists(c) /\ Unmounted(c) /\ Cur = current
          /\ current.id \in SessionIds /\ current.card = None /\ emu.key = None /\ stale = {}
          /\ \A d \in CardIds : d \in emu.images <=> Loads("insert", d)
          /\ \A w \in Writers : op[w].pc \notin SyncSteps
      BY <1>1, <1>2, <1>4, Inserting DEF InsertSteps
    <2>2. emu.images = {}
      BY <1>3, <1>4, <2>1 DEF IInv, Data, Images
    <2>3. ASSUME op'[o].pc = IF op[o].res # None THEN "mtStatus" ELSE "ldData", op'[o].card = c,
                 op'[o].ses = op[o].ses, Cur' = Cur, disk' = disk
          PROVE  StepKnown(o)'
      <3>1. op'[o].ses = Cur.id
        BY <1>1, <1>4, <2>1, <2>3 DEF CardKnown
      <3>2. Exists(c)' /\ Unmounted(c)'
        BY <2>1, <2>3 DEF Exists, Unmounted
      <3> QED
        BY <1>1, <1>4, <2>1, <2>3, <3>1, <3>2, InsertKnown DEF InsertSteps
    <2> QED
      BY <1>1, <1>2, <1>3, <1>4, <2>1, <2>2, <2>3, ClaimAlone, Nothing
  <1>5. CASE o \in Launches
    <2>1. /\ o \in Ops /\ OneAtATime(o) /\ StepKnown(o) /\ LaunchKnown(o) /\ op[o] \in OpRecord
          /\ op[o].res = None /\ op[o].ses \in SessionIds /\ SessionExists(op[o].ses)
          /\ \A w \in Writers : op[w].pc \notin SyncSteps
      BY <1>1, <1>5, Launching
    <2>2. c \in CardIds
      BY <1>1, <1>2, <2>1 DEF IInv, Running, OpsOK, Fits, HasCard
    <2>3. Cur.id = None /\ c = disk.mounted[op[o].ses] /\ emu.images = {} /\ Cur = current
      BY <1>1, <1>2, <2>1, NothingWaits DEF LaunchKnown, LoadSteps, Sequential
    <2>4. current.card = None /\ stale = {}
      BY <1>1, <1>5, <2>1, <2>3 DEF Sequential, SessionOK, OneAtATime, CopiesOK, LoadSteps
    <2>5. Exists(c)
      BY <2>1, <2>2, <2>3 DEF Sequential, RecordsOK, Unmounted
    <2>6. CASE emu.key # None
      <3>1. EndLaunch(o) /\ UNCHANGED <<disk, copies, current, jobs, fate>>
        BY <1>5, <2>6, Kinds DEF LoadClaim, LoadThrows, Launches
      <3>2. UNCHANGED <<lost, fatal>> /\ stuck' = stuck
        BY <3>1 DEF fate
      <3> QED
        BY <1>1, <1>3, <1>5, <2>1, <2>3, <3>1, <3>2, EndLaunchAlone
    <2>7. CASE emu.key = None
      <3>1. ASSUME op'[o].pc = IF op[o].res # None THEN "mtStatus" ELSE "ldData", op'[o].card = c,
                   op'[o].ses = op[o].ses, op'[o].res = op[o].res, Cur' = Cur, disk' = disk,
                   emu'.images = emu.images \cup {c}
            PROVE  StepKnown(o)'
        <4>1. op'[o].pc = "ldData" /\ op'[o].res = None /\ emu'.images = {c} \ {None}
          BY <2>1, <2>2, <2>3, <3>1, Nothing
        <4>2. LaunchKnown(o)'
          BY <2>1, <2>3, <3>1, <4>1 DEF LaunchKnown, LoadSteps, SessionExists
        <4> QED
          BY <1>5, <3>1, <4>1, <4>2, Kinds DEF StepKnown, Workers, EjectFrom, Attached, Launches
      <3> QED
        BY <1>1, <1>2, <1>3, <2>1, <2>2, <2>3, <2>4, <2>5, <2>7, <3>1, ClaimAlone, Nothing
    <2> QED
      BY <2>6, <2>7
  <1> QED
    BY <1>4, <1>5 DEF Loaders

LEMMA LoadDataAlone ==
    ASSUME IInv, Sequential, NoOverlap, NEW o \in Loaders, LoadData(o)
    PROVE  Sequential'
  <1>1. At(o, "ldData") /\ op[o].pc = "ldData" /\ Settled /\ o \in Ops
    BY Names, Kinds DEF LoadData, At, Loaders
  <1>2. PICK c : c = op[o].card
    OBVIOUS
  <1>3. c \in CardIds /\ OneAtATime(o)
    BY <1>1, <1>2, Acting DEF IInv, Running, OpsOK, Fits, HasCard
  <1>4. Loads(o, c) /\ ~fatal /\ Cur = current /\ Held = current.card
    BY <1>1, <1>2, NothingWaits DEF Loads, Loaders, Sequential
  <1>5. owner[c] = "cloudpilot"
    BY <1>3, <1>4 DEF OneAtATime, OwnersOK
  <1>6. PICK next : next = IF o = "insert" THEN "mtStatus" ELSE "swOpen"
    OBVIOUS
  <1>7. /\ stale' = stale \ {<<"emu", c>>} /\ Goto(o, next)
        /\ UNCHANGED <<disk, owner, emu, vfs, session, fate>>
    BY <1>2, <1>5, <1>6 DEF LoadData
  <1>8. /\ Continue(o, [op[o] EXCEPT !.pc = next]) /\ op'[o].pc = next /\ op'[o].card = c
        /\ op'[o].ses = op[o].ses /\ op'[o].res = op[o].res /\ [op[o] EXCEPT !.pc = next].pc = next
    BY <1>1, <1>2, <1>6, <1>7, Record
  <1>9. stale = {}
    <2>1. CASE o = "insert"
      BY <1>1, <2>1, Inserting DEF InsertSteps
    <2>2. CASE o \in Launches
      BY <1>1, <1>3, <2>2 DEF OneAtATime, CopiesOK, LoadSteps
    <2> QED
      BY <2>1, <2>2 DEF Loaders
  <1>10. OnlyMoves
    BY <1>7, <1>9 DEF OnlyMoves, copies
  <1>11. Cur' = Cur /\ disk' = disk /\ emu' = emu
    BY <1>1, <1>10, OnlyMoved
  <1>12. SameUse(o)
    BY <1>1, <1>2, <1>6, <1>8, Kinds DEF SameUse, Loads, Checks, FsckSteps, Loaders, Launches
  <1>13. StepKnown(o)'
    <2>1. CASE o = "insert"
      <3>1. StepKnown("insert") /\ CardKnown("insert") /\ Exists(c) /\ Unmounted(c)
        BY <1>1, <1>2, <2>1, Inserting DEF InsertSteps
      <3>2. op[o].ses = Cur.id /\ Exists(c)' /\ Unmounted(c)'
        BY <1>1, <1>11, <2>1, <3>1 DEF CardKnown, Exists, Unmounted
      <3> QED
        BY <1>1, <1>6, <1>8, <1>11, <2>1, <3>1, <3>2, InsertKnown DEF InsertSteps
    <2>2. CASE o \in Launches
      <3>1. LaunchKnown(o) /\ next = "swOpen" /\ op[o].res = None
        BY <1>1, <1>6, <2>2, Launching DEF Launches
      <3>2. LaunchKnown(o)'
        BY <1>1, <1>2, <1>8, <1>11, <3>1 DEF LaunchKnown, LoadSteps, SessionExists
      <3> QED
        BY <1>8, <2>2, <3>1, <3>2, Kinds DEF StepKnown, Workers, EjectFrom, Attached, Launches
    <2> QED
      BY <2>1, <2>2 DEF Loaders
  <1> QED
    BY <1>1, <1>8, <1>9, <1>10, <1>12, <1>13, MoveAlone

LEMMA MountStatusAlone ==
    ASSUME IInv, Sequential, NoOverlap, MountStatus
    PROVE  Sequential'
  <1>1. At("insert", "mtStatus") /\ "mtStatus" \in InsertSteps
    BY DEF MountStatus, InsertSteps
  <1>2. PICK c : c = op["insert"].card
    OBVIOUS
  <1>3. /\ "insert" \in Ops \ Launches /\ Settled /\ op["insert"].pc = "mtStatus"
        /\ StepKnown("insert") /\ CardKnown("insert") /\ c \in CardIds /\ Exists(c) /\ Unmounted(c)
        /\ Cur = current /\ jobs = <<>>
    BY <1>1, <1>2, Inserting
  <1>4. /\ disk' = WithStatus(c, "dirty") /\ Goto("insert", "mtSession") /\ UNCHANGED <<copies, session, fate>>
    BY <1>2, <1>3 DEF MountStatus
  <1>5. /\ Continue("insert", [op["insert"] EXCEPT !.pc = "mtSession"])
        /\ op'["insert"].pc = "mtSession" /\ op'["insert"].card = c /\ op'["insert"].ses = op["insert"].ses
    BY <1>2, <1>3, <1>4, Record
  <1>6. "dirty" \in Status
    BY DEF Status
  <1>7. /\ RecordsOK' /\ disk'.mounted = disk.mounted /\ disk'.status[c] = "dirty"
        /\ \A d \in CardIds : (Exists(d) => Exists(d)') /\ (Unmounted(d) <=> Unmounted(d)')
    BY <1>3, <1>4, <1>6, StatusRecords DEF Sequential
  <1>8. Cur' = Cur /\ op["insert"].ses = Cur.id
    BY <1>3, <1>4 DEF session, Cur, Pending, CardKnown
  <1>9. StepKnown("insert")'
    BY <1>3, <1>5, <1>7, <1>8, InsertKnown DEF InsertSteps
  <1>10. SameUse("insert")
    BY <1>2, <1>3, <1>5 DEF SameUse, Loads, Checks, FsckSteps
  <1> QED
    BY <1>3, <1>4, <1>5, <1>7, <1>9, <1>10, StayAlone

LEMMA MountSessionAlone ==
    ASSUME IInv, Sequential, NoOverlap, MountSession
    PROVE  Sequential'
  <1>1. At("insert", "mtSession") /\ "mtSession" \in InsertSteps
    BY DEF MountSession, InsertSteps
  <1>2. PICK c, s : c = op["insert"].card /\ s = op["insert"].ses
    OBVIOUS
  <1>3. /\ "insert" \in Ops \ Launches /\ Settled /\ op["insert"].pc = "mtSession" /\ OneAtATime("insert")
        /\ StepKnown("insert") /\ CardKnown("insert") /\ c \in CardIds /\ Exists(c) /\ Unmounted(c)
        /\ Cur = current /\ Held = current.card /\ ~fatal /\ jobs = <<>> /\ mutex = None
        /\ current.id \in SessionIds /\ current.card = None /\ disk.mounted[current.id] = None
        /\ emu.key = None /\ stale = {} /\ \A d \in CardIds : d \in emu.images <=> Loads("insert", d)
    BY <1>1, <1>2, Inserting
  <1>4. s = current.id /\ disk.status[c] # "clean" /\ SessionExists(s)
    BY <1>2, <1>3, Nothing DEF CardKnown, SessionExists
  <1>5. \A d \in CardIds : Loads("insert", d) <=> d = c
    BY <1>2, <1>3 DEF Loads
  <1>6. c \in emu.images /\ owner[c] = "cloudpilot" /\ c \notin stuck
    BY <1>3, <1>5 DEF OneAtATime, OwnersOK
  <1>7. /\ SetMounted(s, c) /\ emu' = [emu EXCEPT !.key = c]
        /\ vfs' = [vfs EXCEPT !.clip = IF @ = c THEN None ELSE @] /\ Finish("insert")
        /\ UNCHANGED <<owner, stale, current, mutex, fate>>
    BY <1>2, <1>3, <1>4, <1>6 DEF MountSession
  <1>8. /\ Continue("insert", NotRunning) /\ StepKnown("insert")'
        /\ \A d \in CardIds : ~Loads("insert", d)' /\ ~Checks("insert", d)'
    BY <1>3, <1>7, Ended
  <1>9. /\ Cur' = Changed(s, c)
        /\ Held' = IF Releases(s, c) THEN current.card ELSE Changed(s, c).card
    BY <1>3, <1>4, <1>7, ChangeShape
  <1>10. Cur'.card = c /\ Held' = c
    BY <1>3, <1>4, <1>9, Nothing DEF Changed, Releases
  <1>11. emu'.key = c /\ emu'.images = emu.images
    BY <1>7 DEF IInv, Data, Images
  <1>12. EmulatorOK("insert")'
    BY <1>3, <1>5, <1>8, <1>10, <1>11 DEF EmulatorOK
  <1>13. stuck' = stuck /\ fatal' = fatal /\ owner' = owner /\ stale' = stale
    BY <1>7 DEF fate
  <1>14. CopiesOK("insert")' /\ OwnersOK("insert")'
    BY <1>3, <1>5, <1>6, <1>8, <1>10, <1>13, Nothing DEF CopiesOK, OneAtATime, OwnersOK
  <1>15. ~InVfs(c)
    BY <1>3, <1>6 DEF IInv, Claims, VfsClaims
  <1>16. /\ vfs'.primary = vfs.primary /\ vfs'.secondary = vfs.secondary
         /\ vfs'.clip = IF vfs.clip = c THEN None ELSE vfs.clip
    BY <1>7 DEF IInv, Data, Slots
  <1>17. \A d \in CardIds : InVfs(d)' \/ vfs'.clip = d => d # c /\ (InVfs(d) \/ vfs.clip = d)
    BY <1>3, <1>15, <1>16, Nothing DEF InVfs
  <1>18. \A t \in SessionIds \ {s} : disk.mounted[t] # c
    BY <1>3 DEF Unmounted
  <1> QED
    BY <1>3, <1>4, <1>7, <1>8, <1>12, <1>14, <1>17, <1>18, ChangeAlone

\* A step outside the operations: nobody moves.
LEMMA OutsideAlone ==
    ASSUME Sequential, Settled, UNCHANGED <<jobs, current, mutex, op, fatal>>, disk'.mounted = disk.mounted,
           RecordsOK', SlotsFree', lost' = {}, NEW o \in Ops, OneAtATime(o),
           EmulatorOK(o)', CopiesOK(o)', OwnersOK(o)', StepKnown(o)'
    PROVE  Sequential'
  <1>1. Cur = current /\ jobs = <<>> /\ ~fatal
    BY NothingWaits DEF Sequential
  <1>2. Cur' = Cur /\ OneJob'
    BY <1>1 DEF Cur, Pending, OneJob
  <1>3. SessionOK' /\ Alone(o)'
    BY <1>2 DEF SessionOK, Sequential, OneAtATime, Alone
  <1> QED
    BY <1>1, <1>2, <1>3 DEF Sequential, OneAtATime

LEMMA SnapshotAlone ==
    ASSUME IInv, Sequential, NoOverlap, Snapshot
    PROVE  Sequential'
  <1>1. PICK c : c = emu.key
    OBVIOUS
  <1>2. PICK o \in Ops : OneAtATime(o)
    BY DEF Sequential
  <1>3. Settled /\ current.id # None /\ c # None /\ Exists(c) /\ c \in CardIds /\ current \in Sessions
    BY <1>1 DEF Snapshot, IInv, Data, Images
  <1>4. Cur = current /\ Held = current.card /\ ~fatal /\ jobs = <<>>
    BY <1>3, NothingWaits DEF Sequential
  <1>5. current.card = c /\ disk.mounted[current.id] = c /\ current.id \in SessionIds
    BY <1>1, <1>2, <1>3, <1>4 DEF OneAtATime, EmulatorOK, Sequential, SessionOK, Sessions
  <1>6. owner[c] = "cloudpilot" /\ disk.status[c] # "clean" /\ ~Unmounted(c) /\ ~InVfs(c)
    BY <1>2, <1>3, <1>4, <1>5 DEF OneAtATime, OwnersOK, Sequential, RecordsOK, Unmounted, SlotsFree
  <1>7. /\ disk' = [disk EXCEPT !.health[c] = "unknown"] /\ Wrote("emu", c)
        /\ UNCHANGED <<owner, emu, vfs, session, ops, stuck, fatal>>
    BY <1>1, <1>6 DEF Snapshot
  <1>8. /\ owner' = owner /\ emu' = emu /\ vfs' = vfs /\ jobs' = jobs /\ current' = current
        /\ mutex' = mutex /\ op' = op /\ stuck' = stuck /\ fatal' = fatal
    BY <1>7 DEF session, ops
  <1>9. /\ RecordsOK' /\ disk'.mounted = disk.mounted /\ disk'.status = disk.status
        /\ \A d \in CardIds : (Exists(d)' <=> Exists(d)) /\ (Unmounted(d)' <=> Unmounted(d))
    BY <1>3, <1>6, <1>7, HealthRecords DEF Sequential
  <1>10. \A d \in CardIds \ {c} : disk'.health[d] = disk.health[d]
    BY <1>7 DEF IInv, Data, Disk
  <1>11. StepKnown(o) /\ stale = {}
    BY <1>2, <1>3, <1>4 DEF OneAtATime, CopiesOK
  <1>12. ASSUME o \in Workers, op[o].pc \notin Attached PROVE op[o].card # c
    <2>1. CardKnown(o)
      BY <1>11, <1>12 DEF StepKnown, Workers
    <2> QED
      BY <1>6, <1>12, <2>1 DEF CardKnown
  <1>13. \A p \in Ops : op[p].res # None => op[p].card # c
    <2> SUFFICES ASSUME NEW p \in Ops, op[p].res # None PROVE op[p].card # c
      OBVIOUS
    <2>1. p = o
      BY <1>2 DEF OneAtATime, Alone
    <2>2. o \in Workers /\ op[o].pc \notin Attached
      BY <1>11, <2>1, Kinds DEF StepKnown
    <2> QED
      BY <1>12, <2>1, <2>2
  <1>14. \A k \in CopiesOf(c) : k = "emu"
    BY <1>6, <1>13 DEF CopiesOf
  <1>15. stale' = {} /\ lost' = {}
    BY <1>7, <1>11, <1>14 DEF Wrote, Sequential
  <1>16. Cur' = Cur /\ Held' = Held
    BY <1>4, <1>8 DEF Cur, Held, Pending
  <1>17. \A d \in CardIds : (Loads(o, d)' <=> Loads(o, d)) /\ (Checks(o, d)' <=> Checks(o, d))
    BY <1>8 DEF Loads, Checks
  <1>18. EmulatorOK(o)' /\ CopiesOK(o)' /\ OwnersOK(o)'
    BY <1>2, <1>8, <1>15, <1>16, <1>17 DEF OneAtATime, EmulatorOK, CopiesOK, OwnersOK
  <1>19. SlotsFree'
    BY <1>8, <1>9 DEF SlotsFree, Sequential, InVfs
  <1>20. o \in Workers => CardKnown(o)'
    <2> SUFFICES ASSUME o \in Workers PROVE CardKnown(o)'
      OBVIOUS
    <2>1. CardKnown(o)
      BY <1>11 DEF StepKnown, Workers
    <2>2. op[o].pc # "idle" => op[o].card \in CardIds
      BY CardOf DEF Workers, CardOps
    <2>3. op[o].pc \in {"fsStatus", "apStatus"} => disk'.health[op[o].card] = disk.health[op[o].card]
      BY <1>10, <1>12, <2>2 DEF Attached, EjectFrom
    <2>4. op'[o] = op[o] /\ disk'.mounted = disk.mounted /\ disk'.status = disk.status /\ vfs' = vfs
      BY <1>8, <1>9
    <2> QED
      BY <1>16, <2>1, <2>3, <2>4 DEF CardKnown, Exists, Unmounted, InVfs
  <1>21. o \in Launches => LaunchKnown(o)'
    BY <1>8, <1>9, <1>11, <1>16 DEF StepKnown, LaunchKnown, SessionExists
  <1>22. StepKnown(o)'
    BY <1>8, <1>9, <1>11, <1>16, <1>20, <1>21 DEF StepKnown, Workers, InVfs, SessionExists, Unmounted
  <1> QED
    BY <1>2, <1>3, <1>8, <1>9, <1>15, <1>18, <1>19, <1>22, OutsideAlone

-----------------------------------------------------------------------------
(***************************************************************************)
(* One operation at a time: launches and sessions.                         *)
(***************************************************************************)

\* A step that may change the sessions.
LEMMA SessionsAlone ==
    ASSUME IInv, Sequential, NoOverlap, NEW o \in Ops, NEW rec, Continue(o, rec),
           op[o].pc # "idle" \/ rec.pc # "idle", ~fatal', lost' = {},
           OneJob', RecordsOK', SessionOK', SlotsFree',
           EmulatorOK(o)', CopiesOK(o)', OwnersOK(o)', StepKnown(o)'
    PROVE  Sequential'
  <1>1. Alone(o)'
    BY GoesOn
  <1> QED
    BY <1>1 DEF Sequential, OneAtATime

\* What a launch knows at its next step, when all is said of that step.
LEMMA LaunchNext ==
    ASSUME NEW o \in Launches, op'[o].res = None, op'[o].pc \notin EjectFrom, LaunchKnown(o)'
    PROVE  StepKnown(o)'
  <1>1. /\ o \notin {"insert", "browse", "check", "delete"} /\ o \notin Ejects /\ o \notin Writers
        /\ o # "paste" /\ o \notin {"edit", "delSession"} /\ o # "edit"
    BY DEF Launches, Ejects, Writers
  <1> QED
    BY <1>1 DEF StepKnown

LEMMA NoMutexHeld ==
    ASSUME IInv, NEW o \in Launches, Alone(o), op[o].pc \notin MutexSteps
    PROVE  mutex = None
  <1>1. \A p \in Launches : op[p].pc \notin MutexSteps
    BY Names, Kinds DEF Alone, MutexSteps
  <1> QED
    BY <1>1 DEF IInv, MutexOK

LEMMA StartLaunchAlone ==
    ASSUME IInv, Sequential, NoOverlap, NEW o \in Launches, NEW s \in SessionIds, StartLaunch(o, s)
    PROVE  Sequential'
  <1>1. /\ SessionExists(s) /\ Begin(o, "queued", None, s) /\ o \in Ops /\ o # None
        /\ UNCHANGED <<disk, copies, current, mutex, fate>>
    BY Names, NoneIsNoLaunch DEF StartLaunch
  <1>2. /\ Settled /\ op[o].pc = "idle" /\ Continue(o, Started("queued", None, s))
        /\ Started("queued", None, s).pc = "queued" /\ op'[o].pc = "queued" /\ op'[o].ses = s
        /\ op'[o].res = None
    BY <1>1, BeginShape
  <1>3. OneAtATime(o)
    BY <1>1, <1>2, GoesOn
  <1>4. Cur = current /\ Held = current.card /\ ~fatal /\ jobs = <<>>
    BY <1>2, NothingWaits DEF Sequential
  <1>5. mutex = None
    BY <1>2, <1>3, NoMutexHeld DEF OneAtATime, MutexSteps
  <1> DEFINE j == [op |-> o, id |-> None, card |-> None]
  <1>6. j \in JobRecord /\ j.op = o /\ jobs' = <<j>>
    BY <1>4 DEF StartLaunch, JobRecord
  <1> HIDE DEF j
  <1>7. Head(jobs') = j
    BY <1>6
  <1>8. /\ disk' = disk /\ owner' = owner /\ emu' = emu /\ vfs' = vfs /\ stale' = stale
        /\ current' = current /\ mutex' = None /\ stuck' = stuck /\ lost' = {} /\ fatal' = fatal
    BY <1>1, <1>5 DEF copies, fate, Sequential
  <1>9. OneJob' /\ Cur' = Cur /\ Held' = Held
    BY <1>1, <1>4, <1>6, <1>7, <1>8 DEF OneJob, Cur, Held, Pending
  <1>10. RecordsOK' /\ SessionOK' /\ SlotsFree'
    BY <1>8, <1>9 DEF Sequential, RecordsOK, SessionOK, SlotsFree, Unmounted, Exists, InVfs
  <1>11. SameUse(o)
    BY <1>2, SameUseAt DEF FsckSteps
  <1>12. EmulatorOK(o)' /\ CopiesOK(o)' /\ OwnersOK(o)'
    BY <1>2, <1>3, <1>8, <1>9, <1>11 DEF OneAtATime, EmulatorOK, CopiesOK, OwnersOK, SameUse, LoadSteps
  <1>13. LaunchKnown(o)'
    BY <1>1, <1>2, <1>8 DEF LaunchKnown, LoadSteps, SessionExists
  <1>14. StepKnown(o)'
    BY <1>2, <1>13, LaunchNext DEF EjectFrom
  <1> QED
    BY <1>1, <1>2, <1>4, <1>8, <1>9, <1>10, <1>12, <1>14, SessionsAlone

\* The jobs behind the one that has the mutex.
LEMMA NextJobs ==
    ASSUME OneJob, jobs # <<>>
    PROVE  /\ mutex = None /\ Head(jobs) \in JobRecord
           /\ Tail(jobs) = <<>> \/ (Head(jobs).op = None
                                    /\ \E k \in JobRecord : k.op # None /\ Tail(jobs) = <<k>>)
  <1>1. PICK j \in JobRecord :
           \/ jobs = <<j>>
           \/ j.op = None /\ \E k \in JobRecord : k.op # None /\ jobs = <<j, k>>
    BY DEF OneJob
  <1>2. CASE jobs = <<j>>
    BY <1>2 DEF OneJob
  <1>3. ASSUME NEW k \in JobRecord, k.op # None, jobs = <<j, k>>, j.op = None
        PROVE  Head(jobs) = j /\ Tail(jobs) = <<k>>
    BY <1>3
  <1> QED
    BY <1>1, <1>2, <1>3 DEF OneJob

LEMMA RunChangeAlone ==
    ASSUME IInv, Sequential, NoOverlap, RunChange
    PROVE  Sequential'
  <1>1. PICK j, c : j = Head(jobs) /\ c = current.card
    OBVIOUS
  <1>2. PICK o \in Ops : OneAtATime(o)
    BY DEF Sequential
  <1>3. ~fatal /\ mutex = None /\ jobs # <<>> /\ j.op = None /\ Pending
    BY <1>1 DEF RunChange, Pending
  <1>4. PICK releases \in BOOLEAN : releases <=> Releases(j.id, j.card)
    OBVIOUS
  <1>5. Cur = Changed(j.id, j.card) /\ Held = IF releases THEN c ELSE Cur.card
    BY <1>1, <1>3, <1>4 DEF Cur, Held
  <1>6. releases => c \in CardIds /\ Cur = NoSession
    BY <1>1, <1>4, <1>5 DEF Releases, Changed, IInv, Data, Sessions
  <1>7. releases => owner[c] = "cloudpilot"
    BY <1>2, <1>3, <1>5, <1>6 DEF OneAtATime, OwnersOK
  <1>8. /\ current' = Cur /\ owner' = IF releases THEN [owner EXCEPT ![c] = "none"] ELSE owner
        /\ jobs' = Tail(jobs) /\ UNCHANGED <<disk, emu, vfs, stale, mutex, ops, fate>>
    BY <1>1, <1>3, <1>4, <1>5, <1>7 DEF RunChange
  <1>9. /\ disk' = disk /\ emu' = emu /\ vfs' = vfs /\ stale' = stale /\ mutex' = None
        /\ op' = op /\ stuck' = stuck /\ lost' = {} /\ ~fatal'
    BY <1>3, <1>8 DEF ops, fate, Sequential
  <1>10. /\ OneJob' /\ ~Pending'
    <2>1. CASE Tail(jobs) = <<>>
      BY <1>8, <2>1 DEF OneJob, Pending
    <2>2. ASSUME NEW k \in JobRecord, k.op # None, Tail(jobs) = <<k>>
          PROVE  OneJob' /\ ~Pending'
      <3>1. jobs' = <<k>> /\ Head(<<k>>) = k
        BY <1>8, <2>2
      <3> QED
        BY <1>9, <2>2, <3>1 DEF OneJob, Pending
    <2> QED
      BY <1>3, <2>1, <2>2, NextJobs DEF Sequential
  <1>11. Cur' = Cur /\ Held' = Cur.card
    BY <1>8, <1>10 DEF Cur, Held
  <1>12. RecordsOK' /\ SessionOK' /\ SlotsFree'
    BY <1>9, <1>11 DEF Sequential, RecordsOK, SessionOK, SlotsFree, Unmounted, Exists, InVfs
  <1>13. \A d \in CardIds : (Loads(o, d)' <=> Loads(o, d)) /\ (Checks(o, d)' <=> Checks(o, d))
    BY <1>9 DEF Loads, Checks
  <1>14. Alone(o)' /\ EmulatorOK(o)' /\ CopiesOK(o)'
    BY <1>2, <1>9, <1>11, <1>13 DEF OneAtATime, Alone, EmulatorOK, CopiesOK
  <1>15. o \in {"insert", "browse", "check", "delete"} => CardKnown(o)'
    BY <1>2, <1>9, <1>11 DEF OneAtATime, StepKnown, CardKnown, Exists, Unmounted, InVfs
  <1>16. o \in Launches => LaunchKnown(o)'
    BY <1>2, <1>9, <1>11 DEF OneAtATime, StepKnown, LaunchKnown, SessionExists
  <1>17. StepKnown(o)'
    BY <1>2, <1>9, <1>11, <1>15, <1>16 DEF OneAtATime, StepKnown, InVfs, SessionExists, Unmounted
  <1>18. OwnersOK(o)'
    <2>1. CASE ~releases
      BY <1>2, <1>3, <1>5, <1>8, <1>9, <1>11, <1>13, <2>1 DEF OneAtATime, OwnersOK
    <2>2. CASE releases
      <3>1. owner'[c] = "none" /\ \A d \in CardIds \ {c} : owner'[d] = owner[d]
        BY <1>6, <1>8, <2>2 DEF IInv, Data
      <3>2. Held' = None /\ Cur.id = None
        BY <1>6, <1>11, <2>2 DEF NoSession
      <3>3. o = "insert" => op[o].pc = "idle"
        BY <1>2, <3>2 DEF OneAtATime, StepKnown, CardKnown
      <3>4. o \in Launches => op[o].pc \notin MutexSteps
        BY <1>3, NoneIsNoLaunch DEF IInv, MutexOK
      <3>5. \A d \in CardIds : ~Loads(o, d)
        BY <3>3, <3>4 DEF Loads, MutexSteps
      <3>6. c \notin stuck
        BY <1>2, <1>3, <1>5, <1>6, <2>2 DEF OneAtATime, OwnersOK
      <3> QED
        BY <1>2, <1>3, <1>5, <1>9, <1>13, <2>2, <3>1, <3>2, <3>5, <3>6, Nothing DEF OneAtATime, OwnersOK
    <2> QED
      BY <2>1, <2>2
  <1> QED
    BY <1>9, <1>10, <1>12, <1>14, <1>17, <1>18 DEF Sequential, OneAtATime

LEMMA RunLaunchAlone ==
    ASSUME IInv, Sequential, NoOverlap, RunLaunch
    PROVE  Sequential'
  <1>1. PICK o : o = Head(jobs).op
    OBVIOUS
  <1>2. ~fatal /\ mutex = None /\ jobs # <<>> /\ o # None /\ jobs' = Tail(jobs)
    BY <1>1 DEF RunLaunch
  <1>3. o \in Waiters
    BY <1>1, <1>2, JobsTail, NoneIsNoLaunch DEF IInv, JobsOK, Waiters
  <1>4. o \in Launches /\ op[o].pc \in WaitSteps /\ op[o].pc # "idle"
    BY <1>3 DEF Waiters, WaitSteps
  <1>5. /\ o \in Ops /\ OneAtATime(o) /\ StepKnown(o) /\ LaunchKnown(o) /\ op[o].res = None
    BY <1>4, Launching
  <1>6. jobs' = <<>> /\ ~Pending /\ ~Pending' /\ OneJob'
    BY <1>1, <1>2, NextJobs DEF Sequential, OneJob, Pending
  <1>7. /\ disk' = disk /\ owner' = owner /\ emu' = emu /\ vfs' = vfs /\ stale' = stale
        /\ current' = current /\ stuck' = stuck /\ lost' = {} /\ ~fatal'
    BY <1>2 DEF RunLaunch, copies, fate, Sequential
  <1>8. Cur = current /\ Cur' = Cur /\ Held' = Held
    BY <1>6, <1>7 DEF Cur, Held
  <1>9. RecordsOK' /\ SessionOK' /\ SlotsFree'
    BY <1>7, <1>8 DEF Sequential, RecordsOK, SessionOK, SlotsFree, Unmounted, Exists, InVfs
  <1>10. \A d \in CardIds : ~Loads(o, d) /\ ~Checks(o, d)
    BY <1>4, Unused DEF WaitSteps, FsckSteps
  <1>11. CASE Finish(o)
    <2>1. /\ Continue(o, NotRunning) /\ StepKnown(o)' /\ op'[o].pc = "idle"
          /\ \A c \in CardIds : ~Loads(o, c)' /\ ~Checks(o, c)'
      BY <1>5, <1>11, Ended
    <2>2. EmulatorOK(o)' /\ CopiesOK(o)' /\ OwnersOK(o)'
      BY <1>2, <1>5, <1>7, <1>8, <1>10, <2>1 DEF OneAtATime, EmulatorOK, CopiesOK, OwnersOK, LoadSteps
    <2> QED
      BY <1>4, <1>5, <1>6, <1>7, <1>9, <2>1, <2>2, SessionsAlone
  <1>12. ASSUME NEW pc \in {"stopOnly", "swSession", "stop"}, Goto(o, pc),
                pc = "swSession" => current.id = None
         PROVE  Sequential'
    <2>1. /\ Continue(o, [op[o] EXCEPT !.pc = pc]) /\ op'[o].pc = pc /\ op'[o].card = op[o].card
          /\ op'[o].ses = op[o].ses /\ op'[o].res = op[o].res
      BY <1>5, <1>12, Record
    <2>2. \A d \in CardIds : ~Loads(o, d)' /\ ~Checks(o, d)'
      BY <1>12, <2>1 DEF Loads, Checks, FsckSteps
    <2>3. EmulatorOK(o)' /\ CopiesOK(o)' /\ OwnersOK(o)'
      BY <1>2, <1>5, <1>7, <1>8, <1>10, <1>12, <2>1, <2>2
         DEF OneAtATime, EmulatorOK, CopiesOK, OwnersOK, LoadSteps
    <2>4. LaunchKnown(o)'
      BY <1>4, <1>5, <1>7, <1>8, <1>12, <2>1 DEF LaunchKnown, LoadSteps, SessionExists
    <2>5. StepKnown(o)'
      BY <1>4, <1>5, <1>12, <2>1, <2>4, LaunchNext DEF EjectFrom
    <2> QED
      BY <1>4, <1>5, <1>6, <1>7, <1>9, <2>1, <2>3, <2>5, SessionsAlone
  <1> QED
    BY <1>1, <1>11, <1>12 DEF RunLaunch

LEMMA StopAlone ==
    ASSUME IInv, Sequential, NoOverlap, NEW o \in Launches, Stop(o)
    PROVE  Sequential'
  <1>1. PICK c : c = current.card
    OBVIOUS
  <1>2. Settled /\ op[o].pc \in {"stop", "stopOnly"} /\ op[o].pc # "idle"
    BY DEF Stop, At
  <1>3. /\ o \in Ops /\ OneAtATime(o) /\ StepKnown(o) /\ LaunchKnown(o) /\ op[o].res = None
        /\ \A d \in CardIds : ~Checks(o, d)
    BY <1>2, Launching
  <1>4. Cur = current /\ Held = c /\ ~fatal /\ jobs = <<>> /\ c \in CardIds \cup {None}
    BY <1>1, <1>2, NothingWaits DEF Sequential, IInv, Data, Sessions
  <1>5. c # None => owner[c] = "cloudpilot" /\ c \notin stuck
    BY <1>3, <1>4 DEF OneAtATime, OwnersOK
  <1>6. PICK next \in {"rsState", "swSession"} : Goto(o, next)
    BY <1>1, <1>5 DEF Stop
  <1>7. /\ owner' = IF c = None THEN owner ELSE [owner EXCEPT ![c] = "none"]
        /\ current' = NoSession /\ UNCHANGED <<disk, emu, vfs, stale, jobs, fate>>
    BY <1>1, <1>5 DEF Stop
  <1>8. /\ Continue(o, [op[o] EXCEPT !.pc = next]) /\ op'[o].pc = next
        /\ op'[o].ses = op[o].ses /\ op'[o].res = op[o].res
    BY <1>3, <1>6, Record
  <1>9. /\ disk' = disk /\ emu' = emu /\ vfs' = vfs /\ stale' = stale /\ jobs' = <<>>
        /\ stuck' = stuck /\ lost' = {} /\ ~fatal'
    BY <1>4, <1>7 DEF fate, Sequential
  <1>10. Cur' = NoSession /\ Held' = None /\ OneJob'
    BY <1>7, <1>9 DEF Cur, Held, Pending, OneJob, NoSession
  <1>11. RecordsOK' /\ SessionOK' /\ SlotsFree'
    BY <1>9, <1>10 DEF Sequential, RecordsOK, SessionOK, SlotsFree, Unmounted, Exists, InVfs, NoSession
  <1>12. \A d \in CardIds : ~Loads(o, d) /\ ~Loads(o, d)' /\ ~Checks(o, d)'
    BY <1>2, <1>6, <1>8 DEF Loads, Checks, FsckSteps
  <1>13. EmulatorOK(o)' /\ CopiesOK(o)'
    BY <1>3, <1>6, <1>8, <1>9, <1>10 DEF OneAtATime, EmulatorOK, CopiesOK, LoadSteps, NoSession
  <1>14. \A d \in CardIds : owner'[d] = IF d = c THEN "none" ELSE owner[d]
    BY <1>4, <1>7, Nothing DEF IInv, Data
  <1>15. OwnersOK(o)'
    BY <1>3, <1>4, <1>5, <1>9, <1>10, <1>12, <1>14, Nothing DEF OneAtATime, OwnersOK
  <1>16. LaunchKnown(o)'
    BY <1>2, <1>3, <1>6, <1>8, <1>9, <1>10 DEF LaunchKnown, LoadSteps, SessionExists, NoSession
  <1>17. StepKnown(o)'
    BY <1>3, <1>6, <1>8, <1>16, LaunchNext DEF EjectFrom
  <1> QED
    BY <1>2, <1>3, <1>8, <1>9, <1>10, <1>11, <1>13, <1>15, <1>17, SessionsAlone

LEMMA ResetStateAlone ==
    ASSUME IInv, Sequential, NoOverlap, ResetState
    PROVE  Sequential'
  <1>1. PICK s : s = op["reset"].ses
    OBVIOUS
  <1>2. Settled /\ op["reset"].pc = "rsState" /\ "reset" \in Launches /\ "reset" # None
    BY Kinds, NoneIsNoLaunch DEF ResetState, At
  <1>3. /\ "reset" \in Ops /\ OneAtATime("reset") /\ LaunchKnown("reset")
        /\ op["reset"].res = None /\ s \in SessionIds /\ SessionExists(s)
    BY <1>1, <1>2, Launching
  <1>4. Cur = current /\ Held = current.card /\ ~fatal /\ jobs = <<>> /\ mutex = None
    BY <1>2, <1>3, NothingWaits, NoMutexHeld DEF Sequential, OneAtATime, MutexSteps
  <1>5. current.id = None
    BY <1>2, <1>3, <1>4 DEF LaunchKnown
  <1> DEFINE launch == [op |-> "reset", id |-> None, card |-> None]
             change == [op |-> None, id |-> s, card |-> disk.mounted[s]]
  <1>6. /\ Goto("reset", "queued2") /\ jobs' = jobs \o <<change, launch>>
        /\ UNCHANGED <<disk, copies, current, mutex, fate>>
    BY <1>1, <1>3 DEF ResetState
  <1>7. /\ change \in JobRecord /\ launch \in JobRecord /\ change.op = None /\ change.id = s
        /\ launch.op # None
    BY <1>2, <1>3 DEF JobRecord, IInv, Data, Disk, Launches
  <1> HIDE DEF launch, change
  <1>8. jobs' = <<change, launch>> /\ Head(<<change, launch>>) = change
    BY <1>4, <1>6
  <1>9. /\ disk' = disk /\ owner' = owner /\ emu' = emu /\ vfs' = vfs /\ stale' = stale
        /\ current' = current /\ mutex' = None /\ stuck' = stuck /\ lost' = {} /\ fatal' = fatal
    BY <1>4, <1>6 DEF copies, fate, Sequential
  <1>10. OneJob' /\ Pending'
    BY <1>7, <1>8, <1>9 DEF OneJob, Pending
  <1>11. s # current.id
    BY <1>3, <1>5, Nothing
  <1>12. Cur' = Cur /\ Held' = Held
    BY <1>4, <1>7, <1>8, <1>9, <1>10, <1>11 DEF Cur, Held, Changed, Releases
  <1>13. RecordsOK' /\ SessionOK' /\ SlotsFree'
    BY <1>9, <1>12 DEF Sequential, RecordsOK, SessionOK, SlotsFree, Unmounted, Exists, InVfs
  <1>14. /\ Continue("reset", [op["reset"] EXCEPT !.pc = "queued2"]) /\ op'["reset"].pc = "queued2"
         /\ op'["reset"].ses = s /\ op'["reset"].res = None
    BY <1>1, <1>3, <1>6, Record
  <1>15. SameUse("reset")
    BY <1>2, <1>14, SameUseAt DEF FsckSteps
  <1>16. EmulatorOK("reset")' /\ CopiesOK("reset")' /\ OwnersOK("reset")'
    BY <1>3, <1>9, <1>12, <1>14, <1>15 DEF OneAtATime, EmulatorOK, CopiesOK, OwnersOK, SameUse, LoadSteps
  <1>17. LaunchKnown("reset")'
    BY <1>3, <1>4, <1>5, <1>9, <1>12, <1>14 DEF LaunchKnown, LoadSteps, SessionExists
  <1>18. StepKnown("reset")'
    BY <1>2, <1>14, <1>17, LaunchNext DEF EjectFrom
  <1> QED
    BY <1>2, <1>3, <1>4, <1>9, <1>10, <1>13, <1>14, <1>16, <1>18, SessionsAlone

LEMMA SwitchReadAlone ==
    ASSUME IInv, Sequential, NoOverlap, NEW o \in Launches, SwitchRead(o)
    PROVE  Sequential'
  <1>1. PICK s, c : s = op[o].ses /\ c = op[o].card
    OBVIOUS
  <1>2. Settled /\ op[o].pc \in {"swSession", "swLoad"} /\ op[o].pc # "idle"
    BY DEF SwitchRead, At
  <1>3. /\ o \in Ops /\ OneAtATime(o) /\ LaunchKnown(o) /\ op[o] \in OpRecord
        /\ op[o].res = None /\ s \in SessionIds /\ SessionExists(s)
    BY <1>1, <1>2, Launching
  <1>4. Cur = current /\ Held = current.card /\ ~fatal /\ jobs = <<>>
    BY <1>2, NothingWaits DEF Sequential
  <1>5. current.id = None /\ current.card = None
    BY <1>2, <1>3, <1>4 DEF LaunchKnown, Sequential, SessionOK
  <1>6. \A d \in CardIds : ~Loads(o, d)
    BY <1>2 DEF Loads
  <1>7. CASE op[o].pc = "swSession"
    <2> DEFINE rec == [op[o] EXCEPT !.pc = "swLoad", !.card = disk.mounted[s]]
    <2>1. Continue(o, rec) /\ current' = NoSession /\ UNCHANGED <<disk, copies, jobs, fate>>
      BY <1>1, <1>3, <1>7 DEF SwitchRead, At
    <2>2. rec.pc = "swLoad" /\ rec.card = disk.mounted[s] /\ rec.ses = s /\ rec.res = None
      BY <1>1, <1>3 DEF OpRecord
    <2> HIDE DEF rec
    <2>3. op'[o] = rec
      BY <1>3, <2>1 DEF Continue, IInv, Running, OpsOK
    <2>4. /\ disk' = disk /\ owner' = owner /\ emu' = emu /\ vfs' = vfs /\ stale' = stale
          /\ jobs' = jobs /\ stuck' = stuck /\ lost' = {} /\ ~fatal'
      BY <1>4, <2>1 DEF copies, fate, Sequential
    <2>5. Cur'.id = None /\ Cur'.card = None /\ Held' = None /\ OneJob'
      BY <1>4, <2>1, <2>4 DEF Cur, Held, Pending, OneJob, NoSession
    <2>6. RecordsOK' /\ SessionOK' /\ SlotsFree'
      BY <2>4, <2>5 DEF Sequential, RecordsOK, SessionOK, SlotsFree, Unmounted, Exists, InVfs
    <2>7. \A d \in CardIds : ~Loads(o, d)' /\ ~Checks(o, d)'
      BY <2>2, <2>3 DEF Loads, Checks, FsckSteps
    <2>8. EmulatorOK(o)' /\ CopiesOK(o)' /\ OwnersOK(o)'
      BY <1>3, <1>4, <1>5, <1>6, <2>2, <2>3, <2>4, <2>5, <2>7
         DEF OneAtATime, EmulatorOK, CopiesOK, OwnersOK, LoadSteps
    <2>9. LaunchKnown(o)'
      BY <1>3, <2>2, <2>3, <2>4, <2>5 DEF LaunchKnown, LoadSteps, SessionExists
    <2>10. StepKnown(o)'
      BY <2>2, <2>3, <2>9, LaunchNext DEF EjectFrom
    <2> QED
      BY <1>3, <2>1, <2>2, <2>4, <2>5, <2>6, <2>8, <2>10, SessionsAlone
  <1>8. CASE op[o].pc = "swLoad"
    <2>0. PICK next : next = IF c = None THEN "swOpen" ELSE "ldGet"
      OBVIOUS
    <2>1. /\ emu' = FreshPage.emu /\ stale' = {x \in stale : x[1] # "emu"} /\ Goto(o, next)
          /\ UNCHANGED <<disk, owner, vfs, session, fate>>
      BY <1>1, <1>8, <2>0 DEF SwitchRead, At
    <2>2. /\ Continue(o, [op[o] EXCEPT !.pc = next]) /\ op'[o].pc = next /\ op'[o].card = c
          /\ op'[o].ses = s /\ op'[o].res = None
      BY <1>1, <1>3, <2>0, <2>1, Record
    <2>3. stale' = {}
      BY <1>3, <2>1 DEF OneAtATime, CopiesOK
    <2>4. /\ disk' = disk /\ owner' = owner /\ vfs' = vfs /\ current' = current /\ emu'.images = {}
          /\ jobs' = jobs /\ stuck' = stuck /\ lost' = {} /\ fatal' = fatal
      BY <2>1 DEF session, fate, Sequential, FreshPage
    <2>5. Cur' = Cur /\ Held' = Held
      BY <1>4, <2>4 DEF Cur, Held, Pending
    <2>6. RecordsOK' /\ SlotsFree'
      BY <2>4 DEF Sequential, RecordsOK, SlotsFree, Unmounted, Exists, InVfs
    <2>7. \A d \in CardIds : ~Loads(o, d)' /\ ~Checks(o, d)'
      BY <2>0, <2>2, Nothing DEF Loads, Checks, FsckSteps
    <2>8. EmulatorOK(o)' /\ CopiesOK(o)' /\ OwnersOK(o)'
      BY <1>3, <1>4, <1>5, <1>6, <2>3, <2>4, <2>5, <2>7
         DEF OneAtATime, EmulatorOK, CopiesOK, OwnersOK
    <2>9. c = disk.mounted[s]
      BY <1>1, <1>3, <1>8 DEF LaunchKnown
    <2>10. LaunchKnown(o)'
      BY <1>3, <1>4, <1>5, <2>0, <2>2, <2>4, <2>5, <2>9 DEF LaunchKnown, LoadSteps, SessionExists
    <2>11. StepKnown(o)'
      BY <2>0, <2>2, <2>10, LaunchNext DEF EjectFrom
    <2> QED
      BY <1>2, <1>3, <2>2, <2>4, <2>6, <2>8, <2>11, PlainAlone
  <1> QED
    BY <1>2, <1>7, <1>8

LEMMA SwitchOpenAlone ==
    ASSUME IInv, Sequential, NoOverlap, NEW o \in Launches, SwitchOpen(o)
    PROVE  Sequential'
  <1>1. PICK s, c : s = op[o].ses /\ c = op[o].card
    OBVIOUS
  <1>2. Settled /\ op[o].pc = "swOpen"
    BY DEF SwitchOpen, At
  <1>3. /\ o \in Ops /\ OneAtATime(o) /\ LaunchKnown(o) /\ op[o] \in OpRecord
        /\ op[o].res = None /\ s \in SessionIds /\ SessionExists(s) /\ stuck \subseteq CardIds
    BY <1>1, <1>2, Launching
  <1>4. Cur = current /\ Held = current.card /\ ~fatal /\ jobs = <<>>
    BY <1>2, NothingWaits DEF Sequential
  <1>5. /\ current.id = None /\ current.card = None /\ c = disk.mounted[s] /\ c \in CardIds \cup {None}
        /\ emu.images = {c} \ {None} /\ stale = {}
    BY <1>1, <1>2, <1>3, <1>4 DEF LaunchKnown, LoadSteps, Sequential, SessionOK, OneAtATime, CopiesOK, OpRecord
  <1>6. \A d \in CardIds : Loads(o, d) <=> d = c
    BY <1>1, <1>2 DEF Loads
  <1>7. CASE /\ current' = [id |-> s, card |-> c] /\ emu' = [emu EXCEPT !.key = c] /\ Goto(o, "swUpdate")
             /\ UNCHANGED <<mutex, stuck>>
    <2>1. /\ Continue(o, [op[o] EXCEPT !.pc = "swUpdate"]) /\ op'[o].pc = "swUpdate" /\ op'[o].card = c
          /\ op'[o].ses = s /\ op'[o].res = None
      BY <1>1, <1>3, <1>7, Record
    <2>2. /\ disk' = disk /\ owner' = owner /\ vfs' = vfs /\ stale' = stale
          /\ jobs' = jobs /\ stuck' = stuck /\ lost' = {} /\ fatal' = fatal
      BY <1>7 DEF SwitchOpen, Sequential
    <2>3. Cur'.id = s /\ Cur'.card = c /\ Held' = c /\ OneJob'
      BY <1>4, <1>7, <2>2 DEF Cur, Held, Pending, OneJob
    <2>4. emu'.images = emu.images /\ emu'.key = c
      BY <1>7 DEF IInv, Data, Images
    <2>5. RecordsOK' /\ SessionOK' /\ SlotsFree'
      BY <1>3, <1>5, <2>2, <2>3, Nothing
         DEF Sequential, RecordsOK, SessionOK, SlotsFree, Unmounted, Exists, InVfs
    <2>6. \A d \in CardIds : ~Loads(o, d)' /\ ~Checks(o, d)'
      BY <2>1 DEF Loads, Checks, FsckSteps
    <2>7. EmulatorOK(o)' /\ CopiesOK(o)'
      BY <1>5, <2>2, <2>3, <2>4, <2>6, Nothing DEF EmulatorOK, CopiesOK
    <2>8. OwnersOK(o)'
      BY <1>3, <1>4, <1>5, <1>6, <2>2, <2>3, <2>6, Nothing DEF OneAtATime, OwnersOK
    <2>9. LaunchKnown(o)'
      BY <1>3, <1>5, <2>1, <2>2, <2>3 DEF LaunchKnown, LoadSteps, SessionExists
    <2>10. StepKnown(o)'
      BY <2>1, <2>9, LaunchNext DEF EjectFrom
    <2> QED
      BY <1>2, <1>3, <1>4, <2>1, <2>2, <2>3, <2>5, <2>7, <2>8, <2>10, SessionsAlone
  <1>8. CASE EndLaunch(o) /\ stuck' = stuck \cup ({c} \ {None}) /\ UNCHANGED <<current, emu>>
    <2>1. UNCHANGED <<disk, copies, current, jobs, lost, fatal>>
      BY <1>8 DEF SwitchOpen, copies
    <2>2. \A d \in CardIds : d \in stuck' <=> d \in stuck \/ Loads(o, d)
      BY <1>5, <1>6, <1>8, Nothing
    <2> QED
      BY <1>2, <1>4, <1>5, <1>8, <2>1, <2>2, EndLaunchAlone
  <1> QED
    BY <1>1, <1>7, <1>8 DEF SwitchOpen

\* The record of a session is put back as it is.
LEMMA PutBackAlone ==
    ASSUME IInv, Sequential, NoOverlap, Settled, NEW o \in Ops, op[o].pc # "idle", Finish(o),
           NEW s \in SessionIds, NEW c \in CardIds \cup {None}, disk.mounted[s] = c, SetMounted(s, c),
           UNCHANGED <<copies, current, fate>>, mutex' = None, \A d \in CardIds : ~Loads(o, d)
    PROVE  Sequential'
  <1>1. /\ Continue(o, NotRunning) /\ StepKnown(o)' /\ op'[o].pc = "idle"
        /\ \A d \in CardIds : ~Loads(o, d)' /\ ~Checks(o, d)'
    BY Ended
  <1>2. OneAtATime(o)
    BY Acting
  <1>3. Cur = current /\ Held = current.card /\ ~fatal /\ c # Gone
    BY NothingWaits, Nothing DEF Sequential
  <1>4. /\ Cur' = Changed(s, c)
        /\ Held' = IF Releases(s, c) THEN current.card ELSE Changed(s, c).card
    BY ChangeShape
  <1>5. s = current.id => current.card = c
    BY <1>3, Nothing DEF Sequential, SessionOK
  <1>6. Cur'.id = Cur.id /\ Cur'.card = Cur.card /\ Held' = Held
    BY <1>3, <1>4, <1>5 DEF Changed, Releases
  <1>7. /\ owner' = owner /\ emu' = emu /\ vfs' = vfs /\ stale' = stale /\ stuck' = stuck /\ fatal' = fatal
    BY DEF copies, fate
  <1>8. EmulatorOK(o)'
    BY <1>1, <1>2, <1>6, <1>7 DEF OneAtATime, EmulatorOK
  <1>9. CopiesOK(o)'
    BY <1>1, <1>2, <1>6, <1>7 DEF OneAtATime, CopiesOK, LoadSteps
  <1>10. OwnersOK(o)'
    BY <1>1, <1>2, <1>3, <1>6, <1>7 DEF OneAtATime, OwnersOK
  <1>11. c \in CardIds => /\ Exists(c) /\ disk.status[c] # "clean"
                          /\ \A t \in SessionIds \ {s} : disk.mounted[t] # c
    BY DEF Sequential, RecordsOK, Unmounted
  <1>12. \A d \in CardIds : InVfs(d)' \/ vfs'.clip = d => d # c /\ (InVfs(d) \/ vfs.clip = d)
    BY <1>7 DEF InVfs, Sequential, SlotsFree, Unmounted
  <1> QED
    BY <1>1, <1>8, <1>9, <1>10, <1>11, <1>12, ChangeAlone

LEMMA SwitchUpdateAlone ==
    ASSUME IInv, Sequential, NoOverlap, NEW o \in Launches, SwitchUpdate(o)
    PROVE  Sequential'
  <1>1. PICK s, c : s = op[o].ses /\ c = op[o].card
    OBVIOUS
  <1>2. Settled /\ op[o].pc = "swUpdate"
    BY DEF SwitchUpdate, At
  <1>3. /\ o \in Ops /\ LaunchKnown(o) /\ op[o] \in OpRecord /\ s \in SessionIds /\ SessionExists(s)
    BY <1>1, <1>2, Launching
  <1>4. c \in CardIds \cup {None} /\ disk.mounted[s] = c
    BY <1>1, <1>2, <1>3 DEF LaunchKnown, OpRecord
  <1>5. SetMounted(s, c) /\ Finish(o) /\ mutex' = None /\ UNCHANGED <<copies, current, fate>>
    BY <1>1, <1>3 DEF SwitchUpdate, EndLaunch
  <1>6. \A d \in CardIds : ~Loads(o, d)
    BY <1>2 DEF Loads
  <1> QED
    BY <1>2, <1>3, <1>4, <1>5, <1>6, PutBackAlone

LEMMA SessionOpsAlone ==
    ASSUME IInv, Sequential, NoOverlap, AnswerEdit \/ SaveEdit \/ DeleteSession
    PROVE  Sequential'
  <1>1. {"edit", "delSession"} \subseteq Ops \ Launches
    BY Names
  <1>2. CASE AnswerEdit
    <2>1. Settled /\ op["edit"].pc = "edForm" /\ OnlyMoves
      BY <1>2 DEF AnswerEdit, At
    <2>2. OneAtATime("edit") /\ \A d \in CardIds : ~Loads("edit", d)
      BY <1>1, <2>1, Acting DEF Loads
    <2>3. CASE Finish("edit")
      BY <1>1, <2>1, <2>2, <2>3, EndAlone
    <2>4. CASE Goto("edit", "edSave")
      <3>1. /\ Continue("edit", [op["edit"] EXCEPT !.pc = "edSave"]) /\ op'["edit"].pc = "edSave"
            /\ op'["edit"].card = op["edit"].card /\ op'["edit"].ses = op["edit"].ses
            /\ op'["edit"].res = op["edit"].res
        BY <1>1, <2>4, Record
      <3>2. disk' = disk
        BY <2>1, OnlyMoved
      <3>3. SameUse("edit")
        BY <2>1, <3>1, SameUseAt DEF FsckSteps
      <3>4. StepKnown("edit")'
        BY <2>1, <2>2, <3>1, <3>2, Kinds DEF OneAtATime, StepKnown, Workers, EjectFrom, Ejects, SessionExists
      <3> QED
        BY <1>1, <2>1, <3>1, <3>3, <3>4, MoveAlone
    <2> QED
      BY <1>2, <2>3, <2>4 DEF AnswerEdit
  <1>3. CASE SaveEdit
    <2>1. PICK s, c : s = op["edit"].ses /\ c = op["edit"].card
      OBVIOUS
    <2>2. Settled /\ op["edit"].pc = "edSave"
      BY <1>3 DEF SaveEdit, At
    <2>3. OneAtATime("edit") /\ op["edit"] \in OpRecord
      BY <1>1, <2>2, Acting DEF IInv, Running, OpsOK
    <2>4. /\ SessionExists(s) /\ s \in SessionIds /\ disk.mounted[s] = c /\ c \in CardIds \cup {None}
      BY <2>1, <2>2, <2>3 DEF OneAtATime, StepKnown, OpRecord
    <2>5. mutex = None
      BY <1>1, <2>3, NoMutex DEF OneAtATime
    <2>6. /\ SetMounted(s, c) /\ Finish("edit") /\ UNCHANGED <<copies, current, fate>> /\ mutex' = None
      BY <1>3, <2>1, <2>4, <2>5 DEF SaveEdit
    <2>7. \A d \in CardIds : ~Loads("edit", d)
      BY <2>2 DEF Loads
    <2> QED
      BY <1>1, <2>2, <2>4, <2>6, <2>7, PutBackAlone
  <1>4. CASE DeleteSession
    <2>0. PICK o : o = "delSession"
      OBVIOUS
    <2>1. PICK s : s = op[o].ses
      OBVIOUS
    <2>2. Settled /\ op[o].pc = "dsDelete" /\ o \in Ops \ Launches
      BY <1>1, <1>4, <2>0 DEF DeleteSession, At
    <2>3. OneAtATime(o)
      BY <2>2, Acting
    <2>4. s \in SessionIds /\ mutex = None
      BY <2>0, <2>1, <2>2, <2>3, NoMutex DEF OneAtATime, StepKnown
    <2>5. /\ SetMounted(s, Gone) /\ Finish(o) /\ UNCHANGED <<copies, current, fate>> /\ mutex' = None
      BY <1>4, <2>0, <2>1, <2>4 DEF DeleteSession
    <2>6. /\ Continue(o, NotRunning) /\ StepKnown(o)' /\ op'[o].pc = "idle"
          /\ \A d \in CardIds : ~Loads(o, d)' /\ ~Checks(o, d)'
      BY <2>2, <2>5, Ended
    <2>7. Cur = current /\ Held = current.card /\ ~fatal
      BY <2>2, NothingWaits DEF Sequential
    <2>8. /\ Cur' = Changed(s, Gone)
          /\ Held' = IF Releases(s, Gone) THEN current.card ELSE Changed(s, Gone).card
      BY <2>2, <2>4, <2>5, ChangeShape
    <2>9. (Cur'.id = None \/ Cur' = Cur) /\ Held' = Held
      BY <2>7, <2>8 DEF Changed, Releases, NoSession
    <2>10. /\ owner' = owner /\ emu' = emu /\ vfs' = vfs /\ stale' = stale /\ stuck' = stuck /\ fatal' = fatal
      BY <2>5 DEF copies, fate
    <2>11. \A d \in CardIds : ~Loads(o, d)
      BY <2>2 DEF Loads
    <2>12. EmulatorOK(o)' /\ CopiesOK(o)' /\ OwnersOK(o)'
      BY <2>2, <2>3, <2>6, <2>7, <2>9, <2>10, <2>11 DEF OneAtATime, EmulatorOK, CopiesOK, OwnersOK
    <2>13. \A d \in CardIds : InVfs(d)' \/ vfs'.clip = d => d # Gone /\ (InVfs(d) \/ vfs.clip = d)
      BY <2>10, Nothing DEF InVfs
    <2> QED
      BY <2>2, <2>4, <2>5, <2>6, <2>12, <2>13, Nothing, ChangeAlone
  <1> QED
    BY <1>2, <1>3, <1>4

-----------------------------------------------------------------------------
(***************************************************************************)
(* One operation at a time: the VFS.                                       *)
(***************************************************************************)

VfsOps == {"browse", "file", "paste"}

LEMMA VfsActing ==
    ASSUME IInv, Sequential, NEW o \in VfsOps, NEW pc, pc # "idle", At(o, pc)
    PROVE  /\ Settled /\ op[o].pc = pc /\ OneAtATime(o) /\ StepKnown(o)
           /\ op[o].card \in CardIds /\ op[o] \in OpRecord /\ Cur = current /\ jobs = <<>>
           /\ o \in Writers => op[o].res = None
  <1>1. o \in Ops /\ Settled /\ op[o].pc = pc /\ o \in CardOps
    BY Names DEF VfsOps, At, CardOps, Writers
  <1>2. OneAtATime(o) /\ StepKnown(o)
    BY <1>1, Acting DEF OneAtATime
  <1>3. op[o].card \in CardIds
    BY <1>1, CardOf
  <1>4. Cur = current /\ jobs = <<>>
    BY <1>1, NothingWaits DEF Sequential
  <1>5. op[o] \in OpRecord
    BY <1>1 DEF IInv, Running, OpsOK
  <1>6. o \in Writers => op[o].res = None
    BY <1>2, Kinds DEF StepKnown
  <1> QED
    BY <1>1, <1>2, <1>3, <1>4, <1>5, <1>6

\* Cards are claimed or released for the VFS only.
LEMMA VfsAlone ==
    ASSUME IInv, Sequential, NoOverlap, Settled, NEW o \in VfsOps, NEW rec,
           Continue(o, rec), op[o].pc # "idle" \/ rec.pc # "idle", rec.pc \notin FsckSteps,
           UNCHANGED <<jobs, current, fatal, emu, stuck>>, disk'.mounted = disk.mounted,
           RecordsOK', lost' = {},
           \A c \in CardIds : InVfs(c)' \/ vfs'.clip = c => InVfs(c) \/ vfs.clip = c \/ Unmounted(c),
           \A x \in stale' : x \in stale \/ (x[1] = "emu" /\ current.id = None),
           \A c \in CardIds : owner[c] \in {"cloudpilot", "fstools"} \/ owner'[c] = "cloudpilot"
                                => owner'[c] = owner[c],
           StepKnown(o)'
    PROVE  Sequential'
  <1>1. o \in Ops \ Launches /\ o # "insert"
    BY Names DEF VfsOps, Launches
  <1>2. OneAtATime(o) /\ op'[o] = rec
    BY <1>1, GoesOn
  <1>3. ~fatal /\ stuck \subseteq CardIds
    BY NothingWaits DEF Sequential, IInv, Data
  <1>4. \A c \in CardIds : ~Loads(o, c) /\ ~Loads(o, c)' /\ ~Checks(o, c)'
    BY <1>1, <1>2 DEF Loads, Checks
  <1>5. \A c \in stuck : owner'[c] = owner[c] /\ c \in CardIds
    BY <1>2, <1>3, StuckOwners DEF OneAtATime
  <1>6. \A c \in CardIds : owner'[c] = "cloudpilot" <=> owner[c] = "cloudpilot"
    OBVIOUS
  <1> QED
    BY <1>1, <1>4, <1>5, <1>6, WorkAlone

\* What a writer knows: the card it writes to is in a slot.
LEMMA WriterKnown ==
    ASSUME NEW o \in Writers, op'[o].res = None, op'[o].pc \notin EjectFrom,
           op'[o].pc \notin {"idle", "paLoad"} => InVfs(op[o].card)',
           op'[o].pc = "paLoad" => Unmounted(op[o].card)'
    PROVE  StepKnown(o)'
  <1>1. o \notin Workers \cup Launches \cup Ejects \cup {"edit", "delSession"}
    BY Kinds
  <1> QED
    BY <1>1 DEF StepKnown, Workers

LEMMA BrowseClaimAlone ==
    ASSUME IInv, Sequential, NoOverlap, BrowseClaim
    PROVE  Sequential'
  <1>1. PICK c : c = op["browse"].card
    OBVIOUS
  <1>2. PICK room : room = IF vfs.primary # None /\ vfs.primary = vfs.clip THEN Swapped ELSE vfs
    OBVIOUS
  <1>3. "browse" \in VfsOps /\ "browse" \in Checkers /\ "browse" \in Ops \ Launches /\ "vfGet" # "idle"
        /\ At("browse", "vfGet")
    BY Names DEF VfsOps, Checkers, BrowseClaim
  <1>4. /\ Settled /\ op["browse"].pc = "vfGet" /\ OneAtATime("browse") /\ StepKnown("browse")
        /\ c \in CardIds /\ Cur = current /\ jobs = <<>>
    BY <1>1, <1>3, VfsActing
  <1>5. Exists(c) /\ Unmounted(c) /\ ~InVfs(c)
    BY <1>1, <1>4 DEF StepKnown, CardKnown, Attached, EjectFrom
  <1>6. \A w \in Writers : op[w].pc \notin SyncSteps
    BY <1>4, NoSync DEF OneAtATime, SyncSteps
  <1>7. ~Loads("browse", c) /\ ~Checks("browse", c) /\ op["browse"].pc \notin OpenSteps
    BY <1>4 DEF Loads, Launches, Checks, FsckSteps, OpenSteps
  <1>8. owner[c] = "none" \/ c \in stuck
    BY <1>3, <1>4, <1>5, <1>7, Unowned
  <1>9. /\ Swapped \in Slots /\ Swapped.primary = vfs.secondary
        /\ Swapped.secondary = vfs.primary /\ Swapped.clip = vfs.clip /\ vfs \in Slots
    BY SwappedShape DEF IInv, Data
  <1>10. /\ room \in Slots /\ room.clip = vfs.clip /\ InVfs(room.primary) /\ InVfs(room.secondary)
    BY <1>2, <1>9 DEF InVfs
  <1>11. PICK out : out = room.primary
    OBVIOUS
  <1>12. out \in CardIds \cup {None} /\ (out # None => owner[out] = "vfs") /\ out # c
    BY <1>5, <1>10, <1>11 DEF Slots, IInv, Claims, VfsClaims
  <1>13. CASE owner[c] # "none"
    BY <1>1, <1>8, <1>13, DieAlone DEF BrowseClaim
  <1>14. CASE owner[c] = "none"
    <2> DEFINE claimed == [d \in CardIds |->
                             IF d = c THEN "vfs" ELSE IF d = out THEN "none" ELSE owner[d]]
               outdated == IF <<"browse", c>> \in stale THEN {<<"vfs", c>>} ELSE {}
    <2> DEFINE rest == IF out = None THEN stale ELSE StaleWithout(out)
    <2>1. /\ IF op["browse"].res = None
               THEN /\ owner' = claimed /\ vfs' = [room EXCEPT !.primary = None]
                    /\ stale' = rest /\ Goto("browse", "vfLoad")
               ELSE \E mounted \in BOOLEAN :
                      /\ owner' = IF mounted THEN claimed ELSE [claimed EXCEPT ![c] = "none"]
                      /\ vfs' = [room EXCEPT !.primary = IF mounted THEN c ELSE None]
                      /\ stale' = (IF mounted THEN rest \cup outdated ELSE rest) \ {<<"browse", c>>}
                      /\ Finish("browse")
          /\ UNCHANGED <<disk, emu, session, fate>>
      BY <1>1, <1>2, <1>5, <1>11, <1>12, <1>14 DEF BrowseClaim
    <2>2. outdated = {}
      BY <1>4 DEF OneAtATime, CopiesOK
    <2>3. stale' \subseteq stale
      <3>1. rest \subseteq stale
        BY <1>6 DEF StaleWithout
      <3> HIDE DEF rest, outdated, claimed
      <3> QED
        BY <2>1, <2>2, <3>1
    <2> HIDE DEF outdated, rest
    <2>4. PICK x \in {None, c}, w \in {"none", "vfs"} :
            /\ vfs' = [room EXCEPT !.primary = x]
            /\ \A d \in CardIds : owner'[d] = IF d = c THEN w ELSE IF d = out THEN "none" ELSE owner[d]
            /\ (Goto("browse", "vfLoad") /\ x = None) \/ Finish("browse")
      <3>1. CASE /\ owner' = claimed /\ vfs' = [room EXCEPT !.primary = None] /\ Goto("browse", "vfLoad")
        BY <3>1
      <3>2. CASE /\ owner' = claimed /\ vfs' = [room EXCEPT !.primary = c] /\ Finish("browse")
        BY <3>2
      <3>3. CASE /\ owner' = [claimed EXCEPT ![c] = "none"] /\ vfs' = [room EXCEPT !.primary = None]
                 /\ Finish("browse")
        <4>1. \A d \in CardIds : [claimed EXCEPT ![c] = "none"][d]
                                   = IF d = c THEN "none" ELSE IF d = out THEN "none" ELSE owner[d]
          OBVIOUS
        <4> HIDE DEF claimed
        <4> QED
          BY <3>3, <4>1
      <3> QED
        BY <2>1, <3>1, <3>2, <3>3
    <2>5. vfs'.primary = x /\ vfs'.secondary = room.secondary /\ vfs'.clip = vfs.clip
      BY <1>10, <2>4 DEF Slots
    <2>6. \A d \in CardIds : InVfs(d)' => InVfs(d) \/ d = x
      BY <1>10, <2>5 DEF InVfs
    <2>7. \A d \in CardIds : InVfs(d)' \/ vfs'.clip = d => InVfs(d) \/ vfs.clip = d \/ Unmounted(d)
      BY <1>5, <2>5, <2>6, Nothing
    <2>8. \A d \in CardIds : owner[d] \in {"cloudpilot", "fstools"} \/ owner'[d] = "cloudpilot"
                               => owner'[d] = owner[d]
      BY <1>12, <1>14, <2>4, Nothing
    <2>9. /\ disk' = disk /\ jobs' = jobs /\ current' = current /\ fatal' = fatal /\ emu' = emu
          /\ stuck' = stuck /\ lost' = lost /\ Cur' = Cur
      BY <1>4, <2>1 DEF session, fate, Cur, Pending
    <2>10. RecordsOK' /\ lost' = {} /\ Exists(c)' /\ Unmounted(c)'
      BY <1>5, <2>9 DEF Sequential, RecordsOK, Unmounted, Exists
    <2>11. CASE Finish("browse")
      <3>1. Continue("browse", NotRunning) /\ NotRunning.pc = "idle" /\ StepKnown("browse")'
            /\ "idle" \notin FsckSteps
        BY <1>3, <2>11, Ended DEF FsckSteps
      <3> QED
        BY <1>3, <1>4, <2>3, <2>7, <2>8, <2>9, <2>10, <3>1, VfsAlone
    <2>12. CASE Goto("browse", "vfLoad") /\ x = None
      <3>1. /\ Continue("browse", [op["browse"] EXCEPT !.pc = "vfLoad"])
            /\ [op["browse"] EXCEPT !.pc = "vfLoad"].pc = "vfLoad" /\ "vfLoad" \notin FsckSteps
            /\ op'["browse"].pc = "vfLoad" /\ op'["browse"].card = c
        BY <1>1, <1>3, <2>12, Record DEF FsckSteps
      <3>2. ~InVfs(c)'
        BY <1>4, <1>5, <2>6, <2>12, Nothing
      <3>3. StepKnown("browse")'
        BY <1>1, <1>3, <1>4, <2>9, <2>10, <3>1, <3>2, CheckerKnown
      <3> QED
        BY <1>3, <1>4, <2>3, <2>7, <2>8, <2>9, <2>10, <3>1, <3>3, VfsAlone
    <2> QED
      BY <2>4, <2>11, <2>12
  <1> QED
    BY <1>13, <1>14

\* A card that is opened is owned by the VFS, and in no session.
LEMMA Opening ==
    ASSUME IInv, Sequential, NEW o \in {"browse", "paste"}, NEW pc \in OpenSteps, At(o, pc)
    PROVE  /\ o \in VfsOps /\ pc # "idle" /\ owner[op[o].card] = "vfs" /\ Unmounted(op[o].card)
           /\ ~InVfs(op[o].card)
  <1>1. o \in VfsOps /\ pc # "idle" /\ o \in Ops
    BY Names DEF VfsOps, OpenSteps
  <1>2. op[o].pc = pc /\ op[o].card \in CardIds /\ StepKnown(o)
    BY <1>1, VfsActing
  <1>3. Opens(o, op[o].card) /\ Opened(op[o].card)
    BY <1>2 DEF Opens, Opened
  <1>4. owner[op[o].card] = "vfs" /\ ~InVfs(op[o].card)
    BY <1>2, <1>3 DEF IInv, Claims, VfsClaims, SlotsOK
  <1>5. Unmounted(op[o].card)
    <2>1. (pc = "vfLoad" /\ o = "browse") \/ (pc = "paLoad" /\ o = "paste")
      BY <1>1, <1>2 DEF OpenSteps, IInv, Running, OpsOK, Fits, StepFits
    <2> QED
      BY <1>2, <2>1 DEF StepKnown, CardKnown, Attached, EjectFrom
  <1> QED
    BY <1>1, <1>4, <1>5

\* The card is in its slot, or it is released.
LEMMA LoadedAlone ==
    ASSUME IInv, Sequential, NoOverlap, NEW o \in {"browse", "paste"}, NEW pc \in OpenSteps, At(o, pc),
           NEW c, c = op[o].card, NEW rec, Continue(o, rec), rec.pc \notin FsckSteps,
           \/ /\ vfs' = [vfs EXCEPT ![IF o = "browse" THEN "primary" ELSE "secondary"] = c]
              /\ UNCHANGED owner
           \/ owner' = [owner EXCEPT ![c] = "none"] /\ UNCHANGED vfs,
           stale' = stale \ {<<"vfs", c>>}, UNCHANGED <<disk, emu, session, fate>>, StepKnown(o)'
    PROVE  Sequential'
  <1>1. o \in VfsOps /\ pc # "idle" /\ owner[c] = "vfs" /\ Unmounted(c)
    BY Opening
  <1>2. Settled /\ op[o].pc = pc /\ c \in CardIds
    BY <1>1, VfsActing
  <1>3. vfs \in Slots /\ owner \in [CardIds -> Owners]
    BY DEF IInv, Data
  <1>4. \A d \in CardIds : InVfs(d)' \/ vfs'.clip = d => InVfs(d) \/ vfs.clip = d \/ d = c
    BY <1>3 DEF Slots, InVfs
  <1>5. \A d \in CardIds : owner[d] \in {"cloudpilot", "fstools"} \/ owner'[d] = "cloudpilot"
                             => owner'[d] = owner[d]
    BY <1>1, <1>3
  <1>6. /\ disk' = disk /\ jobs' = jobs /\ current' = current /\ fatal' = fatal /\ emu' = emu
        /\ stuck' = stuck /\ lost' = lost
    BY DEF session, fate
  <1>7. RecordsOK' /\ lost' = {}
    BY <1>6 DEF Sequential, RecordsOK, Unmounted, Exists
  <1> QED
    BY <1>1, <1>2, <1>4, <1>5, <1>6, <1>7, VfsAlone

LEMMA BrowseLoadAlone ==
    ASSUME IInv, Sequential, NoOverlap, BrowseLoad
    PROVE  Sequential'
  <1>1. PICK c : c = op["browse"].card
    OBVIOUS
  <1>2. At("browse", "vfLoad") /\ "vfLoad" \in OpenSteps /\ "browse" \in Ops
    BY Names DEF BrowseLoad, OpenSteps
  <1>3. owner[c] = "vfs"
    BY <1>1, <1>2, Opening
  <1>4. /\ \/ vfs' = [vfs EXCEPT !["primary"] = c] /\ UNCHANGED owner
           \/ owner' = [owner EXCEPT ![c] = "none"] /\ UNCHANGED vfs
        /\ stale' = stale \ {<<"vfs", c>>} /\ Finish("browse") /\ UNCHANGED <<disk, emu, session, fate>>
    BY <1>1, <1>3 DEF BrowseLoad
  <1>5. Continue("browse", NotRunning) /\ NotRunning.pc \notin FsckSteps /\ StepKnown("browse")'
    BY <1>2, <1>4, Ended DEF FsckSteps
  <1> QED
    BY <1>1, <1>2, <1>4, <1>5, LoadedAlone

LEMMA PasteLoadAlone ==
    ASSUME IInv, Sequential, NoOverlap, PasteLoad
    PROVE  Sequential'
  <1>1. PICK c : c = op["paste"].card
    OBVIOUS
  <1>2. /\ At("paste", "paLoad") /\ "paLoad" \in OpenSteps /\ "paste" \in Ops /\ "paste" \in VfsOps
        /\ "paste" \in Writers /\ "paLoad" # "idle"
    BY Names, Kinds DEF PasteLoad, OpenSteps, VfsOps
  <1>3. owner[c] = "vfs"
    BY <1>1, <1>2, Opening
  <1>4. op["paste"] \in OpRecord /\ op["paste"].res = None
    BY <1>2, VfsActing
  <1>5. stale' = stale \ {<<"vfs", c>>} /\ UNCHANGED <<disk, emu, session, fate>>
    BY <1>1, <1>3 DEF PasteLoad
  <1>6. CASE Finish("paste") /\ \/ vfs' = [vfs EXCEPT !["secondary"] = c] /\ UNCHANGED owner
                                \/ owner' = [owner EXCEPT ![c] = "none"] /\ UNCHANGED vfs
    <2>1. Continue("paste", NotRunning) /\ NotRunning.pc \notin FsckSteps /\ StepKnown("paste")'
      BY <1>2, <1>6, Ended DEF FsckSteps
    <2> QED
      BY <1>1, <1>2, <1>5, <1>6, <2>1, LoadedAlone
  <1>7. ASSUME NEW pc \in PasteResults,
               Continue("paste", [op["paste"] EXCEPT !.pc = pc, !.card = vfs.primary]),
               vfs.primary # None, vfs' = [vfs EXCEPT !["secondary"] = c], UNCHANGED owner
        PROVE  Sequential'
    <2> DEFINE rec == [op["paste"] EXCEPT !.pc = pc, !.card = vfs.primary]
    <2>1. rec.pc = pc /\ rec.card = vfs.primary /\ rec.res = None
      BY <1>4 DEF OpRecord
    <2> HIDE DEF rec
    <2>2. op'["paste"] = rec
      BY <1>2, <1>7 DEF Continue, IInv, Running, OpsOK, rec
    <2>3. pc \notin FsckSteps \cup EjectFrom \cup {"paLoad"}
      BY DEF PasteResults, FsckSteps, EjectFrom
    <2>4. vfs'.primary = vfs.primary
      BY <1>7 DEF IInv, Data, Slots
    <2>5. StepKnown("paste")'
      BY <1>2, <2>1, <2>2, <2>3, <2>4, WriterKnown DEF InVfs
    <2>6. Continue("paste", rec)
      BY <1>7 DEF rec
    <2> QED
      BY <1>1, <1>2, <1>5, <1>7, <2>1, <2>3, <2>5, <2>6, LoadedAlone
  <1>8. \/ Finish("paste") /\ \/ vfs' = [vfs EXCEPT !["secondary"] = c] /\ UNCHANGED owner
                              \/ owner' = [owner EXCEPT ![c] = "none"] /\ UNCHANGED vfs
        \/ \E pc \in PasteResults :
             /\ Continue("paste", [op["paste"] EXCEPT !.pc = pc, !.card = vfs.primary])
             /\ vfs.primary # None /\ vfs' = [vfs EXCEPT !["secondary"] = c] /\ UNCHANGED owner
    BY <1>1, <1>3 DEF PasteLoad, Finish
  <1> QED
    BY <1>6, <1>7, <1>8

\* What was changed in a slot is written to disk.
LEMMA SyncAlone ==
    ASSUME IInv, Sequential, NoOverlap, NEW o \in Writers, NEW pc \in SyncSteps, At(o, pc),
           NEW next, SyncSlot(o, next),
           \/ next = NotRunning
           \/ next = [op[o] EXCEPT !.pc = "paSource", !.card = vfs.secondary]
    PROVE  Sequential'
  <1>1. o \in VfsOps /\ pc # "idle" /\ pc # "paLoad" /\ o \in Ops \ Launches
    BY Names, Kinds DEF VfsOps, SyncSteps
  <1>2. PICK c : c = op[o].card
    OBVIOUS
  <1>3. /\ Settled /\ op[o].pc = pc /\ OneAtATime(o) /\ StepKnown(o)
        /\ c \in CardIds /\ op[o] \in OpRecord /\ op[o].res = None
    BY <1>1, <1>2, VfsActing
  <1>4. InVfs(c)
    BY <1>1, <1>2, <1>3 DEF StepKnown
  <1>5. owner[c] = "vfs" /\ Unmounted(c)
    BY <1>3, <1>4 DEF IInv, Claims, VfsClaims, Sequential, SlotsFree
  <1>6. <<o, c>> \notin stale
    BY <1>1, <1>3 DEF VfsOps, OneAtATime, CopiesOK
  <1> DEFINE h == IF disk.health[c] = "ok" THEN "ok" ELSE "unknown"
  <1>7. /\ Wrote("vfs", c) /\ Continue(o, next)
        /\ vfs' \in {vfs, [vfs EXCEPT !.clip = None]}
        /\ disk' = [disk EXCEPT !.health[c] = h]
        /\ UNCHANGED <<owner, emu, session, stuck, fatal>>
    BY <1>2, <1>5, <1>6 DEF SyncSlot
  <1>8. h = "ok" \/ (disk.health[c] # "ok" /\ c \notin NoFsck) \/ c \in NoFsck
    OBVIOUS
  <1> HIDE DEF h
  <1>9. RecordsOK' /\ disk'.mounted = disk.mounted
    BY <1>3, <1>7, <1>8, HealthRecords DEF Sequential
  <1>10. \A d \in CardIds : ~Loads(o, d)
    BY <1>1 DEF Loads, VfsOps
  <1>11. lost' = {} /\ \A x \in stale' : x \in stale \/ (x[1] = "emu" /\ current.id = None)
    BY <1>1, <1>3, <1>4, <1>5, <1>7, <1>10, WroteAlone
  <1>12. /\ vfs'.primary = vfs.primary /\ vfs'.secondary = vfs.secondary /\ vfs'.clip \in {vfs.clip, None}
    BY <1>7 DEF IInv, Data, Slots
  <1>13. \A d \in CardIds : InVfs(d)' \/ vfs'.clip = d => InVfs(d) \/ vfs.clip = d
    BY <1>12, Nothing DEF InVfs
  <1>14. jobs' = jobs /\ current' = current /\ fatal' = fatal /\ emu' = emu /\ stuck' = stuck /\ owner' = owner
    BY <1>7 DEF session
  <1>15. StepKnown(o)' /\ next.pc \notin FsckSteps
    <2>1. op'[o] = next
      BY <1>1, <1>7 DEF Continue, IInv, Running, OpsOK
    <2>2. CASE next = NotRunning
      BY <1>1, <1>7, <2>2, Ended DEF Finish, FsckSteps
    <2>3. CASE next = [op[o] EXCEPT !.pc = "paSource", !.card = vfs.secondary]
      <3>1. next.pc = "paSource" /\ next.card = vfs.secondary /\ next.res = None
        BY <1>3, <2>3 DEF OpRecord
      <3> QED
        BY <1>12, <2>1, <3>1, WriterKnown DEF InVfs, EjectFrom, FsckSteps
    <2> QED
      BY <2>2, <2>3
  <1> QED
    BY <1>1, <1>3, <1>7, <1>9, <1>11, <1>13, <1>14, <1>15, VfsAlone

LEMMA SyncStepsAlone ==
    ASSUME IInv, Sequential, NoOverlap, FileSync \/ PasteSync
    PROVE  Sequential'
  <1>1. {"fiSync", "paSync", "paSource"} = SyncSteps /\ Writers = {"file", "paste"}
    BY DEF SyncSteps, Writers
  <1>2. CASE FileSync
    BY <1>1, <1>2, SyncAlone DEF FileSync
  <1>3. CASE PasteSync
    <2>1. PICK pc \in SyncSteps,
               next \in {NotRunning, [op["paste"] EXCEPT !.pc = "paSource", !.card = vfs.secondary]} :
            At("paste", pc) /\ SyncSlot("paste", next)
      BY <1>1, <1>3 DEF PasteSync
    <2> QED
      BY <1>1, <2>1, SyncAlone
  <1> QED
    BY <1>2, <1>3

LEMMA FileErrorAlone ==
    ASSUME IInv, Sequential, NoOverlap, NEW o \in Writers, FileError(o)
    PROVE  Sequential'
  <1>1. PICK c, p : c = op[o].card /\ p = vfs.primary
    OBVIOUS
  <1>2. /\ o \in VfsOps /\ o \in Ops \ Launches /\ At(o, "fiError")
        /\ "fiError" \notin {"idle", "paLoad"} \cup SyncSteps
    BY Names, Kinds DEF VfsOps, FileError, SyncSteps
  <1>3. /\ Settled /\ op[o].pc = "fiError" /\ OneAtATime(o) /\ StepKnown(o) /\ c \in CardIds
    BY <1>1, <1>2, VfsActing
  <1>4. InVfs(c)
    BY <1>1, <1>2, <1>3 DEF StepKnown
  <1>5. Exists(c)
    BY <1>3, <1>4 DEF IInv, Claims, VfsClaims, OwnedExist
  <1>6. p \in CardIds \cup {None} /\ (p # None => ReleaseOk(p))
    BY <1>1 DEF ReleaseOk, IInv, Claims, VfsClaims, Data, Slots
  <1>7. /\ disk' = WithStatus(c, "dirty") /\ (p # None => ReleaseCard(p))
        /\ (p = None => owner' = owner /\ vfs' = vfs /\ stale' = stale)
        /\ Finish(o) /\ UNCHANGED <<emu, session, fate>>
    BY <1>1, <1>5, <1>6 DEF FileError, ReleaseCard
  <1>8. \A w \in Writers : op[w].pc \notin SyncSteps
    BY <1>2, <1>3, NoSync DEF OneAtATime
  <1>9. /\ \A d \in CardIds : InVfs(d)' => InVfs(d)
        /\ vfs'.clip = vfs.clip /\ stale' \subseteq stale
        /\ \A d \in CardIds : owner[d] \in {"cloudpilot", "fstools"} \/ owner'[d] = "cloudpilot"
                                => owner'[d] = owner[d]
    <2>1. CASE p = None
      BY <1>7, <2>1 DEF InVfs
    <2>2. CASE p # None
      <3>1. /\ \A d \in CardIds : InVfs(d)' <=> InVfs(d) /\ d # p
            /\ vfs'.clip = vfs.clip /\ stale' \subseteq stale
            /\ \A d \in CardIds : owner'[d] = "cloudpilot" <=> owner[d] = "cloudpilot"
            /\ \A d \in CardIds : owner[d] # "vfs" => owner'[d] = owner[d]
        BY <1>6, <1>7, <1>8, <2>2, ReleaseKeeps
      <3> QED
        BY <3>1
    <2> QED
      BY <2>1, <2>2
  <1>10. RecordsOK' /\ disk'.mounted = disk.mounted
    BY <1>3, <1>7, StatusRecords DEF Status, Sequential
  <1>11. Continue(o, NotRunning) /\ NotRunning.pc = "idle" /\ StepKnown(o)' /\ "idle" \notin FsckSteps
    BY <1>2, <1>7, Ended DEF FsckSteps
  <1>12. /\ jobs' = jobs /\ current' = current /\ fatal' = fatal /\ emu' = emu
         /\ stuck' = stuck /\ lost' = {}
    BY <1>7 DEF session, fate, Sequential
  <1> QED
    BY <1>2, <1>3, <1>9, <1>10, <1>11, <1>12, VfsAlone

\* While nothing is shown, no operation loads, checks or opens a card.
LEMMA ReadyOwners ==
    ASSUME IInv, Sequential, Ready, NEW c \in CardIds, Unmounted(c), ~InVfs(c)
    PROVE  owner[c] = "none" \/ c \in stuck
  <1>1. PICK o \in Ops : OneAtATime(o)
    BY DEF Sequential
  <1>2. Settled /\ (op[o].pc = "idle" \/ (o \notin Shielded /\ op[o].pc \notin ModalSteps))
    BY DEF Ready, Modal, Active
  <1>3. op[o].pc \notin FsckSteps
    BY <1>2 DEF FsckSteps, ModalSteps, LoaderSteps
  <1>4. ~Loads(o, c) /\ op[o].pc \notin {"vfLoad"}
    BY <1>2 DEF Loads, ModalSteps
  <1>5. op[o].pc # "paLoad"
    BY <1>2 DEF IInv, Running, OpsOK, Fits, StepFits, Shielded
  <1> QED
    BY <1>1, <1>2, <1>3, <1>4, <1>5, Unowned DEF Checks, OpenSteps

LEMMA StartPasteAlone ==
    ASSUME IInv, Sequential, NoOverlap, StartPaste
    PROVE  Sequential'
  <1>1. PICK c, out : c = vfs.clip /\ out = vfs.secondary
    OBVIOUS
  <1>2. c \in CardIds /\ out \in CardIds \cup {None} /\ vfs.primary \in CardIds /\ vfs \in Slots
    BY <1>1 DEF StartPaste, IInv, Data, Slots
  <1>3. Unmounted(c)
    BY <1>1, <1>2 DEF Sequential, SlotsFree
  <1>4. out # None => owner[out] = "vfs"
    BY <1>1, <1>2 DEF InVfs, IInv, Claims, VfsClaims
  <1>5. "paste" \in VfsOps /\ "paste" \in Writers /\ "paste" \in Ops \ Launches
    BY Names, Kinds DEF VfsOps
  <1>6. CASE InVfs(c)
    <2>1. PICK pc \in PasteResults : Begin("paste", pc, vfs.primary, None) /\ OnlyMoves
      BY <1>1, <1>6 DEF StartPaste
    <2>2. /\ pc \notin {"ldData", "mtStatus", "mtSession", "swOpen", "idle", "paLoad"} \cup FsckSteps
          /\ pc \notin EjectFrom
      BY DEF PasteResults, FsckSteps, EjectFrom
    <2>3. Settled /\ op'["paste"].pc = pc /\ op'["paste"].card = vfs.primary /\ op'["paste"].res = None
      BY <1>5, <2>1, BeginShape
    <2>4. vfs' = vfs
      BY <1>5, <2>1, <2>3, OnlyMoved
    <2>5. StepKnown("paste")'
      BY <1>5, <2>2, <2>3, <2>4, WriterKnown DEF InVfs
    <2> QED
      BY <1>5, <2>1, <2>2, <2>5, StartAlone
  <1>7. CASE ~InVfs(c) /\ owner[c] # "none"
    <2>1. Ready /\ Die
      BY <1>1, <1>7 DEF StartPaste
    <2>2. c \in stuck
      BY <1>2, <1>3, <1>7, <2>1, ReadyOwners
    <2> QED
      BY <2>1, <2>2, DieAlone
  <1>8. CASE ~InVfs(c) /\ owner[c] = "none"
    <2>1. /\ Begin("paste", "paLoad", c, None)
          /\ owner' = [d \in CardIds |->
                         IF d = c THEN "vfs" ELSE IF d = out THEN "none" ELSE owner[d]]
          /\ vfs' = [vfs EXCEPT !.secondary = None]
          /\ stale' = IF out = None THEN stale ELSE StaleWithout(out)
          /\ UNCHANGED <<disk, emu, session, fate>>
      BY <1>1, <1>4, <1>8 DEF StartPaste
    <2>2. /\ Settled /\ op["paste"].pc = "idle" /\ Continue("paste", Started("paLoad", c, None))
          /\ Started("paLoad", c, None).pc = "paLoad" /\ op'["paste"].pc = "paLoad"
          /\ op'["paste"].card = c /\ op'["paste"].res = None
      BY <1>5, <2>1, BeginShape
    <2>3. OneAtATime("paste") /\ "paLoad" # "idle" /\ "paLoad" \notin FsckSteps \cup EjectFrom
      BY <1>5, <2>2, GoesOn DEF FsckSteps, EjectFrom
    <2>4. \A w \in Writers : op[w].pc \notin SyncSteps
      BY <2>2, <2>3, NoSync DEF OneAtATime, SyncSteps
    <2>5. stale' \subseteq stale
      BY <2>1, <2>4 DEF StaleWithout
    <2>6. vfs'.primary = vfs.primary /\ vfs'.secondary = None /\ vfs'.clip = vfs.clip
      BY <1>2, <2>1 DEF Slots
    <2>7. \A d \in CardIds : InVfs(d)' \/ vfs'.clip = d => InVfs(d) \/ vfs.clip = d
      BY <2>6, Nothing DEF InVfs
    <2>8. \A d \in CardIds : owner[d] \in {"cloudpilot", "fstools"} \/ owner'[d] = "cloudpilot"
                               => owner'[d] = owner[d]
      BY <1>4, <1>8, <2>1, Nothing
    <2>9. /\ disk' = disk /\ jobs' = jobs /\ current' = current /\ fatal' = fatal /\ emu' = emu
          /\ stuck' = stuck /\ lost' = lost
      BY <2>1 DEF session, fate
    <2>10. RecordsOK' /\ lost' = {} /\ Unmounted(c)'
      BY <1>3, <2>9 DEF Sequential, RecordsOK, Unmounted, Exists
    <2>11. StepKnown("paste")'
      BY <1>5, <2>2, <2>3, <2>10, WriterKnown
    <2> QED
      BY <1>5, <2>2, <2>3, <2>5, <2>7, <2>8, <2>9, <2>10, <2>11, VfsAlone
  <1> QED
    BY <1>6, <1>7, <1>8

\* The same cards stay in the slots, and one of them is to be pasted from.
LEMMA SlotsAlone ==
    ASSUME IInv, Sequential, Settled, \A c : InVfs(c)' <=> InVfs(c), vfs'.clip = vfs.clip \/ InVfs(vfs'.clip),
           UNCHANGED <<disk, owner, emu, stale, session, ops, fate>>
    PROVE  Sequential'
  <1>1. PICK o \in Ops : OneAtATime(o)
    BY DEF Sequential
  <1>2. /\ disk' = disk /\ owner' = owner /\ emu' = emu /\ stale' = stale /\ jobs' = jobs /\ current' = current
        /\ mutex' = mutex /\ op' = op /\ stuck' = stuck /\ fatal' = fatal /\ lost' = lost
    BY DEF session, ops, fate
  <1>3. Cur' = Cur /\ Held' = Held
    BY <1>2 DEF Cur, Held, Pending, Changed, Releases
  <1>4. RecordsOK' /\ lost' = {} /\ SlotsFree'
    BY <1>2 DEF Sequential, RecordsOK, Unmounted, Exists, SlotsFree
  <1>5. \A d \in CardIds : (Loads(o, d)' <=> Loads(o, d)) /\ (Checks(o, d)' <=> Checks(o, d))
    BY <1>2 DEF Loads, Checks
  <1>6. EmulatorOK(o)' /\ CopiesOK(o)' /\ OwnersOK(o)'
    BY <1>1, <1>2, <1>3, <1>5 DEF OneAtATime, EmulatorOK, CopiesOK, OwnersOK
  <1>7. StepKnown(o)
    BY <1>1 DEF OneAtATime
  <1>8. CardKnown(o) => CardKnown(o)'
    <2>1. InVfs(op[o].card)' <=> InVfs(op[o].card)
      BY <1>2 DEF InVfs
    <2> QED
      BY <1>2, <1>3, <2>1 DEF CardKnown, Exists, Unmounted
  <1>9. LaunchKnown(o) => LaunchKnown(o)'
    BY <1>2, <1>3 DEF LaunchKnown, SessionExists
  <1>10. StepKnown(o)'
    <2>1. InVfs(op[o].card)' <=> InVfs(op[o].card)
      BY <1>2 DEF InVfs
    <2> QED
      BY <1>2, <1>3, <1>7, <1>8, <1>9, <2>1 DEF StepKnown, SessionExists, Unmounted
  <1> QED
    BY <1>1, <1>2, <1>4, <1>6, <1>10, OutsideAlone

LEMMA ClipboardAlone ==
    ASSUME IInv, Sequential, (\E c \in CardIds : ActivateCard(c)) \/ CopyToClipboard
    PROVE  Sequential'
  <1>1. CASE \E c \in CardIds : ActivateCard(c)
    <2>1. vfs' = Swapped /\ UNCHANGED <<disk, owner, emu, stale, session, ops, fate>> /\ Settled
      BY <1>1 DEF ActivateCard, Ready
    <2>2. vfs'.primary = vfs.secondary /\ vfs'.secondary = vfs.primary /\ vfs'.clip = vfs.clip
      BY <2>1, SwappedShape DEF IInv, Data
    <2>3. \A c : InVfs(c)' <=> InVfs(c)
      BY <2>2 DEF InVfs
    <2> QED
      BY <2>1, <2>2, <2>3, SlotsAlone
  <1>2. CASE CopyToClipboard
    <2>1. /\ vfs' = [vfs EXCEPT !.clip = vfs.primary] /\ Settled
          /\ UNCHANGED <<disk, owner, emu, stale, session, ops, fate>>
      BY <1>2 DEF CopyToClipboard, Ready
    <2>2. vfs'.primary = vfs.primary /\ vfs'.secondary = vfs.secondary /\ vfs'.clip = vfs.primary
      BY <2>1 DEF IInv, Data, Slots
    <2>3. \A c : InVfs(c)' <=> InVfs(c)
      BY <2>2 DEF InVfs
    <2>4. InVfs(vfs'.clip)
      BY <2>2 DEF InVfs
    <2> QED
      BY <2>1, <2>3, <2>4, SlotsAlone
  <1> QED
    BY <1>1, <1>2

-----------------------------------------------------------------------------
(***************************************************************************)
(* What holds while operations follow each other.                          *)
(***************************************************************************)

LEMMA UserAlone ==
    ASSUME IInv, Sequential, NoOverlap, User
    PROVE  Sequential'
  <1>1. CASE \E o \in Ejects : StartEject(o)
    BY <1>1, StartEjectAlone
  <1>2. ASSUME NEW c \in CardIds, StartDelete(c) \/ StartCheck(c) \/ StartInsert(c) \/ StartBrowse(c)
        PROVE  Sequential'
    BY <1>2, StartDeleteAlone, StartCheckAlone, StartInsertAlone, StartBrowseAlone
  <1>3. CASE (\E c \in CardIds : ActivateCard(c)) \/ CopyToClipboard
    BY <1>3, ClipboardAlone
  <1>4. ASSUME NEW s \in SessionIds,
               (\E o \in Launches : StartLaunch(o, s)) \/ StartEdit(s) \/ StartDeleteSession(s)
        PROVE  Sequential'
    BY <1>4, StartLaunchAlone, StartEditAlone, StartDeleteSessionAlone
  <1>5. CASE StartFile \/ StartPaste
    BY <1>5, StartFileAlone, StartPasteAlone
  <1> QED
    BY <1>1, <1>2, <1>3, <1>4, <1>5 DEF User

LEMMA ProgressAlone ==
    ASSUME IInv, Sequential, NoOverlap, Progress
    PROVE  Sequential'
  <1>1. CASE \E o \in Ejectors : \/ AnswerAsk(o) \/ EjectGet(o) \/ EjectOther(o)
                                  \/ EjectPrepare(o) \/ EjectRemove(o)
    BY <1>1, AnswerAskAlone, EjectGetAlone, EjectOtherAlone, EjectPrepareAlone, EjectRemoveAlone
  <1>2. CASE \E o \in Checkers : \/ CheckAndClaim(o) \/ LoaderShown(o) \/ FsckClaim(o)
                                  \/ FsckContext(o) \/ FsckLoad(o)
    BY <1>2, CheckAndClaimAlone, LoaderShownAlone, FsckClaimAlone, FsckContextAlone, FsckLoadAlone
  <1>3. CASE \E o \in Checkers : \/ FsckStatus(o) \/ AnswerFix(o) \/ ApplyData(o)
                                  \/ ApplyStatus(o)
    BY <1>3, FsckStatusAlone, AnswerFixAlone, ApplyDataAlone, ApplyStatusAlone
  <1>4. CASE DeleteRelease \/ DeleteCard \/ MountCheck \/ MountRelease \/ MountStatus \/ MountSession
    BY <1>4, DeleteReleaseAlone, DeleteCardAlone, MountCheckAlone, MountReleaseAlone, MountStatusAlone,
       MountSessionAlone
  <1>5. CASE \E o \in Loaders : LoadClaim(o) \/ LoadData(o)
    BY <1>5, LoadClaimAlone, LoadDataAlone
  <1>6. CASE RunChange \/ RunLaunch \/ ResetState \/ AnswerEdit \/ SaveEdit \/ DeleteSession
    BY <1>6, RunChangeAlone, RunLaunchAlone, ResetStateAlone, SessionOpsAlone
  <1>7. CASE \E o \in Launches : \/ Stop(o) \/ SwitchRead(o) \/ SwitchOpen(o)
                                  \/ SwitchUpdate(o)
    BY <1>7, StopAlone, SwitchReadAlone, SwitchOpenAlone, SwitchUpdateAlone
  <1>8. CASE BrowseClaim \/ BrowseLoad \/ FileSync \/ PasteLoad \/ PasteSync
    BY <1>8, BrowseClaimAlone, BrowseLoadAlone, SyncStepsAlone, PasteLoadAlone
  <1>9. CASE \E o \in Writers : FileError(o)
    BY <1>9, FileErrorAlone
  <1> QED
    BY <1>1, <1>2, <1>3, <1>4, <1>5, <1>6, <1>7, <1>8, <1>9 DEF Progress, Loaders

LEMMA StutterAlone ==
    ASSUME Sequential, UNCHANGED vars
    PROVE  Sequential'
  <1>1. /\ disk' = disk /\ owner' = owner /\ emu' = emu /\ vfs' = vfs /\ stale' = stale /\ jobs' = jobs
        /\ current' = current /\ mutex' = mutex /\ op' = op /\ stuck' = stuck /\ fatal' = fatal /\ lost' = lost
    BY DEF vars, copies, session, ops, fate
  <1>2. Cur' = Cur /\ Held' = Held /\ (Pending' <=> Pending)
    BY <1>1 DEF Cur, Held, Pending, Changed, Releases
  <1>3. OneJob' /\ RecordsOK' /\ SessionOK' /\ SlotsFree' /\ lost' = {} /\ (fatal' => stuck' # {})
    BY <1>1, <1>2 DEF Sequential, OneJob, RecordsOK, SessionOK, SlotsFree, Unmounted, Exists, InVfs
  <1>4. PICK o \in Ops : OneAtATime(o)
    BY DEF Sequential
  <1>5. \A d \in CardIds : (Loads(o, d)' <=> Loads(o, d)) /\ (Checks(o, d)' <=> Checks(o, d))
    BY <1>1 DEF Loads, Checks
  <1>6. Alone(o)' /\ EmulatorOK(o)' /\ CopiesOK(o)' /\ OwnersOK(o)'
    BY <1>1, <1>2, <1>4, <1>5 DEF OneAtATime, Alone, EmulatorOK, CopiesOK, OwnersOK
  <1>7. StepKnown(o)'
    <2>1. (CardKnown(o) => CardKnown(o)') /\ (LaunchKnown(o) => LaunchKnown(o)')
      BY <1>1, <1>2 DEF CardKnown, LaunchKnown, Exists, SessionExists, Unmounted, InVfs
    <2> QED
      BY <1>1, <1>2, <1>4, <2>1 DEF OneAtATime, StepKnown, SessionExists, Unmounted, InVfs
  <1> QED
    BY <1>3, <1>4, <1>6, <1>7 DEF Sequential, OneAtATime

\* While no two operations have been under way at once, the state is one that an operation
\* at a time can produce: its records, copies and owners are as that operation left them.
THEOREM SequentialInvariant == Spec /\ [](overlap = "none") => []Sequential
  <1>1. IInv /\ Sequential /\ overlap = "none" /\ (overlap = "none")' /\ [Next]_vars => Sequential'
    <2> SUFFICES ASSUME IInv, Sequential, NoOverlap, [Next]_vars PROVE Sequential'
      BY DEF NoOverlap
    <2> QED
      BY UserAlone, ProgressAlone, SnapshotAlone, ReloadAlone, StutterAlone DEF Next
  <1> QED
    BY <1>1, InitAlone, Invariant, PTL DEF Spec

\* Operations that follow each other never write an outdated copy of a card image over a
\* newer one.
THEOREM SequentialKeepsUpdates == Spec /\ [](overlap = "none") => []NoLostUpdate
  <1>1. Sequential => NoLostUpdate
    BY DEF Sequential, NoLostUpdate
  <1> QED
    BY <1>1, SequentialInvariant, PTL

\* Without overlap, a card that counts as clean has an intact file system.
THEOREM SequentialCleanIsSound == Spec /\ [](overlap = "none") => []CleanIsSound
  <1>1. Sequential => CleanIsSound
    BY DEF Sequential, RecordsOK, CleanIsSound
  <1> QED
    BY <1>1, SequentialInvariant, PTL

\* Without overlap, the sessions on disk refer to cards that exist, no two to the same.
THEOREM SequentialMountedOnce == Spec /\ [](overlap = "none") => []MountedOnce
  <1>1. Sequential => MountedOnce
    <2> SUFFICES ASSUME Sequential PROVE Dangling = {}
      BY DEF MountedOnce
    <2>1. ASSUME NEW s \in SessionIds, NEW c \in CardIds, disk.mounted[s] = c
          PROVE  Exists(c) /\ MountedIn(c) = {s}
      <3>1. ~Unmounted(c)
        BY <2>1 DEF Unmounted
      <3> QED
        BY <2>1, <3>1 DEF Sequential, RecordsOK, MountedIn
    <2> QED
      BY <2>1 DEF Dangling
  <1> QED
    BY <1>1, SequentialInvariant, PTL

\* Without overlap, and with nothing under way, each card is owned by what holds its image
\* unless an operation has left it claimed.
THEOREM SequentialOwnership == Spec /\ [](overlap = "none") => []OwnershipSettled
  <1>1. IInv /\ Sequential => OwnershipSettled
    <2> SUFFICES ASSUME IInv, Sequential, Settled, Active = {}, NEW c \in CardIds \ stuck
                 PROVE  owner[c] = Holder(c)
      BY DEF OwnershipSettled
    <2>1. "edit" \in Ops /\ \A p \in Ops : op[p].pc = "idle"
      BY Names DEF Active
    <2>2. OneAtATime("edit") /\ op["edit"].pc = "idle"
      BY <2>1, Resting
    <2>3. ~Loads("edit", c) /\ ~Checks("edit", c) /\ op["edit"].pc \notin OpenSteps
      BY <2>2 DEF Loads, Checks, FsckSteps, OpenSteps
    <2>4. CASE InVfs(c)
      BY <2>4 DEF Holder, IInv, Claims, VfsClaims
    <2>5. CASE ~InVfs(c) /\ current.card = c
      <3>1. Held = current.card /\ ~fatal
        BY NothingWaits DEF Sequential
      <3> QED
        BY <2>2, <2>5, <3>1 DEF Holder, OneAtATime, OwnersOK
    <2>6. CASE ~InVfs(c) /\ current.card # c
      BY <2>1, <2>2, <2>3, <2>6, UnownedHeld DEF Holder
    <2> QED
      BY <2>4, <2>5, <2>6
  <1> QED
    BY <1>1, Invariant, SequentialInvariant, PTL

\* Without overlap, no assertion of StorageCardContext and none for a record that is gone
\* fails, unless an operation has broken off with a card claimed.
THEOREM SequentialNeverFatal == Spec /\ [](overlap = "none") => []FatalOnlyByOverlap
  <1>1. Sequential => FatalOnlyByOverlap
    BY DEF Sequential, FatalOnlyByOverlap
  <1> QED
    BY <1>1, SequentialInvariant, PTL
=============================================================================
