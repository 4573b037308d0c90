----------------------------- MODULE CardsProof -----------------------------
(***************************************************************************)
(* Theorems about Cards, for any number of cards, sessions and overlapping *)
(* operations: the proofs use no bound on what is under way (Room is never *)
(* expanded).                                                              *)
(***************************************************************************)
EXTENDS Cards, TLAPS

-----------------------------------------------------------------------------
(***************************************************************************)
(* Sequences.                                                              *)
(***************************************************************************)

\* What is left of a queue when its head is taken.
LEMMA QueueTail ==
    ASSUME NEW S, NEW q \in Seq(S), q # <<>>
    PROVE  /\ Tail(q) \in Seq(S) /\ Len(q) > 0
           /\ Head(q) = q[1] /\ 1 \in DOMAIN q /\ q[1] \in S
           /\ DOMAIN Tail(q) = 1 .. (Len(q) - 1) /\ DOMAIN q = 1 .. Len(q)
           /\ \A i \in DOMAIN Tail(q) : Tail(q)[i] = q[i + 1] /\ i + 1 \in DOMAIN q
  OBVIOUS

\* A queue with one more element.
LEMMA QueueAppend ==
    ASSUME NEW S, NEW q \in Seq(S), NEW x \in S
    PROVE  /\ Append(q, x) \in Seq(S) /\ q \o <<x>> = Append(q, x)
           /\ DOMAIN Append(q, x) = DOMAIN q \cup {Len(q) + 1}
           /\ DOMAIN q = 1 .. Len(q) /\ Len(q) \in Nat
           /\ \A i \in DOMAIN q : Append(q, x)[i] = q[i]
           /\ Append(q, x)[Len(q) + 1] = x
  OBVIOUS

\* A queue that holds each member of a set once.
Lists(q, S) ==
    /\ \A i \in DOMAIN q : q[i] \in S
    /\ \A x \in S : \E i \in DOMAIN q : q[i] = x
    /\ \A i, j \in DOMAIN q : q[i] = q[j] => i = j

LEMMA ListsTail ==
    ASSUME NEW T, NEW q \in Seq(T), NEW S, NEW x \in S, Lists(q, S), Head(q) = x
    PROVE  Tail(q) \in Seq(T) /\ Lists(Tail(q), S \ {x})
  <1>1. q # <<>>
    BY DEF Lists
  <1>2. \A i \in DOMAIN Tail(q) : Tail(q)[i] \in S \ {x}
    BY <1>1, QueueTail DEF Lists
  <1>3. ASSUME NEW y \in S \ {x} PROVE \E i \in DOMAIN Tail(q) : Tail(q)[i] = y
    <2>1. PICK i \in DOMAIN q : q[i] = y
      BY DEF Lists
    <2>2. i # 1 /\ i - 1 \in DOMAIN Tail(q) /\ i = (i - 1) + 1
      BY <1>1, <2>1, QueueTail
    <2> QED
      BY <1>1, <2>1, <2>2, QueueTail
  <1>4. \A i, j \in DOMAIN Tail(q) : Tail(q)[i] = Tail(q)[j] => i = j
    BY <1>1, QueueTail DEF Lists
  <1> QED
    BY <1>1, <1>2, <1>3, <1>4, QueueTail DEF Lists

LEMMA ListsAppend ==
    ASSUME NEW T, NEW q \in Seq(T), NEW S, NEW x \in T, x \notin S, Lists(q, S)
    PROVE  q \o <<x>> \in Seq(T) /\ Lists(q \o <<x>>, S \cup {x})
  <1> DEFINE r == Append(q, x)
  <1>1. /\ r \in Seq(T) /\ q \o <<x>> = r /\ DOMAIN r = DOMAIN q \cup {Len(q) + 1}
        /\ Len(q) + 1 \notin DOMAIN q
        /\ \A i \in DOMAIN q : r[i] = q[i]
        /\ r[Len(q) + 1] = x
    BY QueueAppend
  <1> HIDE DEF r
  <1> QED
    BY <1>1 DEF Lists

-----------------------------------------------------------------------------
(***************************************************************************)
(* The inductive invariant.                                                *)
(***************************************************************************)

\* An operation waits for the mutex, holds it, or is between the claim of a card for
\* fstools or for the VFS and the moment it hands the card on.
WaitSteps == {"queued", "queued2"}
MutexSteps == {"stop", "stopOnly", "swSession", "swLoad", "ldGet", "ldData", "swOpen",
               "swUpdate"}
FsckSteps == {"fsCtx", "fsLoad", "fsStatus", "askFix", "apLoader", "apData", "apStatus"}
OpenSteps == {"vfLoad", "paLoad"}

CardOps == {"insert", "browse", "check", "delete"} \cup Writers
Steps == DbSteps \cup FreeSteps \cup {"idle"}
OpRecord == [pc : Steps, card : CardIds \cup {None}, ses : SessionIds \cup {None},
             out : CardIds \cup {None}, res : FsckResult \cup {None}]
JobRecord == [op : Launches \cup {None}, id : SessionIds \cup {None},
              card : CardIds \cup {None, Gone}]
Disk == [status : [CardIds -> Status \cup {Gone}],
         health : [CardIds -> FsckResult \cup {"unknown"}],
         mounted : [SessionIds -> CardIds \cup {None, Gone}]]
Sessions == [id : SessionIds \cup {None}, card : CardIds \cup {None}]
Slots == [{"primary", "secondary", "clip"} -> CardIds \cup {None}]
Images == [images : SUBSET CardIds, key : CardIds \cup {None}]
Holders == Ops \cup {"emu", "vfs"}

\* The operations that come to a step, and those that have a card there.
StepFits(o, pc) ==
    /\ pc \in WaitSteps => o \in Launches
    /\ pc = "vfLoad" => o = "browse"
    /\ pc = "paLoad" => o = "paste"
    /\ pc \in FsckSteps => o \in Checkers
HasCard(o, pc) == (o \in CardOps /\ pc # "idle") \/ pc \in {"ldGet", "ldData"}
Fits(o, r) ==
    /\ r \in OpRecord
    /\ StepFits(o, r.pc)
    /\ HasCard(o, r.pc) => r.card \in CardIds
    /\ r.pc = "fsStatus" => r.res \in FsckResult
    /\ o \in Launches => r.res = None /\ (r.pc # "idle" => r.ses \in SessionIds)

\* The operations under way, and those that wait for a transaction.
OpsOK ==
    /\ op \in [Ops -> OpRecord]
    /\ \A o \in Ops : Fits(o, op[o])
InDb == {o \in Ops : op[o].pc \in DbSteps}
QueueOK == dbq \in Seq(Ops) /\ Lists(dbq, InDb)
Running == OpsOK /\ QueueOK /\ overlap \in {"none", "ops", "rewrite"}

\* The rest of the state has its type.
Data ==
    /\ disk \in Disk
    /\ owner \in [CardIds -> Owners]
    /\ emu \in Images
    /\ vfs \in Slots
    /\ stale \subseteq Holders \X CardIds
    /\ current \in Sessions
    /\ stuck \subseteq CardIds /\ lost \subseteq CardIds /\ fatal \in BOOLEAN

\* The mutex is held by the one launch that has come past it.
MutexOK ==
    /\ mutex \in Launches \cup {None}
    /\ \A o \in Launches : op[o].pc \in MutexSteps <=> mutex = o

\* Each launch that waits for the mutex has one job there, and no other launch has one.
JobsFor(q, W) ==
    /\ q \in Seq(JobRecord)
    /\ \A i \in DOMAIN q : q[i].op # None => q[i].op \in W
    /\ \A o \in W : \E i \in DOMAIN q : q[i].op = o
    /\ \A i, j \in DOMAIN q : q[i].op # None /\ q[i].op = q[j].op => i = j
Waiters == {o \in Launches : op[o].pc \in WaitSteps}
JobsOK == JobsFor(jobs, Waiters)

\* The operation holds the card for fstools; it opens the card in the VFS.
Checks(o, c) == op[o].pc \in FsckSteps /\ op[o].card = c
Opens(o, c) == op[o].pc \in OpenSteps /\ op[o].card = c
Opened(c) == Opens("browse", c) \/ Opens("paste", c)

\* A slot the VFS is about to fill is empty, and no card is in two slots.
SlotsOK ==
    /\ vfs.primary # None => vfs.primary # vfs.secondary
    /\ \A c \in CardIds :
         /\ Opens("browse", c) => ~InVfs(c) /\ ~Opens("paste", c) /\ vfs.primary = None
         /\ Opens("paste", c) => ~InVfs(c) /\ vfs.secondary = None /\ vfs.clip \in {None, c}

\* Who owns a card for the VFS or for fstools.
VfsClaims == \A c \in CardIds : owner[c] = "vfs" <=> InVfs(c) \/ Opened(c)
FsckClaims ==
    \A c \in CardIds :
        /\ owner[c] = "fstools" => c \in stuck \/ \E o \in Checkers : Checks(o, c)
        /\ \A o \in Checkers : Checks(o, c) =>
             owner[c] = "fstools" /\ \A p \in Checkers : Checks(p, c) => p = o

\* A card somebody owns has its record.
OwnedExist == \A c \in CardIds : owner[c] # "none" => Exists(c)

Claims == SlotsOK /\ VfsClaims /\ FsckClaims /\ OwnedExist
IInv == Running /\ Data /\ MutexOK /\ JobsOK /\ Claims

-----------------------------------------------------------------------------
(***************************************************************************)
(* The mutex queue.                                                        *)
(***************************************************************************)

LEMMA NoneIsNoLaunch == None \notin Launches /\ None \notin CardIds
  BY CardsAssumption DEF Launches

\* A change of a session waits behind the others.
LEMMA JobsChange ==
    ASSUME NEW q, NEW W, NEW j \in JobRecord, JobsFor(q, W), j.op = None
    PROVE  JobsFor(Append(q, j), W)
  <1> DEFINE r == Append(q, j)
  <1>1. /\ r \in Seq(JobRecord) /\ DOMAIN r = DOMAIN q \cup {Len(q) + 1}
        /\ Len(q) + 1 \notin DOMAIN q
        /\ \A i \in DOMAIN q : r[i] = q[i]
        /\ r[Len(q) + 1] = j
    BY QueueAppend DEF JobsFor
  <1> HIDE DEF r
  <1>2. JobsFor(r, W)
    BY <1>1 DEF JobsFor
  <1> QED
    BY <1>2 DEF r

\* A launch that did not wait yet waits behind the others.
LEMMA JobsLaunch ==
    ASSUME NEW q, NEW W, NEW j \in JobRecord, JobsFor(q, W), j.op \notin W, j.op # None
    PROVE  JobsFor(Append(q, j), W \cup {j.op})
  <1> DEFINE r == Append(q, j)
  <1>1. /\ r \in Seq(JobRecord) /\ DOMAIN r = DOMAIN q \cup {Len(q) + 1}
        /\ Len(q) + 1 \notin DOMAIN q
        /\ \A i \in DOMAIN q : r[i] = q[i]
        /\ r[Len(q) + 1] = j
    BY QueueAppend DEF JobsFor
  <1> HIDE DEF r
  <1>2. JobsFor(r, W \cup {j.op})
    BY <1>1 DEF JobsFor
  <1> QED
    BY <1>2 DEF r

\* The job at the head is done.
LEMMA JobsTail ==
    ASSUME NEW q, NEW W, JobsFor(q, W), q # <<>>, None \notin W
    PROVE  /\ Head(q) \in JobRecord
           /\ Head(q).op # None => Head(q).op \in W
           /\ JobsFor(Tail(q), W \ {Head(q).op})
  <1> DEFINE t == Tail(q)
             h == q[1]
  <1>1. /\ t \in Seq(JobRecord) /\ Head(q) = h /\ h \in JobRecord /\ 1 \in DOMAIN q
        /\ DOMAIN t = 1 .. (Len(q) - 1) /\ DOMAIN q = 1 .. Len(q) /\ Len(q) > 0
        /\ \A i \in DOMAIN t : t[i] = q[i + 1] /\ i + 1 \in DOMAIN q
    BY QueueTail DEF JobsFor
  <1>2. Len(q) \in Nat
    BY DEF JobsFor
  <1> HIDE DEF t
  <1>3. \A i \in DOMAIN t : t[i].op # None => t[i].op \in W \ {h.op}
    BY <1>1, <1>2 DEF JobsFor
  <1>4. ASSUME NEW o \in W \ {h.op} PROVE \E i \in DOMAIN t : t[i].op = o
    <2>1. PICK i \in DOMAIN q : q[i].op = o
      BY DEF JobsFor
    <2>2. i # 1 /\ i - 1 \in DOMAIN t /\ i = (i - 1) + 1
      BY <1>1, <1>2, <2>1
    <2> QED
      BY <1>1, <2>1, <2>2
  <1>5. \A i, j \in DOMAIN t : t[i].op # None /\ t[i].op = t[j].op => i = j
    BY <1>1, <1>2 DEF JobsFor
  <1>6. JobsFor(t, W \ {h.op})
    BY <1>1, <1>3, <1>4, <1>5 DEF JobsFor
  <1> QED
    BY <1>1, <1>6 DEF t, JobsFor

-----------------------------------------------------------------------------
(***************************************************************************)
(* An operation moves on.                                                  *)
(***************************************************************************)

\* The record of an operation after Goto.
Moved(o, pc) == IF pc = "idle" THEN NotRunning ELSE [op[o] EXCEPT !.pc = pc]

LEMMA NotRunningFits ==
    ASSUME NEW o PROVE Fits(o, NotRunning) /\ NotRunning.pc = "idle"
  BY DEF NotRunning, Fits, OpRecord, Steps, StepFits, HasCard, WaitSteps, FsckSteps

\* An operation fits the step it goes to if it has the card it needs there.
LEMMA MovedFits ==
    ASSUME OpsOK, NEW o \in Ops, NEW pc \in Steps \ {"fsStatus"}, StepFits(o, pc),
           HasCard(o, pc) => op[o].card \in CardIds, o \in Launches => op[o].pc # "idle"
    PROVE  /\ Fits(o, Moved(o, pc)) /\ Moved(o, pc).pc = pc
           /\ pc # "idle" => Moved(o, pc) = [op[o] EXCEPT !.pc = pc]
           /\ pc # "idle" => Moved(o, pc).card = op[o].card
  <1>1. op[o] \in OpRecord
        /\ (o \in Launches => op[o].res = None /\ op[o].ses \in SessionIds)
    BY DEF OpsOK, Fits
  <1>2. CASE pc = "idle"
    BY <1>2, NotRunningFits DEF Moved
  <1>3. CASE pc # "idle"
    BY <1>1, <1>3 DEF Moved, Fits, OpRecord
  <1> QED
    BY <1>2, <1>3

LEMMA ContinueStep ==
    ASSUME Running, NEW o \in Ops, NEW rec, Fits(o, rec), Continue(o, rec),
           op[o].pc \in DbSteps => Head(dbq) = o
    PROVE  /\ Running'
           /\ op' = [op EXCEPT ![o] = rec] /\ op'[o] = rec
           /\ \A p \in Ops \ {o} : op'[p] = op[p]
  <1>1. /\ op \in [Ops -> OpRecord] /\ rec \in OpRecord
        /\ op' = [op EXCEPT ![o] = rec]
        /\ \A p \in Ops : Fits(p, op[p])
    BY DEF Running, OpsOK, Continue, Fits
  <1>2. op' \in [Ops -> OpRecord] /\ op'[o] = rec /\ \A p \in Ops \ {o} : op'[p] = op[p]
    BY <1>1
  <1>3. \A p \in Ops : Fits(p, op'[p])
    BY <1>1, <1>2
  <1>4. OpsOK'
    BY <1>2, <1>3 DEF OpsOK
  <1>5. InDb' = (InDb \ {o}) \cup (IF rec.pc \in DbSteps THEN {o} ELSE {})
    BY <1>2 DEF InDb
  <1>6. QueueOK'
    <2> DEFINE q == IF op[o].pc \in DbSteps THEN Tail(dbq) ELSE dbq
    <2>1. dbq \in Seq(Ops) /\ Lists(dbq, InDb)
      BY DEF Running, QueueOK
    <2>2. q \in Seq(Ops) /\ Lists(q, InDb \ {o})
      <3>1. CASE op[o].pc \in DbSteps
        BY <2>1, <3>1, ListsTail DEF InDb
      <3>2. CASE op[o].pc \notin DbSteps
        <4>1. InDb \ {o} = InDb
          BY <3>2 DEF InDb
        <4> QED
          BY <2>1, <3>2, <4>1
      <3> QED
        BY <3>1, <3>2
    <2>3. dbq' = q \o (IF rec.pc \in DbSteps THEN <<o>> ELSE <<>>)
      BY DEF Continue
    <2> HIDE DEF q
    <2>4. CASE rec.pc \in DbSteps
      <3>1. dbq' = q \o <<o>> /\ InDb' = (InDb \ {o}) \cup {o} /\ o \notin InDb \ {o}
        BY <1>5, <2>3, <2>4
      <3>2. q \o <<o>> \in Seq(Ops) /\ Lists(q \o <<o>>, (InDb \ {o}) \cup {o})
        BY <2>2, <3>1, ListsAppend
      <3> QED
        BY <3>1, <3>2 DEF QueueOK
    <2>5. CASE rec.pc \notin DbSteps
      <3>1. dbq' = q \o <<>> /\ InDb' = InDb \ {o}
        BY <1>5, <2>3, <2>5
      <3>2. q \o <<>> = q
        BY <2>2
      <3> QED
        BY <2>2, <3>1, <3>2 DEF QueueOK
    <2> QED
      BY <2>4, <2>5
  <1>7. overlap' \in {"none", "ops", "rewrite"}
    BY DEF Running, Continue
  <1> QED
    BY <1>1, <1>2, <1>4, <1>6, <1>7 DEF Running

-----------------------------------------------------------------------------
(***************************************************************************)
(* The page comes up, and it is lost.                                      *)
(***************************************************************************)

\* A page that holds nothing.
Fresh ==
    /\ owner = FreshPage.owner /\ emu = FreshPage.emu /\ vfs = FreshPage.vfs
    /\ stale = {} /\ current = NoSession /\ mutex = None /\ jobs = <<>>
    /\ op = FreshPage.op /\ dbq = <<>>
    /\ disk \in Disk /\ overlap \in {"none", "ops", "rewrite"}
    /\ stuck \subseteq CardIds /\ lost \subseteq CardIds /\ fatal \in BOOLEAN

\* It satisfies the invariant, whatever the database holds.
LEMMA FreshInvariant == ASSUME Fresh PROVE IInv
  <1> USE DEF Fresh
  <1>1. op = [o \in Ops |-> NotRunning] /\ \A o \in Ops : op[o] = NotRunning /\ op[o].pc = "idle"
    BY NotRunningFits DEF FreshPage
  <1>2. /\ Launches \subseteq Ops /\ Checkers \subseteq Ops
        /\ "browse" \in Ops /\ "paste" \in Ops
    BY DEF Ops, Launches, Checkers, Rewriters, Writers
  <1>3. \A o \in Ops : op[o].pc \notin WaitSteps \cup MutexSteps \cup FsckSteps \cup OpenSteps
    BY <1>1 DEF WaitSteps, MutexSteps, FsckSteps, OpenSteps
  <1>4. OpsOK
    BY <1>1, NotRunningFits DEF OpsOK, Fits
  <1>5. QueueOK
    <2>1. InDb = {}
      BY <1>1 DEF InDb, DbSteps
    <2> QED
      BY <2>1 DEF QueueOK, Lists
  <1>6. Data
    BY DEF Data, FreshPage, NoSession, Sessions, Slots, Images, Owners
  <1>7. MutexOK
    BY <1>2, <1>3, NoneIsNoLaunch DEF MutexOK
  <1>8. JobsOK
    <2>1. Waiters = {}
      BY <1>2, <1>3 DEF Waiters
    <2> QED
      BY <2>1 DEF JobsOK, JobsFor
  <1>9. Claims
    <2>1. /\ vfs.primary = None /\ vfs.secondary = None /\ \A c \in CardIds : owner[c] = "none"
          /\ \A c \in CardIds : ~InVfs(c)
      BY NoneIsNoLaunch DEF FreshPage, InVfs
    <2>2. \A c \in CardIds : ~Opens("browse", c) /\ ~Opens("paste", c)
      BY <1>2, <1>3 DEF Opens
    <2>3. \A c \in CardIds : \A o \in Checkers : ~Checks(o, c)
      BY <1>2, <1>3 DEF Checks
    <2> QED
      BY <2>1, <2>2, <2>3 DEF Claims, SlotsOK, VfsClaims, FsckClaims, OwnedExist, Opened
  <1> QED
    BY <1>4, <1>5, <1>6, <1>7, <1>8, <1>9 DEF IInv, Running

LEMMA PageLostStep ==
    ASSUME PageLost, disk' \in Disk, overlap' \in {"none", "ops", "rewrite"},
           stuck' \subseteq CardIds, lost' \subseteq CardIds, fatal' \in BOOLEAN
    PROVE  IInv'
  <1>1. Fresh'
    BY DEF PageLost, Fresh
  <1> QED
    BY <1>1, FreshInvariant, PTL

LEMMA FatalStep == ASSUME IInv, Fatal, disk' \in Disk PROVE IInv'
  <1>1. /\ PageLost /\ overlap' \in {"none", "ops", "rewrite"}
        /\ stuck' \subseteq CardIds /\ lost' \subseteq CardIds /\ fatal' \in BOOLEAN
    BY DEF IInv, Running, Data, Fatal
  <1> QED
    BY <1>1, PageLostStep

LEMMA DieStep == IInv /\ Die => IInv'
  BY FatalStep DEF Die, IInv, Data

LEMMA ReloadStep == IInv /\ Reload => IInv'
  <1> SUFFICES ASSUME IInv, Reload PROVE IInv'
    OBVIOUS
  <1>1. /\ PageLost /\ disk' \in Disk /\ overlap' \in {"none", "ops", "rewrite"}
        /\ stuck' \subseteq CardIds /\ lost' \subseteq CardIds /\ fatal' \in BOOLEAN
    BY DEF IInv, Running, Data, Reload
  <1> QED
    BY <1>1, PageLostStep

LEMMA IInvInit == Init => IInv
  <1> SUFFICES ASSUME Init PROVE IInv
    OBVIOUS
  <1>1. disk \in Disk
    <2>1. PICK sessions \in SUBSET SessionIds,
               new \in [CardIds -> UNION {NewCard(c) : c \in CardIds}] :
            /\ \A c \in CardIds : new[c] \in NewCard(c)
            /\ disk = [status |-> [c \in CardIds |-> new[c][1]],
                       health |-> [c \in CardIds |-> new[c][2]],
                       mounted |-> [s \in SessionIds |->
                                      IF s \in sessions THEN None ELSE Gone]]
      BY DEF Init
    <2>2. ASSUME NEW c \in CardIds, NEW x \in NewCard(c)
          PROVE  x[1] \in Status \cup {Gone} /\ x[2] \in FsckResult \cup {"unknown"}
      BY <2>2 DEF NewCard, Status, FsckResult
    <2>3. \A c \in CardIds : /\ new[c][1] \in Status \cup {Gone}
                             /\ new[c][2] \in FsckResult \cup {"unknown"}
      BY <2>1, <2>2
    <2> QED
      BY <2>1, <2>3 DEF Disk
  <1> QED
    BY <1>1, FreshInvariant DEF Init, Fresh

-----------------------------------------------------------------------------
(***************************************************************************)
(* What a step of one operation leaves alone.                              *)
(***************************************************************************)

LEMMA Names ==
    /\ Launches \subseteq Ops /\ CardOps \subseteq Ops /\ Ejectors \subseteq Ops
    /\ Checkers \subseteq Ops /\ Writers \subseteq Ops
    /\ {"insert", "browse", "check", "delete", "paste", "file", "edit", "delSession"}
         \subseteq Ops \ Launches
    /\ Ejectors \cap Launches = {} /\ Checkers \cap Launches = {} /\ CardOps \cap Launches = {}
    /\ Checkers \subseteq CardOps /\ Writers \subseteq CardOps
  BY DEF Launches, Ops, CardOps, Ejectors, Ejects, Checkers, Writers, Rewriters

\* Only operation o has moved.
Moves(o) == \A p \in Ops \ {o} : op'[p] = op[p]

\* A step of an operation that is no launch leaves the mutex and those who wait for it.
LEMMA PlainStep ==
    ASSUME IInv, NEW o \in Ops \ Launches, NEW rec, Fits(o, rec), Continue(o, rec),
           op[o].pc \in DbSteps => Head(dbq) = o,
           mutex' = mutex, jobs' = jobs \/ JobsFor(jobs', Waiters)
    PROVE  Running' /\ MutexOK' /\ JobsOK' /\ op'[o] = rec /\ Moves(o)
  <1>1. Running' /\ op'[o] = rec /\ Moves(o)
    BY ContinueStep DEF IInv, Moves
  <1>2. \A p \in Launches : op'[p] = op[p]
    BY <1>1, Names DEF Moves
  <1>3. MutexOK'
    BY <1>2 DEF IInv, MutexOK
  <1>4. Waiters' = Waiters
    BY <1>2 DEF Waiters
  <1>5. JobsOK'
    BY <1>4 DEF IInv, JobsOK
  <1> QED
    BY <1>1, <1>3, <1>5

\* An operation holds the same card for the same purpose as before, or none.
SameRole(old, new) ==
    \/ old.pc \notin FsckSteps \cup OpenSteps /\ new.pc \notin FsckSteps \cup OpenSteps
    \/ old.pc \in FsckSteps /\ new.pc \in FsckSteps /\ old.card = new.card

LEMMA RolesKept ==
    ASSUME NEW o \in Ops, NEW rec, op'[o] = rec, Moves(o), SameRole(op[o], rec)
    PROVE  \A p \in Ops : \A c \in CardIds :
               (Checks(p, c)' <=> Checks(p, c)) /\ (Opens(p, c)' <=> Opens(p, c))
  <1> SUFFICES ASSUME NEW p \in Ops, NEW c \in CardIds
               PROVE  (Checks(p, c)' <=> Checks(p, c)) /\ (Opens(p, c)' <=> Opens(p, c))
    OBVIOUS
  <1>1. CASE p # o
    <2>1. op'[p] = op[p]
      BY <1>1 DEF Moves
    <2> QED
      BY <2>1 DEF Checks, Opens
  <1>2. CASE p = o
    BY <1>2 DEF Checks, Opens, SameRole, FsckSteps, OpenSteps
  <1> QED
    BY <1>1, <1>2

\* What every operation holds is as it was.
RolesSame ==
    \A p \in Ops : \A c \in CardIds :
        (Checks(p, c)' <=> Checks(p, c)) /\ (Opens(p, c)' <=> Opens(p, c))

\* Cards are claimed and released at most for the emulator.
OwnersKept ==
    \A c \in CardIds :
        owner'[c] = owner[c] \/ {owner[c], owner'[c]} \subseteq {"none", "cloudpilot"}

\* The slots of the VFS are as they were; the clipboard may have been emptied.
SlotsKept ==
    /\ vfs'.primary = vfs.primary /\ vfs'.secondary = vfs.secondary
    /\ vfs'.clip \in {vfs.clip, None}

LEMMA ClaimsKept ==
    ASSUME Claims, RolesSame, OwnersKept, SlotsKept, stuck \subseteq stuck', OwnedExist'
    PROVE  Claims'
  <1>1. \A c \in CardIds : InVfs(c)' <=> InVfs(c)
    BY DEF InVfs, SlotsKept
  <1>2. \A c \in CardIds : /\ Opens("browse", c)' <=> Opens("browse", c)
                           /\ Opens("paste", c)' <=> Opens("paste", c)
    BY Names DEF RolesSame
  <1>3. SlotsOK'
    BY <1>1, <1>2 DEF Claims, SlotsOK, SlotsKept
  <1>4. \A c \in CardIds : /\ owner'[c] = "vfs" <=> owner[c] = "vfs"
                           /\ owner'[c] = "fstools" <=> owner[c] = "fstools"
    BY DEF OwnersKept
  <1>5. VfsClaims'
    BY <1>1, <1>2, <1>4 DEF Claims, VfsClaims, Opened
  <1>6. FsckClaims'
    BY <1>4, Names DEF Claims, FsckClaims, RolesSame
  <1> QED
    BY <1>3, <1>5, <1>6 DEF Claims

\* A step that claims and releases nothing for fstools and the VFS.
LEMMA EmulatorClaims ==
    ASSUME IInv, NEW o \in Ops, NEW rec, op'[o] = rec, Moves(o), SameRole(op[o], rec),
           OwnersKept, SlotsKept, stuck \subseteq stuck', OwnedExist'
    PROVE  Claims'
  <1>1. RolesSame
    BY RolesKept DEF RolesSame
  <1> QED
    BY <1>1, ClaimsKept DEF IInv

LEMMA EmulatorStep ==
    ASSUME IInv, NEW o \in Ops \ Launches, NEW rec, Fits(o, rec), Continue(o, rec),
           op[o].pc \in DbSteps => Head(dbq) = o,
           mutex' = mutex, jobs' = jobs \/ JobsFor(jobs', Waiters),
           SameRole(op[o], rec), Data', OwnersKept, SlotsKept, stuck \subseteq stuck',
           OwnedExist'
    PROVE  IInv'
  <1>1. Running' /\ MutexOK' /\ JobsOK' /\ op'[o] = rec /\ Moves(o)
    BY PlainStep
  <1>2. Claims'
    BY <1>1, EmulatorClaims
  <1> QED
    BY <1>1, <1>2 DEF IInv

\* A step that claims and releases nothing.
LEMMA QuietStep ==
    ASSUME IInv, NEW o \in Ops \ Launches, NEW rec, Fits(o, rec), Continue(o, rec),
           op[o].pc \in DbSteps => Head(dbq) = o,
           mutex' = mutex, jobs' = jobs \/ JobsFor(jobs', Waiters),
           SameRole(op[o], rec), Data', owner' = owner, SlotsKept, stuck \subseteq stuck',
           \A c \in CardIds : Exists(c) => Exists(c)'
    PROVE  IInv'
  <1>1. OwnersKept /\ OwnedExist'
    BY DEF IInv, Claims, OwnedExist, OwnersKept
  <1> QED
    BY <1>1, EmulatorStep

\* A step that only moves an operation.
LEMMA MoveStep ==
    ASSUME IInv, NEW o \in Ops \ Launches, NEW rec, Fits(o, rec), Continue(o, rec),
           op[o].pc \in DbSteps => Head(dbq) = o, OnlyMoves, SameRole(op[o], rec)
    PROVE  IInv'
  <1>1. /\ mutex' = mutex /\ jobs' = jobs /\ owner' = owner /\ vfs' = vfs
        /\ stuck' = stuck /\ disk' = disk /\ SlotsKept
    BY DEF OnlyMoves, copies, session, fate, SlotsKept
  <1>2. Data'
    BY DEF IInv, Data, OnlyMoves, copies, session, fate
  <1>3. \A c \in CardIds : Exists(c) => Exists(c)'
    BY <1>1 DEF Exists
  <1> QED
    BY <1>1, <1>2, <1>3, QuietStep

\* The card of an operation that works on one.
LEMMA CardOf ==
    ASSUME IInv, NEW o \in CardOps, op[o].pc # "idle"
    PROVE  op[o].card \in CardIds
  BY Names DEF IInv, Running, OpsOK, Fits, HasCard

LEMMA GotoFits ==
    ASSUME IInv, NEW o \in Ops \ Launches, op[o].pc # "idle",
           NEW pc \in Steps \ {"fsStatus"}, StepFits(o, pc),
           pc \in {"ldGet", "ldData"} => o \in CardOps
    PROVE  /\ Fits(o, Moved(o, pc)) /\ Moved(o, pc).pc = pc
           /\ pc # "idle" => Moved(o, pc).card = op[o].card
  <1>1. OpsOK
    BY DEF IInv, Running
  <1>2. HasCard(o, pc) => op[o].card \in CardIds
    BY CardOf DEF HasCard
  <1> QED
    BY <1>1, <1>2, MovedFits

\* Steps at which an operation has no claim for fstools or the VFS.
Unclaimed == Steps \ (FsckSteps \cup OpenSteps)

LEMMA GotoMoves ==
    ASSUME IInv, NEW o \in Ops \ Launches, op[o].pc \in Unclaimed \ {"idle"},
           NEW pc \in Unclaimed \ WaitSteps, pc \in {"ldGet", "ldData"} => o \in CardOps,
           Goto(o, pc)
    PROVE  /\ Fits(o, Moved(o, pc)) /\ Moved(o, pc).pc = pc
           /\ Continue(o, Moved(o, pc)) /\ SameRole(op[o], Moved(o, pc))
  <1>1. StepFits(o, pc)
    BY DEF Unclaimed, StepFits, OpenSteps
  <1>2. Fits(o, Moved(o, pc)) /\ Moved(o, pc).pc = pc
    BY <1>1, GotoFits DEF Unclaimed, FsckSteps
  <1>3. Continue(o, Moved(o, pc)) /\ SameRole(op[o], Moved(o, pc))
    BY <1>2 DEF Goto, Moved, SameRole, Unclaimed
  <1> QED
    BY <1>2, <1>3

LEMMA GotoStep ==
    ASSUME IInv, NEW o \in Ops \ Launches, op[o].pc \in Unclaimed \ {"idle"},
           op[o].pc \in DbSteps => Head(dbq) = o,
           NEW pc \in Unclaimed \ WaitSteps, pc \in {"ldGet", "ldData"} => o \in CardOps,
           Goto(o, pc), OnlyMoves
    PROVE  IInv'
  BY GotoMoves, MoveStep

LEMMA FinishStep ==
    ASSUME IInv, NEW o \in Ops \ Launches, op[o].pc \in Unclaimed,
           op[o].pc \in DbSteps => Head(dbq) = o, Finish(o), OnlyMoves
    PROVE  IInv'
  <1>1. SameRole(op[o], NotRunning)
    BY NotRunningFits DEF SameRole, Unclaimed, FsckSteps, OpenSteps
  <1> QED
    BY <1>1, NotRunningFits, MoveStep DEF Finish

\* The status of a card is written.
LEMMA StatusStep ==
    ASSUME IInv, NEW o \in Ops \ Launches, NEW rec, Fits(o, rec), Continue(o, rec),
           op[o].pc \in DbSteps => Head(dbq) = o, SameRole(op[o], rec),
           NEW c, NEW status \in Status, disk' = WithStatus(c, status),
           UNCHANGED <<copies, session, fate>>
    PROVE  IInv'
  <1>1. disk \in Disk
    BY DEF IInv, Data
  <1>2. disk' \in Disk
    BY <1>1 DEF Disk, WithStatus
  <1>3. \A d \in CardIds : Exists(d) => Exists(d)'
    BY <1>1 DEF Disk, Exists, WithStatus
  <1>4. mutex' = mutex /\ jobs' = jobs /\ owner' = owner /\ SlotsKept /\ stuck' = stuck
    BY DEF copies, session, fate, SlotsKept
  <1>5. Data'
    BY <1>2 DEF IInv, Data, copies, session, fate
  <1> QED
    BY <1>3, <1>4, <1>5, QuietStep

\* The record of a session is written.
LEMMA SetMountedShape ==
    ASSUME IInv, NEW s \in SessionIds \cup {None}, NEW c \in CardIds \cup {None, Gone},
           SetMounted(s, c)
    PROVE  /\ disk' \in Disk /\ JobsFor(jobs', Waiters)
           /\ disk'.status = disk.status
           /\ \A d \in CardIds : Exists(d) => Exists(d)'
  <1>1. disk \in Disk
    BY DEF IInv, Data
  <1>2. disk' \in Disk /\ disk'.status = disk.status
    BY <1>1 DEF Disk, SetMounted
  <1>3. \A d \in CardIds : Exists(d) => Exists(d)'
    BY <1>2 DEF Exists
  <1> DEFINE j == [op |-> None, id |-> s, card |-> c]
  <1>4. j \in JobRecord /\ j.op = None
    BY DEF JobRecord
  <1>5. jobs' = Append(jobs, j)
    BY DEF SetMounted
  <1> HIDE DEF j
  <1>6. JobsFor(jobs', Waiters)
    BY <1>4, <1>5, JobsChange DEF IInv, JobsOK
  <1> QED
    BY <1>2, <1>3, <1>6

LEMMA SetMountedStep ==
    ASSUME IInv, NEW o \in Ops \ Launches, NEW rec, Fits(o, rec), Continue(o, rec),
           op[o].pc \in DbSteps => Head(dbq) = o, SameRole(op[o], rec),
           NEW s \in SessionIds \cup {None}, NEW c \in CardIds \cup {None, Gone},
           SetMounted(s, c), UNCHANGED <<copies, current, mutex, fate>>
    PROVE  IInv'
  <1>1. /\ disk' \in Disk /\ JobsFor(jobs', Waiters)
        /\ \A d \in CardIds : Exists(d) => Exists(d)'
    BY SetMountedShape
  <1>2. mutex' = mutex /\ owner' = owner /\ SlotsKept /\ stuck' = stuck
    BY DEF copies, fate, SlotsKept
  <1>3. Data'
    BY <1>1 DEF IInv, Data, copies, fate
  <1> QED
    BY <1>1, <1>2, <1>3, QuietStep

-----------------------------------------------------------------------------
(***************************************************************************)
(* Eject and delete.                                                       *)
(***************************************************************************)

LEMMA AtStep ==
    ASSUME NEW o, NEW pc, At(o, pc)
    PROVE  op[o].pc = pc /\ (op[o].pc \in DbSteps => Head(dbq) = o)
  BY DEF At

LEMMA EjectSteps ==
    /\ {"ask", "ejectGet", "ejOther", "ejOther2", "ejCard", "ejStatus", "ejSnap", "ejSession",
        "delCard", "fsMounted", "fsCard", "ccMounted", "ccCard", "ccCard2", "askRo",
        "mtMounted", "ldGet", "ldData", "mtStatus", "mtSession", "vfGet", "dlLoader",
        "fsLoader", "mtLoader", "vfLoader"}
         \subseteq Unclaimed \ (WaitSteps \cup {"idle"})
    /\ {"fiSync", "fiError", "paSync", "paSource", "edForm", "edSave", "dsDelete"}
         \subseteq Unclaimed \ (WaitSteps \cup {"idle"})
    /\ "idle" \in Unclaimed \ WaitSteps
  BY DEF Unclaimed, Steps, DbSteps, FreeSteps, LoaderSteps, FsckSteps, OpenSteps, WaitSteps

LEMMA AfterEjectStep ==
    ASSUME NEW o PROVE AfterEject(o) \in Unclaimed \ (WaitSteps \cup {"ldGet", "ldData"})
  BY EjectSteps DEF AfterEject

LEMMA ThrowStep ==
    ASSUME IInv, NEW o \in Ejectors, NEW pc \in Unclaimed, At(o, pc), Throw(o)
    PROVE  IInv'
  BY AtStep, DieStep, FinishStep, Names DEF Throw

\* A record of an operation with a new step and other fields of the right type.
LEMMA EjectFits ==
    ASSUME IInv, NEW o \in Ops \ Launches, op[o].pc # "idle",
           NEW pc \in Unclaimed \ (WaitSteps \cup {"idle", "ldGet", "ldData"}),
           NEW rec \in OpRecord, rec.pc = pc, rec.card = op[o].card
    PROVE  Fits(o, rec)
  <1>1. HasCard(o, pc) => rec.card \in CardIds
    BY CardOf DEF HasCard
  <1>2. StepFits(o, pc)
    BY DEF StepFits, Unclaimed, OpenSteps
  <1>3. pc # "fsStatus"
    BY DEF Unclaimed, FsckSteps
  <1> QED
    BY <1>1, <1>2, <1>3 DEF Fits

LEMMA RecordOf == ASSUME IInv, NEW o \in Ops PROVE op[o] \in OpRecord
  BY DEF IInv, Running, OpsOK

LEMMA SessionOfType ==
    ASSUME NEW c PROVE SessionOf(c) \in SessionIds \cup {None}
  <1>1. CASE MountedIn(c) = {}
    BY <1>1 DEF SessionOf
  <1>2. CASE MountedIn(c) # {}
    <2>1. (CHOOSE s \in MountedIn(c) : TRUE) \in MountedIn(c)
      BY <1>2
    <2> QED
      BY <1>2, <2>1 DEF SessionOf, MountedIn
  <1> QED
    BY <1>1, <1>2

LEMMA AnswerAskStep == ASSUME IInv, NEW o \in Ejectors, AnswerAsk(o) PROVE IInv'
  <1>1. /\ op[o].pc = "ask" /\ (op[o].pc \in DbSteps => Head(dbq) = o) /\ OnlyMoves
        /\ o \in Ops \ Launches /\ op[o].pc \in Unclaimed
    BY AtStep, Names, EjectSteps DEF AnswerAsk
  <1>2. CASE Finish(o)
    BY <1>1, <1>2, FinishStep
  <1> DEFINE rec == [op[o] EXCEPT !.pc = "ejectGet", !.ses = SessionOf(op[o].card)]
  <1>3. CASE Continue(o, rec)
    <2>1. rec \in OpRecord /\ rec.pc = "ejectGet" /\ rec.card = op[o].card
      BY <1>1, RecordOf, SessionOfType, EjectSteps DEF OpRecord, Unclaimed
    <2> HIDE DEF rec
    <2>2. Fits(o, rec)
      BY <1>1, <2>1, EjectFits, EjectSteps
    <2>3. SameRole(op[o], rec)
      BY <1>1, <2>1, EjectSteps DEF SameRole, Unclaimed
    <2> QED
      BY <1>1, <1>3, <2>2, <2>3, MoveStep
  <1> QED
    BY <1>2, <1>3 DEF AnswerAsk

LEMMA EjectGetStep == ASSUME IInv, NEW o \in Ejectors, EjectGet(o) PROVE IInv'
  <1>1. /\ op[o].pc = "ejectGet" /\ (op[o].pc \in DbSteps => Head(dbq) = o)
        /\ o \in Ops \ Launches /\ op[o].pc \in Unclaimed \ {"idle"} /\ At(o, "ejectGet")
    BY AtStep, Names, EjectSteps DEF EjectGet
  <1>2. CASE Goto(o, AfterEject(o)) /\ OnlyMoves
    BY <1>1, <1>2, AfterEjectStep, GotoStep
  <1>3. CASE Goto(o, "ejOther") /\ OnlyMoves
    BY <1>1, <1>3, EjectSteps, GotoStep
  <1>4. CASE Throw(o)
    BY <1>1, <1>4, ThrowStep
  <1> DEFINE rec == [op[o] EXCEPT !.pc = "ejCard", !.out = current.card]
  <1>5. CASE Continue(o, rec) /\ OnlyMoves
    <2>1. rec \in OpRecord /\ rec.pc = "ejCard" /\ rec.card = op[o].card
      <3>1. current.card \in CardIds \cup {None}
        BY DEF IInv, Data, Sessions
      <3> QED
        BY <1>1, <3>1, RecordOf, EjectSteps DEF OpRecord, Unclaimed
    <2> HIDE DEF rec
    <2>2. Fits(o, rec)
      BY <1>1, <2>1, EjectFits, EjectSteps
    <2>3. SameRole(op[o], rec)
      BY <1>1, <2>1, EjectSteps DEF SameRole, Unclaimed
    <2> QED
      BY <1>1, <1>5, <2>2, <2>3, MoveStep
  <1> QED
    BY <1>2, <1>3, <1>4, <1>5 DEF EjectGet

LEMMA EjectOtherStep == ASSUME IInv, NEW o \in Ejectors, EjectOther(o) PROVE IInv'
  <1>1. o \in Ops \ Launches
    BY Names
  <1>2. CASE At(o, "ejOther")
    <2>1. /\ op[o].pc = "ejOther" /\ (op[o].pc \in DbSteps => Head(dbq) = o)
          /\ op[o].pc \in Unclaimed \ {"idle"} /\ op[o].pc # "ejOther2"
      BY <1>2, AtStep, EjectSteps
    <2>2. CASE Die
      BY <2>2, DieStep
    <2>3. CASE /\ SetMounted(op[o].ses, None) /\ Goto(o, "ejOther2")
               /\ UNCHANGED <<copies, current, mutex, fate>>
      <3>1. op[o].ses \in SessionIds \cup {None}
        BY <1>1, RecordOf DEF OpRecord
      <3>2. /\ Fits(o, Moved(o, "ejOther2")) /\ Continue(o, Moved(o, "ejOther2"))
            /\ SameRole(op[o], Moved(o, "ejOther2"))
        BY <1>1, <2>1, <2>3, GotoMoves, EjectSteps
      <3> QED
        BY <1>1, <2>1, <2>3, <3>1, <3>2, SetMountedStep
    <2> QED
      BY <1>2, <2>1, <2>2, <2>3, AtStep DEF EjectOther
  <1>3. CASE At(o, "ejOther2")
    <2>1. /\ op[o].pc = "ejOther2" /\ (op[o].pc \in DbSteps => Head(dbq) = o)
          /\ op[o].pc \in Unclaimed \ {"idle"} /\ op[o].pc # "ejOther"
      BY <1>3, AtStep, EjectSteps
    <2>2. CASE Die
      BY <2>2, DieStep
    <2>3. CASE /\ disk' = WithStatus(op[o].card, "dirty") /\ Goto(o, AfterEject(o))
               /\ UNCHANGED <<copies, session, fate>>
      <3>1. /\ Fits(o, Moved(o, AfterEject(o))) /\ Continue(o, Moved(o, AfterEject(o)))
            /\ SameRole(op[o], Moved(o, AfterEject(o)))
        BY <1>1, <2>1, <2>3, GotoMoves, AfterEjectStep
      <3>2. "dirty" \in Status
        BY DEF Status
      <3> QED
        BY <1>1, <2>1, <2>3, <3>1, <3>2, StatusStep
    <2> QED
      BY <1>3, <2>1, <2>2, <2>3, AtStep DEF EjectOther
  <1> QED
    BY <1>2, <1>3 DEF EjectOther

LEMMA EjectPrepareStep == ASSUME IInv, NEW o \in Ejectors, EjectPrepare(o) PROVE IInv'
  <1>1. o \in Ops \ Launches
    BY Names
  <1>2. CASE At(o, "ejCard") /\ Goto(o, "ejStatus") /\ OnlyMoves
    BY <1>1, <1>2, AtStep, EjectSteps, GotoStep
  <1>3. CASE At(o, "ejCard") /\ Throw(o)
    BY <1>3, EjectSteps, ThrowStep
  <1>4. CASE Die
    BY <1>4, DieStep
  <1>5. CASE /\ At(o, "ejStatus") /\ disk' = WithStatus(op[o].out, "dirty")
             /\ Goto(o, "ejSnap") /\ UNCHANGED <<copies, session, fate>>
    <2>1. /\ op[o].pc = "ejStatus" /\ (op[o].pc \in DbSteps => Head(dbq) = o)
      BY <1>5, AtStep
    <2>2. /\ Fits(o, Moved(o, "ejSnap")) /\ Continue(o, Moved(o, "ejSnap"))
          /\ SameRole(op[o], Moved(o, "ejSnap"))
      BY <1>1, <1>5, <2>1, GotoMoves, EjectSteps
    <2>3. "dirty" \in Status
      BY DEF Status
    <2> QED
      BY <1>1, <1>5, <2>1, <2>2, <2>3, StatusStep
  <1>6. CASE At(o, "ejSnap") /\ Goto(o, "ejSession") /\ OnlyMoves
    BY <1>1, <1>6, AtStep, EjectSteps, GotoStep
  <1> QED
    BY <1>2, <1>3, <1>4, <1>5, <1>6 DEF EjectPrepare

LEMMA EjectRemoveStep == ASSUME IInv, NEW o \in Ejectors, EjectRemove(o) PROVE IInv'
  <1> DEFINE c == op[o].out
             s == op[o].ses
  <1>1. /\ o \in Ops \ Launches /\ op[o].pc = "ejSession"
        /\ (op[o].pc \in DbSteps => Head(dbq) = o) /\ op[o].pc \in Unclaimed \ {"idle"}
        /\ s \in SessionIds \cup {None} /\ c \in CardIds \cup {None}
    BY Names, AtStep, EjectSteps, RecordOf DEF EjectRemove, OpRecord
  <1>2. CASE Die
    BY <1>2, DieStep
  <1>3. CASE Fatal /\ disk' = [disk EXCEPT !.mounted[s] = None]
    <2>1. disk' \in Disk
      BY <1>3 DEF IInv, Data, Disk
    <2> QED
      BY <1>3, <2>1, FatalStep
  <1>4. CASE /\ owner[c] = "cloudpilot" /\ SetMounted(s, None)
             /\ emu' = [images |-> emu.images \ {c},
                        key |-> IF emu.key = c THEN None ELSE emu.key]
             /\ owner' = [owner EXCEPT ![c] = "none"]
             /\ stale' = stale \ {<<"emu", c>>}
             /\ Goto(o, AfterEject(o))
             /\ UNCHANGED <<vfs, current, mutex, fate>>
    <2>1. /\ disk' \in Disk /\ JobsFor(jobs', Waiters)
          /\ \A d \in CardIds : Exists(d) => Exists(d)'
      BY <1>1, <1>4, SetMountedShape
    <2>2. /\ Fits(o, Moved(o, AfterEject(o))) /\ Continue(o, Moved(o, AfterEject(o)))
          /\ SameRole(op[o], Moved(o, AfterEject(o)))
      BY <1>1, <1>4, GotoMoves, AfterEjectStep
    <2>3. Data'
      <3>1. emu' \in Images
        BY <1>4 DEF IInv, Data, Images
      <3>2. owner' \in [CardIds -> Owners]
        BY <1>4 DEF IInv, Data, Owners
      <3> QED
        BY <1>4, <2>1, <3>1, <3>2 DEF IInv, Data, fate
    <2>4. OwnersKept
      BY <1>4 DEF OwnersKept, IInv, Data
    <2>5. OwnedExist'
      BY <1>4, <2>1 DEF OwnedExist, IInv, Data, Claims
    <2> QED
      BY <1>1, <1>4, <2>1, <2>2, <2>3, <2>4, <2>5, EmulatorStep DEF SlotsKept, fate
  <1> QED
    BY <1>2, <1>3, <1>4 DEF EjectRemove

-----------------------------------------------------------------------------
(***************************************************************************)
(* Operations that start.                                                  *)
(***************************************************************************)

\* The record Begin gives an operation.
Started(pc, c, s) == [NotRunning EXCEPT !.pc = pc, !.card = c, !.ses = s]

LEMMA IdleStep ==
    ASSUME NEW o, op[o].pc = "idle"
    PROVE  op[o].pc \in Unclaimed /\ (op[o].pc \in DbSteps => Head(dbq) = o)
  BY EjectSteps DEF DbSteps

LEMMA StartedFits ==
    ASSUME NEW o \in Ops, NEW pc \in Steps \ {"idle", "fsStatus"},
           NEW c \in CardIds \cup {None}, NEW s \in SessionIds \cup {None},
           StepFits(o, pc), HasCard(o, pc) => c \in CardIds, o \in Launches => s \in SessionIds
    PROVE  /\ Fits(o, Started(pc, c, s))
           /\ Started(pc, c, s).pc = pc /\ Started(pc, c, s).card = c
  BY DEF Started, NotRunning, Fits, OpRecord

LEMMA BeginMoves ==
    ASSUME IInv, NEW o \in Ops \ Launches,
           NEW pc \in Unclaimed \ (WaitSteps \cup {"idle", "ldGet", "ldData"}),
           NEW c \in CardIds \cup {None}, NEW s \in SessionIds \cup {None},
           o \in CardOps => c \in CardIds, Begin(o, pc, c, s)
    PROVE  /\ Fits(o, Started(pc, c, s)) /\ Continue(o, Started(pc, c, s))
           /\ SameRole(op[o], Started(pc, c, s))
           /\ op[o].pc \in DbSteps => Head(dbq) = o
  <1>1. op[o].pc = "idle" /\ Continue(o, Started(pc, c, s))
    BY DEF Begin, Started
  <1>2. /\ StepFits(o, pc) /\ (HasCard(o, pc) => c \in CardIds)
        /\ pc \in Steps \ {"idle", "fsStatus"}
    BY DEF StepFits, HasCard, Unclaimed, OpenSteps, FsckSteps
  <1>3. Fits(o, Started(pc, c, s)) /\ Started(pc, c, s).pc = pc
    BY <1>2, StartedFits
  <1>4. SameRole(op[o], Started(pc, c, s))
    BY <1>1, <1>3, IdleStep DEF SameRole, Unclaimed
  <1> QED
    BY <1>1, <1>3, <1>4, IdleStep

LEMMA BeginStep ==
    ASSUME IInv, NEW o \in Ops \ Launches,
           NEW pc \in Unclaimed \ (WaitSteps \cup {"idle", "ldGet", "ldData"}),
           NEW c \in CardIds \cup {None}, NEW s \in SessionIds \cup {None},
           o \in CardOps => c \in CardIds, Begin(o, pc, c, s), OnlyMoves
    PROVE  IInv'
  BY BeginMoves, MoveStep

LEMMA StartEjectStep == ASSUME IInv, NEW o \in Ejects, StartEject(o) PROVE IInv'
  <1> DEFINE rec == [NotRunning EXCEPT !.pc = "ejCard", !.out = current.card,
                                       !.ses = current.id]
  <1>1. o \in Ops \ Launches /\ o \notin CardOps
    BY DEF Ejects, Ops, Launches, CardOps, Writers
  <1>2. op[o].pc = "idle" /\ Continue(o, rec) /\ OnlyMoves
    BY DEF StartEject
  <1>3. rec \in OpRecord /\ rec.pc = "ejCard"
    <2>1. current.card \in CardIds \cup {None} /\ current.id \in SessionIds \cup {None}
      BY DEF IInv, Data, Sessions
    <2> QED
      BY <2>1, EjectSteps DEF NotRunning, OpRecord, Unclaimed
  <1> HIDE DEF rec
  <1>4. Fits(o, rec)
    BY <1>1, <1>3 DEF Fits, StepFits, HasCard, WaitSteps, FsckSteps
  <1>5. SameRole(op[o], rec)
    BY <1>2, <1>3, EjectSteps DEF SameRole, Unclaimed
  <1> QED
    BY <1>1, <1>2, <1>4, <1>5, IdleStep, MoveStep

LEMMA StartCardStep ==
    ASSUME IInv, NEW c \in CardIds,
           StartCheck(c) \/ StartInsert(c) \/ StartBrowse(c) \/ StartDelete(c)
    PROVE  IInv'
  <1>1. CASE StartCheck(c)
    BY <1>1, BeginStep, Names, EjectSteps DEF StartCheck
  <1>2. CASE StartInsert(c)
    BY <1>2, BeginStep, Names, EjectSteps DEF StartInsert
  <1>3. CASE StartBrowse(c)
    BY <1>3, BeginStep, Names, EjectSteps DEF StartBrowse
  <1>4. CASE StartDelete(c)
    BY <1>4, BeginStep, Names, EjectSteps DEF StartDelete
  <1> QED
    BY <1>1, <1>2, <1>3, <1>4

LEMMA NoCardOps == "edit" \notin CardOps /\ "delSession" \notin CardOps
  BY DEF CardOps, Writers

\* What a session has for a card while its record is there.
LEMMA MountedType ==
    ASSUME IInv, NEW s \in SessionIds, SessionExists(s)
    PROVE  disk.mounted[s] \in CardIds \cup {None}
  BY DEF IInv, Data, Disk, SessionExists

LEMMA StartSessionOpStep ==
    ASSUME IInv, NEW s \in SessionIds, StartEdit(s) \/ StartDeleteSession(s)
    PROVE  IInv'
  <1>1. CASE StartEdit(s)
    <2>1. disk.mounted[s] \in CardIds \cup {None}
      BY <1>1, MountedType DEF StartEdit
    <2>2. Begin("edit", "edForm", disk.mounted[s], s) /\ OnlyMoves
      BY <1>1 DEF StartEdit
    <2> QED
      BY <2>1, <2>2, BeginStep, Names, NoCardOps, EjectSteps
  <1>2. CASE StartDeleteSession(s)
    BY <1>2, BeginStep, Names, NoCardOps, EjectSteps DEF StartDeleteSession
  <1> QED
    BY <1>1, <1>2

LEMMA StartFileStep == ASSUME IInv, StartFile PROVE IInv'
  <1>1. vfs.primary \in CardIds
    BY DEF IInv, Data, Slots, StartFile
  <1>2. PICK pc \in {"fiSync", "fiError"} : Begin("file", pc, vfs.primary, None)
    BY DEF StartFile
  <1>3. OnlyMoves
    BY DEF StartFile
  <1> QED
    BY <1>1, <1>2, <1>3, BeginStep, Names, EjectSteps

-----------------------------------------------------------------------------
(***************************************************************************)
(* A card leaves the VFS.                                                  *)
(***************************************************************************)

LEMMA ReleaseTypes ==
    ASSUME IInv, NEW c \in CardIds
    PROVE  /\ OwnerWithout(c) \in [CardIds -> Owners]
           /\ VfsWithout(c) \in Slots
           /\ StaleWithout(c) \subseteq Holders \X CardIds
  <1>1. OwnerWithout(c) \in [CardIds -> Owners]
    BY DEF IInv, Data, OwnerWithout, Owners
  <1>2. VfsWithout(c) \in Slots
    BY DEF IInv, Data, VfsWithout, Slots
  <1>3. StaleWithout(c) \subseteq Holders \X CardIds
    BY Names DEF IInv, Data, StaleWithout, Holders
  <1> QED
    BY <1>1, <1>2, <1>3

\* What is in the VFS once a card has left it.
LEMMA ReleaseShape ==
    ASSUME IInv, NEW c \in CardIds
    PROVE  /\ VfsWithout(c).primary = IF vfs.primary = c THEN None ELSE vfs.primary
           /\ VfsWithout(c).secondary = IF vfs.secondary = c THEN None ELSE vfs.secondary
           /\ VfsWithout(c).clip = vfs.clip
           /\ \A d \in CardIds :
                OwnerWithout(c)[d] = IF d = c /\ InVfs(c) THEN "none" ELSE owner[d]
           /\ \A d \in CardIds : InVfs(d) => ~Opened(d) /\ owner[d] = "vfs"
  <1>1. /\ VfsWithout(c).primary = IF vfs.primary = c THEN None ELSE vfs.primary
        /\ VfsWithout(c).secondary = IF vfs.secondary = c THEN None ELSE vfs.secondary
        /\ VfsWithout(c).clip = vfs.clip
    BY DEF IInv, Data, VfsWithout, Slots
  <1>2. \A d \in CardIds :
                OwnerWithout(c)[d] = IF d = c /\ InVfs(c) THEN "none" ELSE owner[d]
    BY DEF IInv, Data, OwnerWithout
  <1>3. \A d \in CardIds : InVfs(d) => ~Opened(d) /\ owner[d] = "vfs"
    BY DEF IInv, Claims, SlotsOK, VfsClaims, Opened
  <1> QED
    BY <1>1, <1>2, <1>3

\* The claims stand when a card leaves the VFS.
LEMMA ReleaseClaims ==
    ASSUME IInv, NEW c \in CardIds, RolesSame, owner' = OwnerWithout(c),
           vfs' = VfsWithout(c), stuck' = stuck, \A d \in CardIds : Exists(d) => Exists(d)'
    PROVE  Claims'
  <1>1. /\ vfs'.primary = IF vfs.primary = c THEN None ELSE vfs.primary
        /\ vfs'.secondary = IF vfs.secondary = c THEN None ELSE vfs.secondary
        /\ vfs'.clip = vfs.clip
        /\ \A d \in CardIds :
                owner'[d] = IF d = c /\ InVfs(c) THEN "none" ELSE owner[d]
        /\ \A d \in CardIds : InVfs(d) => ~Opened(d) /\ owner[d] = "vfs"
    BY ReleaseShape
  <1>2. \A d \in CardIds : InVfs(d)' <=> InVfs(d) /\ d # c
    BY <1>1, NoneIsNoLaunch DEF InVfs
  <1>3. \A d \in CardIds : /\ Opens("browse", d)' <=> Opens("browse", d)
                           /\ Opens("paste", d)' <=> Opens("paste", d)
    BY Names DEF RolesSame
  <1>4. SlotsOK'
    BY <1>1, <1>2, <1>3 DEF IInv, Claims, SlotsOK
  <1>5. VfsClaims'
    BY <1>1, <1>2, <1>3 DEF IInv, Claims, VfsClaims, Opened
  <1>6. FsckClaims'
    BY <1>1, Names DEF IInv, Claims, FsckClaims, RolesSame
  <1>7. OwnedExist'
    BY <1>1 DEF IInv, Claims, OwnedExist
  <1> QED
    BY <1>4, <1>5, <1>6, <1>7 DEF Claims

\* A step that releases a card of the VFS.
LEMMA ReleaseStep ==
    ASSUME IInv, NEW o \in Ops \ Launches, NEW rec, Fits(o, rec), Continue(o, rec),
           op[o].pc \in DbSteps => Head(dbq) = o, SameRole(op[o], rec),
           NEW c \in CardIds, ReleaseCard(c), disk' \in Disk,
           \A d \in CardIds : Exists(d) => Exists(d)', UNCHANGED <<emu, session, fate>>
    PROVE  IInv'
  <1>1. /\ owner' = OwnerWithout(c) /\ vfs' = VfsWithout(c) /\ stale' = StaleWithout(c)
        /\ mutex' = mutex /\ jobs' = jobs /\ stuck' = stuck
    BY DEF ReleaseCard, session, fate
  <1>2. Running' /\ MutexOK' /\ JobsOK' /\ op'[o] = rec /\ Moves(o)
    BY <1>1, PlainStep
  <1>3. Data'
    BY <1>1, ReleaseTypes DEF IInv, Data, session, fate
  <1>4. RolesSame
    BY <1>2, RolesKept DEF RolesSame
  <1>5. Claims'
    BY <1>1, <1>4, ReleaseClaims
  <1> QED
    BY <1>2, <1>3, <1>5 DEF IInv

LEMMA DeleteReleaseStep == IInv /\ DeleteRelease => IInv'
  <1> SUFFICES ASSUME IInv, DeleteRelease PROVE IInv'
    OBVIOUS
  <1> DEFINE c == op["delete"].card
             rec == [op["delete"] EXCEPT !.pc = "ejectGet", !.ses = SessionOf(c)]
  <1>1. /\ op["delete"].pc = "dlLoader" /\ op["delete"].pc \in Unclaimed \ {"idle"}
        /\ (op["delete"].pc \in DbSteps => Head(dbq) = "delete")
        /\ "delete" \in Ops \ Launches /\ "delete" \in CardOps
    BY AtStep, EjectSteps, Names DEF DeleteRelease, CardOps
  <1>2. c \in CardIds
    BY <1>1, CardOf
  <1>3. CASE Die
    BY <1>3, DieStep
  <1>4. CASE /\ ReleaseCard(c) /\ Continue("delete", rec)
             /\ UNCHANGED <<disk, emu, session, fate>>
    <2>1. SessionOf(c) \in SessionIds \cup {None}
      BY SessionOfType
    <2>2. rec \in OpRecord /\ rec.pc = "ejectGet" /\ rec.card = c
      BY <1>1, <2>1, RecordOf, EjectSteps DEF OpRecord, Unclaimed
    <2> HIDE DEF rec
    <2>3. Fits("delete", rec)
      BY <1>1, <1>2, <2>2, EjectSteps, EjectFits
    <2>4. SameRole(op["delete"], rec)
      BY <1>1, <2>2, EjectSteps DEF SameRole, Unclaimed
    <2>5. disk' \in Disk /\ \A d \in CardIds : Exists(d) => Exists(d)'
      BY <1>4 DEF IInv, Data, Exists
    <2> QED
      BY <1>1, <1>2, <1>4, <2>3, <2>4, <2>5, ReleaseStep
  <1> QED
    BY <1>3, <1>4 DEF DeleteRelease

LEMMA DeleteCardStep == IInv /\ DeleteCard => IInv'
  <1> SUFFICES ASSUME IInv, DeleteCard PROVE IInv'
    OBVIOUS
  <1> DEFINE c == op["delete"].card
  <1>1. /\ op["delete"].pc = "delCard" /\ op["delete"].pc \in Unclaimed
        /\ (op["delete"].pc \in DbSteps => Head(dbq) = "delete")
    BY AtStep, EjectSteps DEF DeleteCard
  <1>2. CASE Die
    BY <1>2, DieStep
  <1>3. CASE /\ owner[c] = "none"
             /\ disk' = [disk EXCEPT !.status[c] = Gone, !.health[c] = "unknown"]
             /\ vfs' = [vfs EXCEPT !.clip = IF @ = c THEN None ELSE @]
             /\ Finish("delete")
             /\ UNCHANGED <<owner, emu, stale, session, fate>>
    <2>1. disk' \in Disk /\ \A d \in CardIds \ {c} : Exists(d) => Exists(d)'
      BY <1>3 DEF IInv, Data, Disk, Exists
    <2>2. vfs' \in Slots /\ SlotsKept
      BY <1>3 DEF IInv, Data, Slots, SlotsKept
    <2>3. Data'
      BY <1>3, <2>1, <2>2 DEF IInv, Data, session, fate
    <2>4. OwnersKept
      BY <1>3 DEF OwnersKept
    <2>5. OwnedExist'
      BY <1>3, <2>1 DEF IInv, Claims, OwnedExist
    <2>6. SameRole(op["delete"], NotRunning) /\ Continue("delete", NotRunning)
      BY <1>1, <1>3, NotRunningFits, EjectSteps DEF SameRole, Unclaimed, Finish
    <2>7. mutex' = mutex /\ jobs' = jobs /\ stuck' = stuck
      BY <1>3 DEF session, fate
    <2> QED
      BY <1>1, <2>2, <2>3, <2>4, <2>5, <2>6, <2>7, NotRunningFits, Names, EmulatorStep
  <1> QED
    BY <1>2, <1>3 DEF DeleteCard

-----------------------------------------------------------------------------
(***************************************************************************)
(* Check, insert, browse.                                                  *)
(***************************************************************************)

LEMMA ClaimStepsFit ==
    ASSUME NEW o \in Checkers
    PROVE  ClaimSteps(o) \subseteq Unclaimed \ (WaitSteps \cup {"ldGet", "ldData"})
  BY EjectSteps DEF ClaimSteps, MountStep, SwitchStatus

LEMMA CheckAndClaimStep == ASSUME IInv, NEW o \in Checkers, CheckAndClaim(o) PROVE IInv'
  <1> DEFINE c == op[o].card
  <1>1. PICK at \in {"ccMounted", "ccCard", "ccCard2", "askRo"} : At(o, at)
    BY DEF CheckAndClaim
  <1>2. /\ op[o].pc \in Unclaimed \ {"idle"} /\ (op[o].pc \in DbSteps => Head(dbq) = o)
        /\ o \in Ops \ Launches /\ c \in CardIds
    BY <1>1, AtStep, EjectSteps, Names, CardOf
  <1>3. PICK pc \in ClaimSteps(o) :
          \/ Goto(o, pc) /\ OnlyMoves
          \/ Die
          \/ Goto(o, pc) /\ ReleaseCard(c) /\ UNCHANGED <<disk, emu, session, fate>>
    BY DEF CheckAndClaim
  <1>4. pc \in Unclaimed \ WaitSteps /\ pc \notin {"ldGet", "ldData"}
    BY ClaimStepsFit
  <1>5. CASE Goto(o, pc) /\ OnlyMoves
    BY <1>2, <1>4, <1>5, GotoStep
  <1>6. CASE Die
    BY <1>6, DieStep
  <1>7. CASE Goto(o, pc) /\ ReleaseCard(c) /\ UNCHANGED <<disk, emu, session, fate>>
    <2>1. /\ Fits(o, Moved(o, pc)) /\ Continue(o, Moved(o, pc))
          /\ SameRole(op[o], Moved(o, pc))
      BY <1>2, <1>4, <1>7, GotoMoves
    <2>2. disk' \in Disk /\ \A d \in CardIds : Exists(d) => Exists(d)'
      BY <1>7 DEF IInv, Data, Exists
    <2> QED
      BY <1>2, <1>7, <2>1, <2>2, ReleaseStep
  <1> QED
    BY <1>3, <1>5, <1>6, <1>7

\* What each operation holds after a step of o.
LEMMA NewRoles ==
    ASSUME NEW o \in Ops, NEW rec, op'[o] = rec, Moves(o)
    PROVE  /\ \A c \in CardIds : /\ Checks(o, c)' <=> rec.pc \in FsckSteps /\ rec.card = c
                                 /\ Opens(o, c)' <=> rec.pc \in OpenSteps /\ rec.card = c
           /\ \A p \in Ops \ {o} : \A c \in CardIds :
                /\ Checks(p, c)' <=> Checks(p, c)
                /\ Opens(p, c)' <=> Opens(p, c)
  BY DEF Checks, Opens, Moves

\* The VFS is as it was, and so is what it owns.
LEMMA VfsKept ==
    ASSUME Claims, vfs' = vfs,
           \A c \in CardIds : owner'[c] = "vfs" <=> owner[c] = "vfs",
           \A c \in CardIds : /\ Opens("browse", c)' <=> Opens("browse", c)
                              /\ Opens("paste", c)' <=> Opens("paste", c)
    PROVE  SlotsOK' /\ VfsClaims'
  <1>1. \A c \in CardIds : InVfs(c)' <=> InVfs(c)
    BY DEF InVfs
  <1> QED
    BY <1>1 DEF Claims, SlotsOK, VfsClaims, Opened

\* An operation gives up a card it held for fstools.
LEMMA FsckLeaveStep ==
    ASSUME IInv, NEW o \in Checkers, op[o].pc \in FsckSteps, NEW rec, Fits(o, rec),
           rec.pc \in Unclaimed, Continue(o, rec), op[o].pc \in DbSteps => Head(dbq) = o,
           mutex' = mutex, jobs' = jobs, vfs' = vfs, Data', stuck \subseteq stuck',
           \A d \in CardIds : Exists(d) => Exists(d)',
           \/ owner' = [owner EXCEPT ![op[o].card] = "none"]
           \/ owner' = owner /\ op[o].card \in stuck'
    PROVE  IInv'
  <1> DEFINE c == op[o].card
  <1>1. Running' /\ MutexOK' /\ JobsOK' /\ op'[o] = rec /\ Moves(o) /\ o \in Ops
    BY PlainStep, Names
  <1>2. /\ \A d \in CardIds : ~Checks(o, d)' /\ ~Opens(o, d)' /\ ~Opens(o, d)
        /\ \A p \in Ops \ {o} : \A d \in CardIds :
             /\ Checks(p, d)' <=> Checks(p, d)
             /\ Opens(p, d)' <=> Opens(p, d)
    BY <1>1, NewRoles DEF Unclaimed, Opens, FsckSteps, OpenSteps
  <1>3. c \in CardIds /\ Checks(o, c) /\ owner[c] = "fstools"
    <2>1. c \in CardIds
      BY CardOf, Names DEF FsckSteps
    <2> QED
      BY <2>1 DEF IInv, Claims, FsckClaims, Checks
  <1>4. \A d \in CardIds \ {c} : owner'[d] = owner[d] /\ ~Checks(o, d)
    BY DEF IInv, Data, Checks
  <1>5. owner'[c] = "none" \/ (owner'[c] = "fstools" /\ c \in stuck')
    BY <1>3 DEF IInv, Data
  <1>6. SlotsOK' /\ VfsClaims'
    <2>1. \A d \in CardIds : owner'[d] = "vfs" <=> owner[d] = "vfs"
      BY <1>3, <1>4, <1>5
    <2>2. \A d \in CardIds : /\ Opens("browse", d)' <=> Opens("browse", d)
                             /\ Opens("paste", d)' <=> Opens("paste", d)
      BY <1>2, Names
    <2> QED
      BY <2>1, <2>2, VfsKept DEF IInv
  <1>7. FsckClaims'
    <2>1. ASSUME NEW d \in CardIds, owner'[d] = "fstools"
          PROVE  d \in stuck' \/ \E p \in Checkers : Checks(p, d)'
      <3>1. CASE d = c
        BY <1>5, <2>1, <3>1
      <3>2. CASE d # c
        BY <1>2, <1>4, <2>1, <3>2, Names DEF IInv, Claims, FsckClaims
      <3> QED
        BY <3>1, <3>2
    <2>2. ASSUME NEW d \in CardIds, NEW p \in Checkers, Checks(p, d)'
          PROVE  owner'[d] = "fstools" /\ \A q \in Checkers : Checks(q, d)' => q = p
      <3>1. p # o /\ Checks(p, d)
        BY <1>2, <2>2, Names
      <3>2. d # c
        BY <1>3, <3>1 DEF IInv, Claims, FsckClaims
      <3> QED
        BY <1>2, <1>4, <3>1, <3>2, Names DEF IInv, Claims, FsckClaims
    <2> QED
      BY <2>1, <2>2 DEF FsckClaims
  <1>8. OwnedExist'
    BY <1>3, <1>4, <1>5 DEF IInv, Claims, OwnedExist
  <1> QED
    BY <1>1, <1>6, <1>7, <1>8 DEF IInv, Claims

LEMMA FsckStepNames ==
    /\ FsckSteps \subseteq Steps \ {"idle"}
    /\ FsckSteps \cap (WaitSteps \cup OpenSteps \cup {"ldGet", "ldData"}) = {}
  BY DEF FsckSteps, Steps, DbSteps, FreeSteps, LoaderSteps, WaitSteps, OpenSteps

\* An operation that checks a card goes on checking it.
LEMMA FsckMoves ==
    ASSUME IInv, NEW o \in Checkers, op[o].pc \in FsckSteps,
           NEW pc \in FsckSteps \ {"fsStatus"}, Goto(o, pc)
    PROVE  /\ Fits(o, Moved(o, pc)) /\ Continue(o, Moved(o, pc))
           /\ SameRole(op[o], Moved(o, pc))
  <1>1. o \in Ops \ Launches /\ op[o].pc # "idle" /\ pc \in Steps \ {"idle"}
    BY Names, FsckStepNames
  <1>2. StepFits(o, pc)
    BY FsckStepNames DEF StepFits, OpenSteps
  <1>3. /\ Fits(o, Moved(o, pc)) /\ Moved(o, pc).pc = pc
        /\ Moved(o, pc).card = op[o].card
    BY <1>1, <1>2, GotoFits, FsckStepNames
  <1> QED
    BY <1>3 DEF Goto, Moved, SameRole

\* The card is taken from the VFS, if it is there, and claimed for fstools.
LEMMA FsckEnterStep ==
    ASSUME IInv, NEW o \in Checkers, At(o, "fsCard"), ClaimOk(op[o].card),
           owner' = ClaimFor(op[o].card, "fstools"), vfs' = VfsWithout(op[o].card),
           stale' = StaleWithout(op[o].card), Goto(o, "fsCtx"), Exists(op[o].card),
           UNCHANGED <<disk, emu, session, fate>>
    PROVE  IInv'
  <1> DEFINE c == op[o].card
             rec == Moved(o, "fsCtx")
  <1>1. /\ op[o].pc = "fsCard" /\ (op[o].pc \in DbSteps => Head(dbq) = o)
        /\ op[o].pc \in Unclaimed \ {"idle"} /\ o \in Ops \ Launches
        /\ "fsCtx" \in FsckSteps /\ "fsCtx" \in Steps \ {"idle", "ldGet", "ldData"}
    BY AtStep, EjectSteps, Names, FsckStepNames DEF FsckSteps
  <1>2. c \in CardIds
    BY <1>1, CardOf, Names
  <1>3. /\ Fits(o, rec) /\ rec.pc = "fsCtx" /\ rec.card = c /\ Continue(o, rec)
    <2>1. StepFits(o, "fsCtx")
      BY <1>1 DEF StepFits, WaitSteps
    <2> QED
      BY <1>1, <2>1, GotoFits DEF Goto, Moved
  <1> HIDE DEF rec
  <1>4. Running' /\ MutexOK' /\ JobsOK' /\ op'[o] = rec /\ Moves(o)
    BY <1>1, <1>3, PlainStep DEF session
  <1>5. /\ \A d \in CardIds : /\ Checks(o, d)' <=> d = c
                              /\ ~Opens(o, d)' /\ ~Opens(o, d) /\ ~Checks(o, d)
        /\ \A p \in Ops \ {o} : \A d \in CardIds :
             /\ Checks(p, d)' <=> Checks(p, d)
             /\ Opens(p, d)' <=> Opens(p, d)
    BY <1>1, <1>3, <1>4, NewRoles DEF Checks, Opens, FsckSteps, OpenSteps
  <1>6. /\ VfsWithout(c).primary = IF vfs.primary = c THEN None ELSE vfs.primary
        /\ VfsWithout(c).secondary = IF vfs.secondary = c THEN None ELSE vfs.secondary
        /\ VfsWithout(c).clip = vfs.clip
        /\ \A d \in CardIds :
             OwnerWithout(c)[d] = IF d = c /\ InVfs(c) THEN "none" ELSE owner[d]
        /\ \A d \in CardIds : InVfs(d) => ~Opened(d) /\ owner[d] = "vfs"
    BY <1>2, ReleaseShape
  <1>7. /\ owner' \in [CardIds -> Owners] /\ vfs' \in Slots
        /\ stale' \subseteq Holders \X CardIds
        /\ owner'[c] = "fstools" /\ \A d \in CardIds \ {c} : owner'[d] = owner[d]
    <2>1. OwnerWithout(c) \in [CardIds -> Owners]
      BY <1>2, ReleaseTypes
    <2>2. owner' = [OwnerWithout(c) EXCEPT ![c] = "fstools"] /\ "fstools" \in Owners
      BY DEF ClaimFor, Owners
    <2>3. owner' \in [CardIds -> Owners] /\ owner'[c] = "fstools"
          /\ \A d \in CardIds \ {c} : owner'[d] = OwnerWithout(c)[d]
      BY <1>2, <2>1, <2>2
    <2> QED
      BY <1>2, <1>6, <2>3, ReleaseTypes
  <1>8. Data'
    BY <1>7 DEF IInv, Data, session, fate
  <1>9. (owner[c] = "none" \/ (owner[c] = "vfs" /\ InVfs(c))) /\ ~Opened(c)
    <2>1. OwnerWithout(c)[c] = "none"
      BY DEF ClaimOk
    <2> QED
      BY <1>2, <1>6, <2>1 DEF IInv, Claims, VfsClaims
  <1>10. \A d \in CardIds : InVfs(d)' <=> InVfs(d) /\ d # c
    BY <1>6, NoneIsNoLaunch DEF InVfs
  <1>11. \A d \in CardIds : /\ Opens("browse", d)' <=> Opens("browse", d)
                            /\ Opens("paste", d)' <=> Opens("paste", d)
    BY <1>5, Names
  <1>12. SlotsOK'
    BY <1>6, <1>10, <1>11 DEF IInv, Claims, SlotsOK
  <1>13. VfsClaims'
    BY <1>7, <1>9, <1>10, <1>11 DEF IInv, Claims, VfsClaims, Opened
  <1>14. FsckClaims'
    <2>1. \A p \in Checkers : ~Checks(p, c)
      BY <1>2, <1>9 DEF IInv, Claims, FsckClaims
    <2>2. ASSUME NEW d \in CardIds \ {c}
          PROVE  /\ owner'[d] = owner[d]
                 /\ \A p \in Checkers : Checks(p, d)' <=> Checks(p, d)
      BY <1>5, <1>7, Names
    <2>3. stuck' = stuck
      BY DEF fate
    <2>4. ASSUME NEW d \in CardIds, d = c
          PROVE  owner'[d] = "fstools" /\ \A p \in Checkers : Checks(p, d)' <=> p = o
      BY <1>5, <1>7, <2>1, <2>4, Names
    <2> QED
      BY <2>2, <2>3, <2>4 DEF IInv, Claims, FsckClaims
  <1>15. OwnedExist'
    BY <1>7 DEF IInv, Claims, OwnedExist, Exists
  <1> QED
    BY <1>4, <1>8, <1>12, <1>13, <1>14, <1>15 DEF IInv, Claims

LEMMA LoaderShownStep == ASSUME IInv, NEW o \in Checkers, LoaderShown(o) PROVE IInv'
  <1>1. o \in Ops \ Launches
    BY Names
  <1>2. CASE At(o, "fsLoader") /\ Goto(o, "fsMounted") /\ OnlyMoves
    BY <1>1, <1>2, AtStep, EjectSteps, GotoStep
  <1>3. CASE At(o, "vfLoader") /\ Goto(o, "vfGet") /\ OnlyMoves
    BY <1>1, <1>3, AtStep, EjectSteps, GotoStep
  <1>4. CASE At(o, "apLoader") /\ Goto(o, "apData") /\ OnlyMoves
    <2>1. "apLoader" \in FsckSteps /\ "apData" \in FsckSteps
      BY DEF FsckSteps
    <2>2. /\ op[o].pc \in FsckSteps /\ (op[o].pc \in DbSteps => Head(dbq) = o)
      BY <1>4, <2>1, AtStep
    <2>3. /\ Fits(o, Moved(o, "apData")) /\ Continue(o, Moved(o, "apData"))
          /\ SameRole(op[o], Moved(o, "apData"))
      BY <1>1, <1>4, <2>1, <2>2, FsckMoves
    <2> QED
      BY <1>1, <1>4, <2>2, <2>3, MoveStep
  <1> QED
    BY <1>2, <1>3, <1>4 DEF LoaderShown

LEMMA FsckClaimStep == ASSUME IInv, NEW o \in Checkers, FsckClaim(o) PROVE IInv'
  <1>1. o \in Ops \ Launches
    BY Names
  <1>2. CASE At(o, "fsMounted") /\ (\E pc \in {"fsCard", "idle"} : Goto(o, pc)) /\ OnlyMoves
    BY <1>1, <1>2, AtStep, EjectSteps, GotoStep
  <1>3. CASE At(o, "fsCard") /\ Finish(o) /\ OnlyMoves
    BY <1>1, <1>3, AtStep, EjectSteps, FinishStep
  <1>4. CASE Die
    BY <1>4, DieStep
  <1>5. CASE /\ At(o, "fsCard") /\ ClaimOk(op[o].card) /\ Exists(op[o].card)
             /\ owner' = ClaimFor(op[o].card, "fstools") /\ vfs' = VfsWithout(op[o].card)
             /\ stale' = StaleWithout(op[o].card) /\ Goto(o, "fsCtx")
             /\ UNCHANGED <<disk, emu, session, fate>>
    BY <1>5, FsckEnterStep
  <1> QED
    BY <1>2, <1>3, <1>4, <1>5 DEF FsckClaim

\* The steps of a check at which something may break off.
LEMMA AtFsck ==
    ASSUME IInv, NEW o \in Checkers, NEW pc \in FsckSteps, At(o, pc)
    PROVE  /\ op[o].pc = pc /\ op[o].pc \in FsckSteps
           /\ (op[o].pc \in DbSteps => Head(dbq) = o)
           /\ o \in Ops \ Launches /\ op[o].card \in CardIds
           /\ owner[op[o].card] = "fstools" /\ Exists(op[o].card)
  <1>1. op[o].pc = pc /\ (op[o].pc \in DbSteps => Head(dbq) = o) /\ o \in Ops \ Launches
    BY AtStep, Names
  <1>2. op[o].card \in CardIds
    BY <1>1, CardOf, FsckStepNames, Names
  <1> QED
    BY <1>1, <1>2 DEF IInv, Claims, FsckClaims, OwnedExist, Checks

LEMMA FsckContextStep == ASSUME IInv, NEW o \in Checkers, FsckContext(o) PROVE IInv'
  <1>1. /\ op[o].pc = "fsCtx" /\ op[o].pc \in FsckSteps /\ o \in Ops \ Launches
        /\ (op[o].pc \in DbSteps => Head(dbq) = o) /\ op[o].card \in CardIds
        /\ "fsLoad" \in FsckSteps
    BY AtFsck DEF FsckContext, FsckSteps
  <1>2. /\ owner' = owner /\ vfs' = vfs /\ mutex' = mutex /\ jobs' = jobs /\ SlotsKept
        /\ \A d \in CardIds : Exists(d) => Exists(d)'
    BY DEF FsckContext, copies, session, SlotsKept, Exists
  <1>3. CASE Goto(o, "fsLoad") /\ UNCHANGED stuck
    <2>1. /\ Fits(o, Moved(o, "fsLoad")) /\ Continue(o, Moved(o, "fsLoad"))
          /\ SameRole(op[o], Moved(o, "fsLoad"))
      BY <1>1, <1>3, FsckMoves
    <2>2. Data'
      BY <1>3 DEF FsckContext, IInv, Data, copies, session
    <2> QED
      BY <1>1, <1>2, <1>3, <2>1, <2>2, QuietStep
  <1>4. CASE Finish(o) /\ stuck' = stuck \cup {op[o].card}
    <2>1. Data'
      BY <1>1, <1>4 DEF FsckContext, IInv, Data, copies, session
    <2>2. Continue(o, NotRunning) /\ NotRunning.pc \in Unclaimed /\ Fits(o, NotRunning)
      BY <1>4, NotRunningFits, EjectSteps DEF Finish
    <2> QED
      BY <1>1, <1>2, <1>4, <2>1, <2>2, FsckLeaveStep
  <1> QED
    BY <1>3, <1>4 DEF FsckContext

LEMMA FsckLoadStep == ASSUME IInv, NEW o \in Checkers, FsckLoad(o) PROVE IInv'
  <1> DEFINE c == op[o].card
             found == IF disk.health[c] = "unknown" THEN FsckResult ELSE {disk.health[c]}
  <1>1. /\ op[o].pc = "fsLoad" /\ op[o].pc \in FsckSteps /\ o \in Ops \ Launches
        /\ (op[o].pc \in DbSteps => Head(dbq) = o) /\ c \in CardIds
        /\ "fsStatus" \in FsckSteps
    BY AtFsck DEF FsckLoad, FsckSteps
  <1>2. CASE Die
    BY <1>2, DieStep
  <1>3. ASSUME NEW res \in found,
               Continue(o, [op[o] EXCEPT !.pc = "fsStatus", !.res = res]),
               disk' = [disk EXCEPT !.health[c] = res], stale' = stale \ {<<o, c>>},
               UNCHANGED <<owner, emu, vfs, session, fate>>
        PROVE  IInv'
    <2> DEFINE rec == [op[o] EXCEPT !.pc = "fsStatus", !.res = res]
    <2>1. disk \in Disk /\ res \in FsckResult
      BY <1>1 DEF IInv, Data, Disk
    <2>2. disk' \in Disk /\ \A d \in CardIds : Exists(d) => Exists(d)'
      BY <1>3, <2>1 DEF Disk, Exists
    <2>3. rec \in OpRecord /\ rec.pc = "fsStatus" /\ rec.card = c /\ rec.res \in FsckResult
      BY <1>1, <2>1, RecordOf, FsckStepNames DEF OpRecord
    <2> HIDE DEF rec
    <2>4. Fits(o, rec) /\ SameRole(op[o], rec)
      BY <1>1, <2>3 DEF Fits, StepFits, SameRole, WaitSteps
    <2>5. Data'
      BY <1>3, <2>2 DEF IInv, Data, session, fate
    <2>6. mutex' = mutex /\ jobs' = jobs /\ owner' = owner /\ SlotsKept /\ stuck' = stuck
      BY <1>3 DEF session, fate, SlotsKept
    <2>7. Continue(o, rec)
      BY <1>3 DEF rec
    <2> QED
      BY <1>1, <2>2, <2>4, <2>5, <2>6, <2>7, QuietStep
  <1> QED
    BY <1>2, <1>3 DEF FsckLoad

\* The record for a card that is given up, with a status or without.
LEMMA FsckReleaseStep ==
    ASSUME IInv, NEW o \in Checkers, NEW at \in FsckSteps, At(o, at),
           NEW pc \in {"idle", "ccCard2"}, Goto(o, pc),
           NEW status \in Status,
           disk' = disk \/ disk' = WithStatus(op[o].card, status),
           owner' = [owner EXCEPT ![op[o].card] = "none"],
           UNCHANGED <<emu, vfs, stale, session, fate>>
    PROVE  IInv'
  <1>1. /\ op[o].pc \in FsckSteps /\ o \in Ops \ Launches
        /\ (op[o].pc \in DbSteps => Head(dbq) = o) /\ op[o].card \in CardIds
    BY AtFsck
  <1>2. disk \in Disk /\ disk' \in Disk
    BY DEF IInv, Data, Disk, WithStatus
  <1>3. \A d \in CardIds : Exists(d) => Exists(d)'
    BY <1>2 DEF Disk, Exists, WithStatus
  <1>4. owner' \in [CardIds -> Owners]
    BY DEF IInv, Data, Owners
  <1>5. Data'
    BY <1>2, <1>4 DEF IInv, Data, session, fate
  <1>6. Fits(o, Moved(o, pc)) /\ Continue(o, Moved(o, pc)) /\ Moved(o, pc).pc \in Unclaimed
    <2>1. pc \in Unclaimed \ WaitSteps /\ pc \in Steps /\ op[o].pc # "idle"
      BY <1>1, EjectSteps, FsckStepNames DEF Unclaimed
    <2>2. StepFits(o, pc)
      BY <2>1 DEF StepFits, Unclaimed, OpenSteps
    <2>3. Fits(o, Moved(o, pc)) /\ Moved(o, pc).pc = pc
      BY <1>1, <2>1, <2>2, GotoFits
    <2> QED
      BY <2>1, <2>3 DEF Goto, Moved
  <1>7. mutex' = mutex /\ jobs' = jobs /\ vfs' = vfs /\ stuck' = stuck
    BY DEF session, fate
  <1> QED
    BY <1>1, <1>3, <1>5, <1>6, <1>7, FsckLeaveStep

LEMMA StatusAfterFsckType ==
    ASSUME NEW res \in FsckResult PROVE StatusAfterFsck(res) \in Status
  BY DEF StatusAfterFsck, FsckResult, Status

LEMMA AnswerFixStep == ASSUME IInv, NEW o \in Checkers, AnswerFix(o) PROVE IInv'
  <1>1. At(o, "askFix") /\ "askFix" \in FsckSteps /\ "apLoader" \in FsckSteps
    BY DEF AnswerFix, FsckSteps
  <1>2. CASE Goto(o, "apLoader") /\ OnlyMoves
    <2>1. /\ op[o].pc \in FsckSteps /\ o \in Ops \ Launches
          /\ (op[o].pc \in DbSteps => Head(dbq) = o)
      BY <1>1, AtFsck
    <2>2. /\ Fits(o, Moved(o, "apLoader")) /\ Continue(o, Moved(o, "apLoader"))
          /\ SameRole(op[o], Moved(o, "apLoader"))
      BY <1>1, <1>2, <2>1, FsckMoves
    <2> QED
      BY <1>2, <2>1, <2>2, MoveStep
  <1>3. CASE Die
    BY <1>3, DieStep
  <1>4. CASE /\ owner' = [owner EXCEPT ![op[o].card] = "none"] /\ Finish(o)
             /\ UNCHANGED <<disk, emu, vfs, stale, session, fate>>
    <2>1. Goto(o, "idle") /\ "dirty" \in Status
      BY <1>4 DEF Goto, Finish, Status
    <2> QED
      BY <1>1, <1>4, <2>1, FsckReleaseStep
  <1> QED
    BY <1>2, <1>3, <1>4 DEF AnswerFix

LEMMA ApplyStatusStep == ASSUME IInv, NEW o \in Checkers, ApplyStatus(o) PROVE IInv'
  <1>1. At(o, "apStatus") /\ "apStatus" \in FsckSteps /\ "clean" \in Status
    BY DEF ApplyStatus, FsckSteps, Status
  <1>2. CASE Die
    BY <1>2, DieStep
  <1>3. CASE ~Die
    BY <1>1, <1>3, FsckReleaseStep DEF ApplyStatus
  <1> QED
    BY <1>2, <1>3

LEMMA FsckStatusStep == ASSUME IInv, NEW o \in Checkers, FsckStatus(o) PROVE IInv'
  <1> DEFINE c == op[o].card
             status == StatusAfterFsck(op[o].res)
             fixed == op[o].res = "fixed"
  <1>1. At(o, "fsStatus") /\ "fsStatus" \in FsckSteps /\ "askFix" \in FsckSteps \ {"fsStatus"}
    BY DEF FsckStatus, FsckSteps
  <1>2. /\ op[o].pc = "fsStatus" /\ op[o].pc \in FsckSteps /\ o \in Ops \ Launches
        /\ (op[o].pc \in DbSteps => Head(dbq) = o)
    BY <1>1, AtFsck
  <1>3. status \in Status
    <2>1. op[o].res \in FsckResult
      BY <1>2 DEF IInv, Running, OpsOK, Fits
    <2> QED
      BY <2>1, StatusAfterFsckType
  <1> HIDE DEF status
  <1>4. CASE Die
    BY <1>4, DieStep
  <1>5. CASE ~Die /\ fixed
    <2>1. /\ disk' = WithStatus(c, status) /\ Goto(o, "askFix")
          /\ UNCHANGED <<copies, session, fate>>
      BY <1>5 DEF FsckStatus, copies, status
    <2>2. /\ Fits(o, Moved(o, "askFix")) /\ Continue(o, Moved(o, "askFix"))
          /\ SameRole(op[o], Moved(o, "askFix"))
      BY <1>1, <1>2, <2>1, FsckMoves
    <2> QED
      BY <1>2, <1>3, <2>1, <2>2, StatusStep
  <1>6. CASE ~Die /\ ~fixed
    <2>1. /\ disk' = WithStatus(c, status) /\ owner' = [owner EXCEPT ![c] = "none"]
          /\ Goto(o, IF o = "check" THEN "idle" ELSE "ccCard2")
          /\ UNCHANGED <<emu, vfs, stale, session, fate>>
      BY <1>6 DEF FsckStatus, status
    <2> QED
      BY <1>1, <1>3, <2>1, FsckReleaseStep
  <1> QED
    BY <1>4, <1>5, <1>6

\* The image of a card is written.
LEMMA WroteTypes ==
    ASSUME IInv, NEW h \in Holders, NEW c \in CardIds, Wrote(h, c)
    PROVE  lost' \subseteq CardIds /\ stale' \subseteq Holders \X CardIds
  <1>1. CopiesOf(c) \subseteq Holders
    BY DEF CopiesOf, Holders
  <1> QED
    BY <1>1 DEF IInv, Data, Wrote

LEMMA ApplyDataStep == ASSUME IInv, NEW o \in Checkers, ApplyData(o) PROVE IInv'
  <1> DEFINE c == op[o].card
  <1>1. /\ op[o].pc = "apData" /\ op[o].pc \in FsckSteps /\ o \in Ops \ Launches
        /\ (op[o].pc \in DbSteps => Head(dbq) = o) /\ c \in CardIds
        /\ "apStatus" \in FsckSteps \ {"fsStatus"}
    BY AtFsck DEF ApplyData, FsckSteps
  <1>2. CASE Die
    BY <1>2, DieStep
  <1>3. CASE /\ disk' = [disk EXCEPT !.health[c] = "ok"] /\ Wrote(o, c)
             /\ Goto(o, "apStatus") /\ UNCHANGED <<owner, emu, vfs, session, stuck, fatal>>
    <2>1. disk' \in Disk /\ \A d \in CardIds : Exists(d) => Exists(d)'
      BY <1>3 DEF IInv, Data, Disk, Exists, FsckResult
    <2>2. lost' \subseteq CardIds /\ stale' \subseteq Holders \X CardIds
      BY <1>1, <1>3, WroteTypes DEF Holders
    <2>3. Data'
      BY <1>3, <2>1, <2>2 DEF IInv, Data, session
    <2>4. /\ Fits(o, Moved(o, "apStatus")) /\ Continue(o, Moved(o, "apStatus"))
          /\ SameRole(op[o], Moved(o, "apStatus"))
      BY <1>1, <1>3, FsckMoves
    <2>5. mutex' = mutex /\ jobs' = jobs /\ owner' = owner /\ SlotsKept /\ stuck' = stuck
      BY <1>3 DEF session, SlotsKept
    <2> QED
      BY <1>1, <2>1, <2>3, <2>4, <2>5, QuietStep
  <1>4. CASE /\ stuck' = stuck \cup {c} /\ Finish(o)
             /\ UNCHANGED <<disk, copies, session, lost, fatal>>
    <2>1. Data'
      BY <1>1, <1>4 DEF IInv, Data, copies, session
    <2>2. Continue(o, NotRunning) /\ NotRunning.pc \in Unclaimed /\ Fits(o, NotRunning)
      BY <1>4, NotRunningFits, EjectSteps DEF Finish
    <2>3. /\ mutex' = mutex /\ jobs' = jobs /\ owner' = owner /\ vfs' = vfs
          /\ \A d \in CardIds : Exists(d) => Exists(d)'
      BY <1>4 DEF session, copies, Exists
    <2> QED
      BY <1>1, <1>4, <2>1, <2>2, <2>3, FsckLeaveStep
  <1> QED
    BY <1>2, <1>3, <1>4 DEF ApplyData

-----------------------------------------------------------------------------
(***************************************************************************)
(* Launches.                                                               *)
(***************************************************************************)

LEMMA MutexStepNames ==
    /\ MutexSteps \subseteq Unclaimed \ (WaitSteps \cup {"idle"})
    /\ "rsState" \in Unclaimed \ (WaitSteps \cup MutexSteps \cup {"idle"})
    /\ "idle" \notin MutexSteps /\ WaitSteps \cap MutexSteps = {}
    /\ WaitSteps \subseteq Unclaimed \ {"idle"}
    /\ {"mtStatus", "mtSession"} \cap MutexSteps = {}
  BY DEF MutexSteps, Unclaimed, Steps, DbSteps, FreeSteps, LoaderSteps, FsckSteps, OpenSteps, WaitSteps

\* A launch that holds the mutex goes on with it, or gives it up.
LEMMA LaunchMoves ==
    ASSUME IInv, NEW o \in Launches, op[o].pc \in MutexSteps,
           op[o].pc \in DbSteps => Head(dbq) = o,
           NEW rec, Fits(o, rec), Continue(o, rec), rec.pc \in Unclaimed \ WaitSteps,
           \/ rec.pc \in MutexSteps /\ mutex' = mutex
           \/ rec.pc \notin MutexSteps /\ mutex' = None,
           jobs' = jobs \/ JobsFor(jobs', Waiters)
    PROVE  /\ Running' /\ MutexOK' /\ JobsOK' /\ op'[o] = rec /\ Moves(o)
           /\ SameRole(op[o], rec)
  <1>1. Running' /\ op'[o] = rec /\ Moves(o)
    BY ContinueStep, Names DEF IInv, Moves
  <1>2. mutex = o /\ \A p \in Launches \ {o} : op[p].pc \notin MutexSteps /\ op'[p] = op[p]
    BY <1>1, Names DEF IInv, MutexOK, Moves
  <1>3. MutexOK'
    BY <1>1, <1>2, NoneIsNoLaunch DEF MutexOK
  <1>4. Waiters' = Waiters
    BY <1>1, <1>2, MutexStepNames DEF Waiters
  <1>5. JobsOK'
    BY <1>4 DEF IInv, JobsOK
  <1>6. SameRole(op[o], rec)
    BY MutexStepNames DEF SameRole, Unclaimed
  <1> QED
    BY <1>1, <1>3, <1>5, <1>6

\* The same for a launch that goes to a step.
LEMMA LaunchGoto ==
    ASSUME IInv, NEW o \in Launches, op[o].pc \in MutexSteps,
           NEW pc \in Unclaimed \ WaitSteps, Goto(o, pc),
           pc \in {"ldGet", "ldData"} => op[o].card \in CardIds
    PROVE  /\ Fits(o, Moved(o, pc)) /\ Continue(o, Moved(o, pc)) /\ Moved(o, pc).pc = pc
  <1>1. StepFits(o, pc) /\ pc \in Steps \ {"fsStatus"} /\ o \in Ops /\ op[o].pc # "idle"
    BY Names, MutexStepNames DEF StepFits, Unclaimed, OpenSteps, FsckSteps
  <1>2. HasCard(o, pc) => op[o].card \in CardIds
    BY Names DEF HasCard
  <1> QED
    BY <1>1, <1>2, MovedFits DEF IInv, Running, Goto, Moved

LEMMA LaunchFinish ==
    ASSUME NEW o \in Launches, Finish(o)
    PROVE  /\ Fits(o, NotRunning) /\ Continue(o, NotRunning)
           /\ NotRunning.pc \in Unclaimed \ WaitSteps /\ NotRunning.pc \notin MutexSteps
  BY NotRunningFits, EjectSteps, MutexStepNames DEF Finish

\* A launch that ends without having touched the card and the VFS.
LEMMA LaunchStep ==
    ASSUME IInv, NEW o \in Launches, op[o].pc \in MutexSteps,
           op[o].pc \in DbSteps => Head(dbq) = o,
           NEW rec, Fits(o, rec), Continue(o, rec), rec.pc \in Unclaimed \ WaitSteps,
           \/ rec.pc \in MutexSteps /\ mutex' = mutex
           \/ rec.pc \notin MutexSteps /\ mutex' = None,
           jobs' = jobs \/ JobsFor(jobs', Waiters),
           Data', OwnersKept, SlotsKept, stuck \subseteq stuck', OwnedExist'
    PROVE  IInv'
  <1>1. /\ Running' /\ MutexOK' /\ JobsOK' /\ op'[o] = rec /\ Moves(o)
        /\ SameRole(op[o], rec)
    BY LaunchMoves
  <1>2. Claims'
    BY <1>1, EmulatorClaims, Names
  <1> QED
    BY <1>1, <1>2 DEF IInv

\* Nothing happens to the cards.
LEMMA CardsSame ==
    ASSUME IInv, UNCHANGED <<owner, vfs>>, stuck \subseteq stuck', disk'.status = disk.status
    PROVE  OwnersKept /\ SlotsKept /\ OwnedExist'
  BY DEF OwnersKept, SlotsKept, OwnedExist, IInv, Claims, Exists

LEMMA EndLaunchStep ==
    ASSUME IInv, NEW o \in Launches, NEW at \in MutexSteps, At(o, at), EndLaunch(o),
           UNCHANGED <<disk, copies, current, jobs, fate>>
    PROVE  IInv'
  <1>1. op[o].pc \in MutexSteps /\ (op[o].pc \in DbSteps => Head(dbq) = o)
    BY AtStep
  <1>2. Finish(o) /\ mutex' = None /\ jobs' = jobs
    BY DEF EndLaunch
  <1>3. Data'
    BY DEF IInv, Data, copies, fate
  <1>4. OwnersKept /\ SlotsKept /\ OwnedExist' /\ stuck' = stuck
    BY CardsSame DEF copies, fate
  <1> QED
    BY <1>1, <1>2, <1>3, <1>4, LaunchFinish, LaunchStep

-----------------------------------------------------------------------------
(***************************************************************************)
(* Loading a card into the emulator.                                       *)
(***************************************************************************)

LEMMA MountCheckStep == IInv /\ MountCheck => IInv'
  <1> SUFFICES ASSUME IInv, MountCheck PROVE IInv'
    OBVIOUS
  <1>1. CASE Die
    BY <1>1, DieStep
  <1>2. CASE Goto("insert", "mtLoader") /\ OnlyMoves
    <2>1. At("insert", "mtMounted")
      BY DEF MountCheck
    <2> QED
      BY <1>2, <2>1, AtStep, EjectSteps, Names, GotoStep
  <1> QED
    BY <1>1, <1>2 DEF MountCheck

LEMMA MountReleaseStep == IInv /\ MountRelease => IInv'
  <1> SUFFICES ASSUME IInv, MountRelease PROVE IInv'
    OBVIOUS
  <1> DEFINE c == op["insert"].card
             rec == [op["insert"] EXCEPT !.pc = "ldGet", !.ses = current.id]
  <1>1. /\ op["insert"].pc = "mtLoader" /\ op["insert"].pc \in Unclaimed \ {"idle"}
        /\ (op["insert"].pc \in DbSteps => Head(dbq) = "insert")
        /\ "insert" \in Ops \ Launches /\ "insert" \in CardOps
    BY AtStep, EjectSteps, Names DEF MountRelease, CardOps
  <1>2. c \in CardIds
    BY <1>1, CardOf
  <1>3. CASE Die
    BY <1>3, DieStep
  <1>4. CASE /\ ReleaseCard(c) /\ Continue("insert", rec)
             /\ UNCHANGED <<disk, emu, session, fate>>
    <2>1. current.id \in SessionIds \cup {None}
      BY DEF IInv, Data, Sessions
    <2>2. rec \in OpRecord /\ rec.pc = "ldGet" /\ rec.card = c
      BY <1>1, <2>1, RecordOf, EjectSteps DEF OpRecord, Unclaimed
    <2> HIDE DEF rec
    <2>3. Fits("insert", rec)
      BY <1>1, <1>2, <2>2 DEF Fits, StepFits, WaitSteps, FsckSteps
    <2>4. SameRole(op["insert"], rec)
      BY <1>1, <2>2, EjectSteps DEF SameRole, Unclaimed
    <2>5. disk' \in Disk /\ \A d \in CardIds : Exists(d) => Exists(d)'
      BY <1>4 DEF IInv, Data, Exists
    <2> QED
      BY <1>1, <1>2, <1>4, <2>3, <2>4, <2>5, ReleaseStep
  <1> QED
    BY <1>3, <1>4 DEF MountRelease

\* The card is taken from the VFS, if it is there, and claimed for the emulator.
LEMMA LoadClaims ==
    ASSUME IInv, NEW c \in CardIds, RolesSame, ClaimOk(c), Exists(c),
           owner' = ClaimFor(c, "cloudpilot"), vfs' = VfsWithout(c),
           UNCHANGED <<disk, stuck>>
    PROVE  Claims' /\ owner' \in [CardIds -> Owners]
  <1>1. /\ VfsWithout(c).primary = IF vfs.primary = c THEN None ELSE vfs.primary
        /\ VfsWithout(c).secondary = IF vfs.secondary = c THEN None ELSE vfs.secondary
        /\ VfsWithout(c).clip = vfs.clip
        /\ \A d \in CardIds :
             OwnerWithout(c)[d] = IF d = c /\ InVfs(c) THEN "none" ELSE owner[d]
        /\ \A d \in CardIds : InVfs(d) => ~Opened(d) /\ owner[d] = "vfs"
    BY ReleaseShape
  <1>2. /\ owner' \in [CardIds -> Owners] /\ owner'[c] = "cloudpilot"
        /\ \A d \in CardIds \ {c} : owner'[d] = owner[d]
    <2>1. OwnerWithout(c) \in [CardIds -> Owners]
      BY ReleaseTypes
    <2>2. owner' = [OwnerWithout(c) EXCEPT ![c] = "cloudpilot"] /\ "cloudpilot" \in Owners
      BY DEF ClaimFor, Owners
    <2>3. owner' \in [CardIds -> Owners] /\ owner'[c] = "cloudpilot"
          /\ \A d \in CardIds \ {c} : owner'[d] = OwnerWithout(c)[d]
      BY <2>1, <2>2
    <2> QED
      BY <1>1, <2>3
  <1>3. (owner[c] = "none" \/ (owner[c] = "vfs" /\ InVfs(c))) /\ ~Opened(c)
    <2>1. OwnerWithout(c)[c] = "none"
      BY DEF ClaimOk
    <2> QED
      BY <1>1, <2>1 DEF IInv, Claims, VfsClaims
  <1>4. \A d \in CardIds : InVfs(d)' <=> InVfs(d) /\ d # c
    BY <1>1, NoneIsNoLaunch DEF InVfs
  <1>5. \A d \in CardIds : /\ Opens("browse", d)' <=> Opens("browse", d)
                           /\ Opens("paste", d)' <=> Opens("paste", d)
    BY Names DEF RolesSame
  <1>6. SlotsOK'
    BY <1>1, <1>4, <1>5 DEF IInv, Claims, SlotsOK
  <1>7. VfsClaims'
    BY <1>2, <1>3, <1>4, <1>5 DEF IInv, Claims, VfsClaims, Opened
  <1>8. FsckClaims'
    <2>1. \A p \in Checkers : \A d \in CardIds : Checks(p, d)' <=> Checks(p, d)
      BY Names DEF RolesSame
    <2>2. \A d \in CardIds : owner'[d] = "fstools" <=> owner[d] = "fstools"
      BY <1>2, <1>3
    <2> QED
      BY <2>1, <2>2 DEF IInv, Claims, FsckClaims
  <1>9. OwnedExist'
    BY <1>2 DEF IInv, Claims, OwnedExist, Exists
  <1> QED
    BY <1>2, <1>6, <1>7, <1>8, <1>9 DEF Claims

Loaders == Launches \cup {"insert"}

LEMMA LoaderAt ==
    ASSUME IInv, NEW o \in Loaders, NEW pc \in {"ldGet", "ldData"}, At(o, pc)
    PROVE  /\ op[o].pc = pc /\ op[o].pc \in MutexSteps /\ op[o].pc \in Unclaimed \ {"idle"}
           /\ (op[o].pc \in DbSteps => Head(dbq) = o) /\ o \in Ops /\ op[o].card \in CardIds
           /\ o \notin Launches => o = "insert" /\ o \in Ops \ Launches /\ o \in CardOps
  <1>1. o \in Ops /\ (o \notin Launches => o = "insert" /\ o \in Ops \ Launches /\ o \in CardOps)
    BY Names DEF Loaders, CardOps
  <1>2. op[o].pc = pc /\ op[o].pc \in MutexSteps /\ op[o].pc \in Unclaimed \ {"idle"}
        /\ (op[o].pc \in DbSteps => Head(dbq) = o)
    BY AtStep, EjectSteps DEF MutexSteps
  <1> QED
    BY <1>1, <1>2 DEF IInv, Running, OpsOK, Fits, HasCard

\* An operation that loads a card goes on; only insert leaves the mutex steps that way.
LEMMA LoaderMoves ==
    ASSUME IInv, NEW o \in Loaders, NEW at \in {"ldGet", "ldData"}, At(o, at),
           NEW pc \in {"ldData", "mtStatus", "swOpen"}, Goto(o, pc),
           o \in Launches => pc \in MutexSteps, UNCHANGED session
    PROVE  /\ Running' /\ MutexOK' /\ JobsOK' /\ RolesSame
  <1>1. /\ op[o].pc = at /\ op[o].pc \in MutexSteps /\ op[o].pc \in Unclaimed \ {"idle"}
        /\ (op[o].pc \in DbSteps => Head(dbq) = o) /\ o \in Ops /\ op[o].card \in CardIds
        /\ o \notin Launches => o = "insert" /\ o \in Ops \ Launches /\ o \in CardOps
    BY LoaderAt
  <1>2. mutex' = mutex /\ jobs' = jobs
    BY DEF session
  <1>3. pc \in Unclaimed \ (WaitSteps \cup {"idle"})
    BY EjectSteps, MutexStepNames DEF MutexSteps
  <1>4. CASE o \in Launches
    <2>1. /\ Fits(o, Moved(o, pc)) /\ Continue(o, Moved(o, pc)) /\ Moved(o, pc).pc = pc
      BY <1>1, <1>3, <1>4, LaunchGoto
    <2>2. /\ Running' /\ MutexOK' /\ JobsOK' /\ op'[o] = Moved(o, pc) /\ Moves(o)
          /\ SameRole(op[o], Moved(o, pc))
      BY <1>1, <1>2, <1>3, <1>4, <2>1, LaunchMoves
    <2> QED
      BY <1>1, <2>2, RolesKept DEF RolesSame
  <1>5. CASE o \notin Launches
    <2>1. /\ Fits(o, Moved(o, pc)) /\ Continue(o, Moved(o, pc)) /\ SameRole(op[o], Moved(o, pc))
      BY <1>1, <1>3, <1>5, GotoMoves
    <2>2. Running' /\ MutexOK' /\ JobsOK' /\ op'[o] = Moved(o, pc) /\ Moves(o)
      BY <1>1, <1>2, <1>5, <2>1, PlainStep
    <2> QED
      BY <1>1, <2>1, <2>2, RolesKept DEF RolesSame
  <1> QED
    BY <1>4, <1>5

LEMMA LoadClaimStep == ASSUME IInv, NEW o \in Loaders, LoadClaim(o) PROVE IInv'
  <1> DEFINE c == op[o].card
             outdated == IF op[o].res # None /\ <<o, c>> \in stale THEN {<<"emu", c>>} ELSE {}
             pc == IF op[o].res # None THEN "mtStatus" ELSE "ldData"
  <1>1. /\ At(o, "ldGet") /\ c \in CardIds /\ o \in Ops /\ "ldGet" \in MutexSteps
        /\ (o \notin Launches => o = "insert")
    BY LoaderAt DEF LoadClaim, MutexSteps
  <1>2. CASE LoadThrows(o)
    <2>1. CASE o = "insert"
      BY <1>2, <2>1, DieStep DEF LoadThrows
    <2>2. CASE o # "insert"
      BY <1>1, <1>2, <2>2, EndLaunchStep DEF LoadThrows
    <2> QED
      BY <2>1, <2>2
  <1>3. CASE Die
    BY <1>3, DieStep
  <1>4. CASE /\ Exists(c) /\ ClaimOk(c)
             /\ owner' = ClaimFor(c, "cloudpilot")
             /\ vfs' = VfsWithout(c)
             /\ emu' = [emu EXCEPT !.images = @ \cup {c}]
             /\ stale' = (StaleWithout(c) \ {<<"emu", c>>, <<o, c>>}) \cup outdated
             /\ Goto(o, pc)
             /\ UNCHANGED <<disk, session, fate>>
    <2>1. o \in Launches => pc \in MutexSteps
      BY <1>1 DEF IInv, Running, OpsOK, Fits, MutexSteps
    <2>2. Running' /\ MutexOK' /\ JobsOK' /\ RolesSame
      BY <1>1, <1>4, <2>1, LoaderMoves
    <2>3. Claims' /\ owner' \in [CardIds -> Owners]
      BY <1>1, <1>4, <2>2, LoadClaims DEF fate
    <2>4. stale' \subseteq Holders \X CardIds /\ vfs' \in Slots
      BY <1>1, <1>4, ReleaseTypes DEF Holders
    <2>5. emu' \in Images
      BY <1>1, <1>4 DEF IInv, Data, Images
    <2>6. Data'
      BY <1>4, <2>3, <2>4, <2>5 DEF IInv, Data, session, fate
    <2> QED
      BY <2>2, <2>3, <2>6 DEF IInv
  <1> QED
    BY <1>2, <1>3, <1>4 DEF LoadClaim

LEMMA LoadDataStep == ASSUME IInv, NEW o \in Loaders, LoadData(o) PROVE IInv'
  <1> DEFINE c == op[o].card
             pc == IF o = "insert" THEN "mtStatus" ELSE "swOpen"
  <1>1. At(o, "ldData") /\ (o \in Launches => o # "insert")
    BY Names DEF LoadData
  <1>2. CASE Die
    BY <1>2, DieStep
  <1>3. CASE /\ stale' = stale \ {<<"emu", c>>} /\ Goto(o, pc)
             /\ UNCHANGED <<disk, owner, emu, vfs, session, fate>>
    <2>1. o \in Launches => pc \in MutexSteps
      BY <1>1 DEF MutexSteps
    <2>2. Running' /\ MutexOK' /\ JobsOK' /\ RolesSame
      BY <1>1, <1>3, <2>1, LoaderMoves
    <2>3. OwnersKept /\ SlotsKept /\ OwnedExist' /\ stuck' = stuck
      BY <1>3, CardsSame DEF fate
    <2>4. Claims'
      BY <2>2, <2>3, ClaimsKept DEF IInv
    <2>5. Data'
      BY <1>3 DEF IInv, Data, session, fate
    <2> QED
      BY <2>2, <2>4, <2>5 DEF IInv
  <1> QED
    BY <1>2, <1>3 DEF LoadData

LEMMA MountStatusStep == IInv /\ MountStatus => IInv'
  <1> SUFFICES ASSUME IInv, MountStatus PROVE IInv'
    OBVIOUS
  <1>1. /\ op["insert"].pc = "mtStatus" /\ op["insert"].pc \in Unclaimed \ {"idle"}
        /\ (op["insert"].pc \in DbSteps => Head(dbq) = "insert") /\ "dirty" \in Status
    BY AtStep, EjectSteps DEF MountStatus, Status
  <1>2. CASE Die
    BY <1>2, DieStep
  <1>3. CASE /\ disk' = WithStatus(op["insert"].card, "dirty") /\ Goto("insert", "mtSession")
             /\ UNCHANGED <<copies, session, fate>>
    <2>1. /\ Fits("insert", Moved("insert", "mtSession"))
          /\ Continue("insert", Moved("insert", "mtSession"))
          /\ SameRole(op["insert"], Moved("insert", "mtSession"))
      BY <1>1, <1>3, GotoMoves, Names, EjectSteps
    <2> QED
      BY <1>1, <1>3, <2>1, StatusStep, Names
  <1> QED
    BY <1>2, <1>3 DEF MountStatus

LEMMA MountSessionStep == IInv /\ MountSession => IInv'
  <1> SUFFICES ASSUME IInv, MountSession PROVE IInv'
    OBVIOUS
  <1> DEFINE c == op["insert"].card
             s == op["insert"].ses
  <1>1. /\ op["insert"].pc = "mtSession" /\ op["insert"].pc \in Unclaimed \ {"idle"}
        /\ (op["insert"].pc \in DbSteps => Head(dbq) = "insert")
        /\ "insert" \in Ops \ Launches /\ "insert" \in CardOps
    BY AtStep, EjectSteps, Names DEF MountSession, CardOps
  <1>2. c \in CardIds /\ s \in SessionIds \cup {None}
    BY <1>1, CardOf, RecordOf DEF OpRecord
  <1>3. CASE Die
    BY <1>3, DieStep
  <1>4. CASE Fatal /\ disk' = [disk EXCEPT !.mounted[s] = c]
    <2>1. disk' \in Disk
      BY <1>2, <1>4 DEF IInv, Data, Disk
    <2> QED
      BY <1>4, <2>1, FatalStep
  <1>5. CASE /\ SetMounted(s, c)
             /\ emu' = [emu EXCEPT !.key = c]
             /\ vfs' = [vfs EXCEPT !.clip = IF @ = c THEN None ELSE @]
             /\ Finish("insert")
             /\ UNCHANGED <<owner, stale, current, mutex, fate>>
    <2>1. /\ disk' \in Disk /\ JobsFor(jobs', Waiters)
          /\ \A d \in CardIds : Exists(d) => Exists(d)'
      BY <1>2, <1>5, SetMountedShape
    <2>2. vfs' \in Slots /\ SlotsKept
      BY <1>5 DEF IInv, Data, Slots, SlotsKept
    <2>3. emu' \in Images
      BY <1>2, <1>5 DEF IInv, Data, Images
    <2>4. Data'
      BY <1>5, <2>1, <2>2, <2>3 DEF IInv, Data, fate
    <2>5. SameRole(op["insert"], NotRunning) /\ Continue("insert", NotRunning)
      BY <1>1, <1>5, NotRunningFits, EjectSteps DEF SameRole, Unclaimed, Finish
    <2>6. owner' = owner /\ mutex' = mutex /\ stuck' = stuck
      BY <1>5 DEF fate
    <2> QED
      BY <1>1, <2>1, <2>2, <2>4, <2>5, <2>6, NotRunningFits, QuietStep
  <1> QED
    BY <1>3, <1>4, <1>5 DEF MountSession

\* No operation moves.
LEMMA OpsSame ==
    ASSUME IInv, UNCHANGED ops
    PROVE  Running' /\ RolesSame /\ Waiters' = Waiters /\ (mutex' = mutex => MutexOK')
  <1>1. op' = op /\ dbq' = dbq /\ overlap' = overlap
    BY DEF ops
  <1>2. Running'
    BY <1>1 DEF IInv, Running, OpsOK, QueueOK, InDb
  <1>3. RolesSame
    BY <1>1 DEF RolesSame, Checks, Opens
  <1>4. Waiters' = Waiters
    BY <1>1 DEF Waiters
  <1>5. mutex' = mutex => MutexOK'
    BY <1>1 DEF IInv, MutexOK
  <1> QED
    BY <1>2, <1>3, <1>4, <1>5

LEMMA SnapshotStep == IInv /\ Snapshot => IInv'
  <1> SUFFICES ASSUME IInv, Snapshot PROVE IInv'
    OBVIOUS
  <1> DEFINE c == emu.key
  <1>1. c \in CardIds
    BY DEF IInv, Data, Images, Snapshot
  <1>2. CASE Die
    BY <1>2, DieStep
  <1>3. CASE /\ disk' = [disk EXCEPT !.health[c] = "unknown"] /\ Wrote("emu", c)
             /\ UNCHANGED <<owner, emu, vfs, session, ops, stuck, fatal>>
    <2>1. disk' \in Disk /\ disk'.status = disk.status
      BY <1>3 DEF IInv, Data, Disk
    <2>2. lost' \subseteq CardIds /\ stale' \subseteq Holders \X CardIds
      BY <1>1, <1>3, WroteTypes DEF Holders
    <2>3. Data'
      BY <1>3, <2>1, <2>2 DEF IInv, Data, session
    <2>4. OwnersKept /\ SlotsKept /\ OwnedExist'
      BY <1>3, <2>1, CardsSame
    <2>5. Running' /\ RolesSame /\ Waiters' = Waiters /\ MutexOK' /\ jobs' = jobs
      BY <1>3, OpsSame DEF session
    <2>6. Claims'
      BY <1>3, <2>4, <2>5, ClaimsKept DEF IInv
    <2> QED
      BY <2>3, <2>5, <2>6 DEF IInv, JobsOK
  <1> QED
    BY <1>2, <1>3 DEF Snapshot

LEMMA RunChangeStep == IInv /\ RunChange => IInv'
  <1> SUFFICES ASSUME IInv, RunChange PROVE IInv'
    OBVIOUS
  <1> DEFINE j == Head(jobs)
  <1>1. jobs # <<>> /\ JobsFor(jobs, Waiters) /\ None \notin Waiters /\ j.op = None
    BY NoneIsNoLaunch DEF RunChange, IInv, JobsOK, Waiters
  <1>2. j \in JobRecord /\ JobsFor(Tail(jobs), Waiters \ {j.op})
    BY <1>1, JobsTail
  <1>3. Waiters \ {j.op} = Waiters
    BY <1>1
  <1>4. CASE Die
    BY <1>4, DieStep
  <1>5. CASE /\ current' = Changed(j.id, j.card)
             /\ owner' = IF Releases(j.id, j.card) THEN [owner EXCEPT ![current.card] = "none"]
                         ELSE owner
             /\ Releases(j.id, j.card) => owner[current.card] = "cloudpilot"
             /\ jobs' = Tail(jobs)
             /\ UNCHANGED <<disk, emu, vfs, stale, mutex, ops, fate>>
    <2>1. current' \in Sessions
      BY <1>2, <1>5 DEF IInv, Data, Changed, Sessions, NoSession, JobRecord
    <2>2. owner' \in [CardIds -> Owners]
      BY <1>5 DEF IInv, Data, Owners
    <2>3. Data'
      BY <1>5, <2>1, <2>2 DEF IInv, Data, fate
    <2>4. \A d \in CardIds :
            owner'[d] = owner[d] \/ (owner[d] = "cloudpilot" /\ owner'[d] = "none")
      BY <1>5 DEF IInv, Data
    <2>5. OwnersKept
      BY <2>4 DEF OwnersKept
    <2>6. OwnedExist'
      BY <1>5, <2>4 DEF IInv, Claims, OwnedExist, Exists
    <2>7. SlotsKept /\ stuck' = stuck
      BY <1>5 DEF SlotsKept, fate
    <2>8. Running' /\ RolesSame /\ Waiters' = Waiters /\ MutexOK'
      BY <1>5, OpsSame
    <2>9. Claims'
      BY <2>5, <2>6, <2>7, <2>8, ClaimsKept DEF IInv
    <2>10. JobsOK'
      BY <1>2, <1>3, <1>5, <2>8 DEF JobsOK
    <2> QED
      BY <2>3, <2>8, <2>9, <2>10 DEF IInv
  <1> QED
    BY <1>4, <1>5 DEF RunChange

-----------------------------------------------------------------------------
(***************************************************************************)
(* EmulationService and the sessions.                                      *)
(***************************************************************************)

\* A launch that moves before or after it has the mutex.
LEMMA OutsideMoves ==
    ASSUME IInv, NEW o \in Launches, op[o].pc \in Unclaimed,
           op[o].pc \in DbSteps => Head(dbq) = o,
           NEW rec, Fits(o, rec), Continue(o, rec), rec.pc \in Unclaimed
    PROVE  /\ Running' /\ op'[o] = rec /\ Moves(o) /\ RolesSame
           /\ \A p \in Launches \ {o} : op'[p] = op[p]
           /\ Waiters' = (Waiters \ {o}) \cup (IF rec.pc \in WaitSteps THEN {o} ELSE {})
  <1>1. Running' /\ op'[o] = rec /\ Moves(o)
    BY ContinueStep, Names DEF IInv, Moves
  <1>2. \A p \in Launches \ {o} : op'[p] = op[p]
    BY <1>1, Names DEF Moves
  <1>3. SameRole(op[o], rec)
    BY DEF SameRole, Unclaimed
  <1>4. RolesSame
    BY <1>1, <1>3, RolesKept, Names DEF RolesSame
  <1>5. Waiters' = (Waiters \ {o}) \cup (IF rec.pc \in WaitSteps THEN {o} ELSE {})
    BY <1>1, <1>2 DEF Waiters
  <1> QED
    BY <1>1, <1>2, <1>4, <1>5

LEMMA NothingClaimed ==
    ASSUME IInv, RolesSame, UNCHANGED <<disk, copies, fate>>, current' \in Sessions
    PROVE  Data' /\ Claims'
  <1>1. Data'
    BY DEF IInv, Data, copies, fate
  <1>2. OwnersKept /\ SlotsKept /\ OwnedExist' /\ stuck' = stuck
    BY CardsSame DEF copies, fate
  <1> QED
    BY <1>1, <1>2, ClaimsKept DEF IInv

LEMMA StartLaunchStep ==
    ASSUME IInv, NEW o \in Launches, NEW s \in SessionIds, StartLaunch(o, s)
    PROVE  IInv'
  <1> DEFINE rec == Started("queued", None, s)
             j == [op |-> o, id |-> None, card |-> None]
  <1>1. op[o].pc = "idle" /\ Continue(o, rec) /\ mutex' = mutex /\ jobs' = Append(jobs, j)
    BY DEF StartLaunch, Begin, Started
  <1>2. Fits(o, rec) /\ rec.pc = "queued"
    <2>1. /\ StepFits(o, "queued") /\ ~HasCard(o, "queued") /\ o \in Ops
          /\ "queued" \in Steps \ {"idle", "fsStatus"}
      BY Names, MutexStepNames DEF StepFits, HasCard, WaitSteps, FsckSteps, Unclaimed
    <2> QED
      BY <2>1, StartedFits
  <1> HIDE DEF rec
  <1>3. rec.pc \in Unclaimed /\ rec.pc \in WaitSteps /\ rec.pc \notin MutexSteps
    BY <1>2, MutexStepNames DEF WaitSteps
  <1>4. /\ Running' /\ op'[o] = rec /\ RolesSame
        /\ \A p \in Launches \ {o} : op'[p] = op[p]
        /\ Waiters' = (Waiters \ {o}) \cup {o}
    BY <1>1, <1>2, <1>3, IdleStep, OutsideMoves
  <1>5. MutexOK'
    BY <1>1, <1>3, <1>4, MutexStepNames DEF IInv, MutexOK
  <1>6. JobsOK'
    <2>1. o \notin Waiters
      BY <1>1 DEF Waiters, WaitSteps
    <2>2. j \in JobRecord /\ j.op = o /\ o # None
      BY NoneIsNoLaunch DEF JobRecord
    <2> HIDE DEF j
    <2>3. JobsFor(Append(jobs, j), Waiters \cup {o})
      BY <2>1, <2>2, JobsLaunch DEF IInv, JobsOK
    <2>4. Waiters' = Waiters \cup {o}
      BY <1>4
    <2> QED
      BY <1>1, <2>3, <2>4 DEF JobsOK
  <1>7. Data' /\ Claims'
    BY <1>4, NothingClaimed DEF StartLaunch, IInv, Data
  <1> QED
    BY <1>4, <1>5, <1>6, <1>7 DEF IInv

LEMMA RunLaunchStep == IInv /\ RunLaunch => IInv'
  <1> SUFFICES ASSUME IInv, RunLaunch PROVE IInv'
    OBVIOUS
  <1> DEFINE o == Head(jobs).op
  <1>1. jobs # <<>> /\ JobsFor(jobs, Waiters) /\ None \notin Waiters /\ o # None
    BY NoneIsNoLaunch DEF RunLaunch, IInv, JobsOK, Waiters
  <1>2. o \in Waiters /\ JobsFor(Tail(jobs), Waiters \ {o})
    BY <1>1, JobsTail
  <1>3. /\ o \in Launches /\ op[o].pc \in WaitSteps /\ op[o].pc \in Unclaimed
        /\ (op[o].pc \in DbSteps => Head(dbq) = o)
        /\ \A p \in Launches : op[p].pc \notin MutexSteps
    BY <1>2, MutexStepNames, NoneIsNoLaunch
       DEF Waiters, RunLaunch, IInv, MutexOK, WaitSteps, DbSteps
  <1>4. jobs' = Tail(jobs) /\ UNCHANGED <<disk, copies, current, fate>> /\ mutex = None
    BY DEF RunLaunch
  <1>5. PICK l : l = o
    OBVIOUS
  <1> HIDE DEF o
  <1>6. ASSUME NEW rec, Fits(l, rec), Continue(l, rec), rec.pc \in Unclaimed \ WaitSteps,
               \/ rec.pc \notin MutexSteps /\ mutex' = None
               \/ rec.pc \in MutexSteps /\ mutex' = l
        PROVE  IInv'
    <2>1. /\ Running' /\ op'[l] = rec /\ RolesSame
          /\ \A p \in Launches \ {l} : op'[p] = op[p]
          /\ Waiters' = Waiters \ {l}
      BY <1>3, <1>5, <1>6, OutsideMoves
    <2>2. MutexOK'
      BY <1>3, <1>5, <1>6, <2>1, NoneIsNoLaunch DEF MutexOK
    <2>3. JobsOK'
      BY <1>2, <1>4, <1>5, <2>1 DEF JobsOK
    <2>4. Data' /\ Claims'
      BY <1>4, <2>1, NothingClaimed DEF IInv, Data
    <2> QED
      BY <2>1, <2>2, <2>3, <2>4 DEF IInv
  <1>7. CASE Finish(l) /\ UNCHANGED mutex
    BY <1>3, <1>4, <1>5, <1>6, <1>7, LaunchFinish
  <1>8. ASSUME NEW pc \in {"stopOnly", "swSession", "stop"}, Goto(l, pc), mutex' = l
        PROVE  IInv'
    <2>1. pc \in MutexSteps /\ pc \in Unclaimed \ WaitSteps /\ pc \notin {"ldGet", "ldData"}
      BY MutexStepNames DEF MutexSteps
    <2>2. /\ StepFits(l, pc) /\ pc \in Steps \ {"fsStatus"} /\ l \in Ops /\ ~HasCard(l, pc)
          /\ op[l].pc # "idle"
      BY <1>3, <1>5, <2>1, Names, MutexStepNames
         DEF StepFits, Unclaimed, OpenSteps, FsckSteps, HasCard
    <2>3. Fits(l, Moved(l, pc)) /\ Moved(l, pc).pc = pc /\ Continue(l, Moved(l, pc))
      BY <1>8, <2>2, MovedFits DEF IInv, Running, Goto, Moved
    <2> QED
      BY <1>6, <1>8, <2>1, <2>3
  <1>9. \/ Finish(l) /\ UNCHANGED mutex
        \/ mutex' = l /\ \E pc \in {"stopOnly", "swSession", "stop"} : Goto(l, pc)
    BY <1>5 DEF RunLaunch, o
  <1> QED
    BY <1>7, <1>8, <1>9

LEMMA StopStep == ASSUME IInv, NEW o \in Launches, Stop(o) PROVE IInv'
  <1> DEFINE c == current.card
  <1>1. /\ op[o].pc \in {"stop", "stopOnly"} /\ op[o].pc \in MutexSteps
        /\ (op[o].pc \in DbSteps => Head(dbq) = o)
    BY AtStep DEF Stop, MutexSteps
  <1>2. CASE Die
    BY <1>2, DieStep
  <1>3. CASE ~Die
    <2>1. /\ c # None => owner[c] = "cloudpilot"
          /\ owner' = IF c = None THEN owner ELSE [owner EXCEPT ![c] = "none"]
          /\ current' = NoSession
          /\ \/ Goto(o, "rsState") /\ mutex' = None
             \/ Goto(o, "swSession") /\ UNCHANGED mutex
          /\ UNCHANGED <<disk, emu, vfs, stale, jobs, fate>>
      BY <1>3 DEF Stop
    <2>2. Data'
      BY <2>1 DEF IInv, Data, Owners, NoSession, Sessions, fate
    <2>3. \A d \in CardIds :
            owner'[d] = owner[d] \/ (owner[d] = "cloudpilot" /\ owner'[d] = "none")
      BY <2>1 DEF IInv, Data
    <2>4. OwnersKept /\ SlotsKept /\ stuck' = stuck
      BY <2>1, <2>3 DEF OwnersKept, SlotsKept, fate
    <2>5. OwnedExist'
      BY <2>1, <2>3 DEF IInv, Claims, OwnedExist, Exists
    <2>6. CASE Goto(o, "rsState") /\ mutex' = None
      BY <1>1, <2>1, <2>2, <2>4, <2>5, <2>6, LaunchGoto, LaunchStep, MutexStepNames
    <2>7. CASE Goto(o, "swSession") /\ UNCHANGED mutex
      <3>1. "swSession" \in MutexSteps /\ "swSession" \in Unclaimed \ WaitSteps
        BY MutexStepNames DEF MutexSteps
      <3> QED
        BY <1>1, <2>1, <2>2, <2>4, <2>5, <2>7, <3>1, LaunchGoto, LaunchStep
    <2> QED
      BY <2>1, <2>6, <2>7
  <1> QED
    BY <1>2, <1>3

LEMMA ResetStateStep == IInv /\ ResetState => IInv'
  <1> SUFFICES ASSUME IInv, ResetState PROVE IInv'
    OBVIOUS
  <1> DEFINE s == op["reset"].ses
             launch == [op |-> "reset", id |-> None, card |-> None]
             change == [op |-> None, id |-> s, card |-> disk.mounted[s]]
             rec == Moved("reset", "queued2")
  <1>1. /\ "reset" \in Launches /\ "reset" \in Ops /\ op["reset"].pc = "rsState"
        /\ op["reset"].pc \in Unclaimed /\ op["reset"].pc # "idle"
        /\ op["reset"].pc \notin WaitSteps \cup MutexSteps
        /\ (op["reset"].pc \in DbSteps => Head(dbq) = "reset")
    BY AtStep, Names, MutexStepNames DEF ResetState, Launches
  <1>2. s \in SessionIds
    BY <1>1 DEF IInv, Running, OpsOK, Fits
  <1>3. CASE Die
    BY <1>3, DieStep
  <1>4. CASE /\ SessionExists(s) /\ Goto("reset", "queued2")
             /\ jobs' = jobs \o <<change, launch>>
             /\ UNCHANGED <<disk, copies, current, mutex, fate>>
    <2>1. Fits("reset", rec) /\ rec.pc = "queued2" /\ Continue("reset", rec)
      <3>1. /\ StepFits("reset", "queued2") /\ ~HasCard("reset", "queued2")
            /\ "queued2" \in Steps \ {"fsStatus"}
        BY <1>1, Names, MutexStepNames DEF StepFits, HasCard, WaitSteps, FsckSteps, Unclaimed
      <3> QED
        BY <1>1, <1>4, <3>1, MovedFits DEF IInv, Running, Goto, Moved
    <2> HIDE DEF rec
    <2>2. rec.pc \in Unclaimed /\ rec.pc \in WaitSteps /\ rec.pc \notin MutexSteps
      BY <2>1, MutexStepNames DEF WaitSteps
    <2>3. /\ Running' /\ op'["reset"] = rec /\ RolesSame
          /\ \A p \in Launches \ {"reset"} : op'[p] = op[p]
          /\ Waiters' = (Waiters \ {"reset"}) \cup {"reset"}
      BY <1>1, <2>1, <2>2, OutsideMoves
    <2>4. MutexOK'
      BY <1>1, <1>4, <2>2, <2>3 DEF IInv, MutexOK
    <2>5. change \in JobRecord /\ change.op = None /\ launch \in JobRecord
          /\ launch.op = "reset" /\ "reset" # None
      BY <1>1, <1>2, <1>4, MountedType, NoneIsNoLaunch DEF JobRecord
    <2>6. jobs' = Append(Append(jobs, change), launch)
      <3>1. jobs \in Seq(JobRecord)
        BY DEF IInv, JobsOK, JobsFor
      <3> HIDE DEF change, launch
      <3>2. jobs \o <<change, launch>> = Append(Append(jobs, change), launch)
        BY <2>5, <3>1
      <3> QED
        BY <1>4, <3>2
    <2> HIDE DEF change, launch
    <2>7. JobsFor(Append(jobs, change), Waiters) /\ "reset" \notin Waiters
      BY <1>1, <2>5, JobsChange DEF IInv, JobsOK, Waiters
    <2>8. JobsFor(Append(Append(jobs, change), launch), Waiters \cup {"reset"})
      BY <2>5, <2>7, JobsLaunch
    <2>9. Waiters' = Waiters \cup {"reset"}
      BY <2>3
    <2>10. JobsOK'
      BY <2>6, <2>8, <2>9 DEF JobsOK
    <2>11. Data' /\ Claims'
      BY <1>4, <2>3, NothingClaimed DEF IInv, Data
    <2> QED
      BY <2>3, <2>4, <2>10, <2>11 DEF IInv
  <1> QED
    BY <1>3, <1>4 DEF ResetState

LEMMA SwitchReadStep == ASSUME IInv, NEW o \in Launches, SwitchRead(o) PROVE IInv'
  <1>1. CASE At(o, "swSession") /\ EndLaunch(o) /\ UNCHANGED <<disk, copies, current, jobs, fate>>
    <2>1. "swSession" \in MutexSteps
      BY DEF MutexSteps
    <2> QED
      BY <1>1, <2>1, EndLaunchStep
  <1> DEFINE card == disk.mounted[op[o].ses]
             rec == [op[o] EXCEPT !.pc = "swLoad", !.card = card]
  <1>2. CASE /\ At(o, "swSession") /\ SessionExists(op[o].ses) /\ Continue(o, rec)
             /\ current' = NoSession /\ UNCHANGED <<disk, copies, jobs, fate, mutex>>
    <2>1. /\ op[o].pc = "swSession" /\ op[o].pc \in MutexSteps /\ o \in Ops
          /\ (op[o].pc \in DbSteps => Head(dbq) = o) /\ op[o].pc # "idle"
          /\ "swLoad" \in MutexSteps
      BY <1>2, AtStep, Names DEF MutexSteps
    <2>2. op[o] \in OpRecord /\ op[o].ses \in SessionIds /\ op[o].res = None
      BY <2>1 DEF IInv, Running, OpsOK, Fits
    <2>3. card \in CardIds \cup {None}
      BY <1>2, <2>2, MountedType
    <2>4. /\ rec \in OpRecord /\ rec.pc = "swLoad" /\ rec.ses \in SessionIds
          /\ rec.res = None
      BY <2>1, <2>2, <2>3, MutexStepNames DEF OpRecord, Unclaimed
    <2> HIDE DEF rec
    <2>5. Fits(o, rec)
      BY <2>1, <2>4, Names DEF Fits, StepFits, HasCard, WaitSteps, FsckSteps
    <2>6. Data'
      BY <1>2 DEF IInv, Data, NoSession, Sessions, copies, fate
    <2>7. OwnersKept /\ SlotsKept /\ OwnedExist' /\ stuck' = stuck
      BY <1>2, CardsSame DEF copies, fate
    <2> QED
      BY <1>2, <2>1, <2>4, <2>5, <2>6, <2>7, LaunchStep, MutexStepNames
  <1> DEFINE pc == IF op[o].card = None THEN "swOpen" ELSE "ldGet"
  <1>3. CASE /\ At(o, "swLoad") /\ emu' = FreshPage.emu
             /\ stale' = {x \in stale : x[1] # "emu"}
             /\ Goto(o, pc) /\ UNCHANGED <<disk, owner, vfs, session, fate>>
    <2>1. /\ op[o].pc = "swLoad" /\ op[o].pc \in MutexSteps /\ o \in Ops
          /\ (op[o].pc \in DbSteps => Head(dbq) = o) /\ pc \in MutexSteps
      BY <1>3, AtStep, Names DEF MutexSteps
    <2>2. pc \in {"ldGet", "ldData"} => op[o].card \in CardIds
      BY <2>1, RecordOf DEF OpRecord
    <2>3. Data'
      BY <1>3 DEF IInv, Data, FreshPage, Images, session, fate
    <2>4. OwnersKept /\ SlotsKept /\ OwnedExist' /\ stuck' = stuck
      BY <1>3, CardsSame DEF fate
    <2>5. mutex' = mutex /\ jobs' = jobs
      BY <1>3 DEF session
    <2>6. Fits(o, Moved(o, pc)) /\ Continue(o, Moved(o, pc)) /\ Moved(o, pc).pc = pc
      BY <1>3, <2>1, <2>2, LaunchGoto, MutexStepNames
    <2> HIDE DEF pc
    <2> QED
      BY <2>1, <2>3, <2>4, <2>5, <2>6, LaunchStep, MutexStepNames
  <1> QED
    BY <1>1, <1>2, <1>3 DEF SwitchRead

LEMMA SwitchOpenStep == ASSUME IInv, NEW o \in Launches, SwitchOpen(o) PROVE IInv'
  <1> DEFINE c == op[o].card
  <1>1. /\ op[o].pc = "swOpen" /\ op[o].pc \in MutexSteps /\ o \in Ops
        /\ (op[o].pc \in DbSteps => Head(dbq) = o) /\ "swUpdate" \in MutexSteps
    BY AtStep, Names DEF SwitchOpen, MutexSteps
  <1>2. c \in CardIds \cup {None} /\ op[o].ses \in SessionIds \cup {None}
    BY <1>1, RecordOf DEF OpRecord
  <1>3. UNCHANGED <<disk, owner, vfs, stale, jobs, lost, fatal>>
    BY DEF SwitchOpen
  <1>4. CASE /\ current' = [id |-> op[o].ses, card |-> c] /\ emu' = [emu EXCEPT !.key = c]
             /\ Goto(o, "swUpdate") /\ UNCHANGED <<mutex, stuck>>
    <2>1. Data'
      BY <1>2, <1>3, <1>4 DEF IInv, Data, Images, Sessions
    <2>2. OwnersKept /\ SlotsKept /\ OwnedExist'
      BY <1>3, <1>4, CardsSame
    <2> QED
      BY <1>1, <1>3, <1>4, <2>1, <2>2, LaunchGoto, LaunchStep, MutexStepNames
  <1>5. CASE /\ EndLaunch(o) /\ stuck' = stuck \cup ({c} \ {None})
             /\ UNCHANGED <<current, emu>>
    <2>1. Data'
      BY <1>2, <1>3, <1>5 DEF IInv, Data
    <2>2. OwnersKept /\ SlotsKept /\ OwnedExist' /\ stuck \subseteq stuck'
      BY <1>3, <1>5, CardsSame
    <2>3. Finish(o) /\ mutex' = None
      BY <1>5 DEF EndLaunch
    <2> QED
      BY <1>1, <1>3, <2>1, <2>2, <2>3, LaunchFinish, LaunchStep
  <1> QED
    BY <1>4, <1>5 DEF SwitchOpen

LEMMA SwitchUpdateStep == ASSUME IInv, NEW o \in Launches, SwitchUpdate(o) PROVE IInv'
  <1>1. /\ op[o].pc = "swUpdate" /\ op[o].pc \in MutexSteps /\ o \in Ops
        /\ (op[o].pc \in DbSteps => Head(dbq) = o)
    BY AtStep, Names DEF SwitchUpdate, MutexSteps
  <1>2. CASE Die
    BY <1>2, DieStep
  <1>3. CASE /\ SetMounted(op[o].ses, op[o].card) /\ EndLaunch(o)
             /\ UNCHANGED <<copies, current, fate>>
    <2>1. op[o].card \in CardIds \cup {None} /\ op[o].ses \in SessionIds \cup {None}
      BY <1>1, RecordOf DEF OpRecord
    <2>2. disk' \in Disk /\ JobsFor(jobs', Waiters) /\ disk'.status = disk.status
      BY <1>3, <2>1, SetMountedShape
    <2>3. Data'
      BY <1>3, <2>2 DEF IInv, Data, copies, fate
    <2>4. OwnersKept /\ SlotsKept /\ OwnedExist' /\ stuck' = stuck
      BY <1>3, <2>2, CardsSame DEF copies, fate
    <2>5. Finish(o) /\ mutex' = None
      BY <1>3 DEF EndLaunch
    <2> QED
      BY <1>1, <2>2, <2>3, <2>4, <2>5, LaunchFinish, LaunchStep
  <1> QED
    BY <1>2, <1>3 DEF SwitchUpdate

LEMMA SessionOpsStep == IInv /\ (AnswerEdit \/ SaveEdit \/ DeleteSession) => IInv'
  <1> SUFFICES ASSUME IInv, AnswerEdit \/ SaveEdit \/ DeleteSession PROVE IInv'
    OBVIOUS
  <1>1. CASE AnswerEdit
    <2>1. /\ op["edit"].pc = "edForm" /\ op["edit"].pc \in Unclaimed \ {"idle"}
          /\ (op["edit"].pc \in DbSteps => Head(dbq) = "edit") /\ OnlyMoves
          /\ "edSave" \in Unclaimed \ WaitSteps
      BY <1>1, AtStep, EjectSteps DEF AnswerEdit
    <2>2. CASE Goto("edit", "edSave")
      BY <2>1, <2>2, GotoStep, Names
    <2>3. CASE Finish("edit")
      BY <2>1, <2>3, FinishStep, Names
    <2> QED
      BY <1>1, <2>2, <2>3 DEF AnswerEdit
  <1>2. ASSUME NEW o \in {"edit", "delSession"}, NEW at \in {"edSave", "dsDelete"}, At(o, at),
               NEW c \in CardIds \cup {None, Gone}, SetMounted(op[o].ses, c), Finish(o),
               UNCHANGED <<copies, current, mutex, fate>>
        PROVE  IInv'
    <2>1. /\ op[o].pc \in Unclaimed /\ (op[o].pc \in DbSteps => Head(dbq) = o)
          /\ o \in Ops \ Launches
      BY <1>2, AtStep, EjectSteps, Names
    <2>2. op[o].ses \in SessionIds \cup {None}
      BY <2>1, RecordOf DEF OpRecord
    <2>3. SameRole(op[o], NotRunning) /\ Continue(o, NotRunning) /\ Fits(o, NotRunning)
      BY <1>2, <2>1, NotRunningFits, EjectSteps DEF SameRole, Unclaimed, Finish
    <2> QED
      BY <1>2, <2>1, <2>2, <2>3, SetMountedStep
  <1>3. CASE SaveEdit
    <2>1. op["edit"].card \in CardIds \cup {None, Gone}
      BY RecordOf, Names DEF OpRecord
    <2> QED
      BY <1>2, <1>3, <2>1, DieStep DEF SaveEdit
  <1>4. CASE DeleteSession
    BY <1>2, <1>4 DEF DeleteSession
  <1> QED
    BY <1>1, <1>3, <1>4

-----------------------------------------------------------------------------
(***************************************************************************)
(* VfsService.                                                             *)
(***************************************************************************)

\* While no loader and no dialog is shown, no card is being opened.
LEMMA NothingOpens ==
    ASSUME IInv, Ready
    PROVE  \A c \in CardIds : ~Opens("browse", c) /\ ~Opens("paste", c)
  <1>1. ~Modal
    BY DEF Ready
  <1>2. /\ op["browse"].pc = "idle" \/ op["browse"].pc \notin ModalSteps
        /\ op["paste"].pc = "idle"
    BY <1>1, Names DEF Modal, Active, Shielded
  <1>3. op["browse"].pc # "paLoad" /\ "browse" \in Ops /\ "paste" \in Ops
    BY Names DEF IInv, Running, OpsOK, Fits, StepFits
  <1> QED
    BY <1>2, <1>3 DEF Opens, OpenSteps, ModalSteps

\* The two actions that only rearrange the VFS.
LEMMA RearrangeStep ==
    ASSUME IInv, Ready, UNCHANGED <<disk, owner, emu, stale, session, ops, fate>>,
           vfs' \in Slots, vfs'.primary # None => vfs'.primary # vfs'.secondary,
           \A c \in CardIds : InVfs(c)' <=> InVfs(c)
    PROVE  IInv'
  <1>1. Running' /\ RolesSame /\ Waiters' = Waiters /\ MutexOK' /\ jobs' = jobs /\ stuck' = stuck
    BY OpsSame DEF session, fate
  <1>2. Data'
    BY DEF IInv, Data, session, fate
  <1>3. \A c \in CardIds : /\ ~Opens("browse", c) /\ ~Opens("paste", c)
                           /\ ~Opens("browse", c)' /\ ~Opens("paste", c)'
    BY <1>1, NothingOpens, Names DEF RolesSame
  <1>4. SlotsOK'
    BY <1>3 DEF SlotsOK
  <1>5. VfsClaims'
    BY <1>3 DEF IInv, Claims, VfsClaims, Opened
  <1>6. FsckClaims' /\ OwnedExist'
    BY <1>1, Names DEF IInv, Claims, FsckClaims, OwnedExist, Exists, RolesSame
  <1> QED
    BY <1>1, <1>2, <1>4, <1>5, <1>6 DEF IInv, Claims, JobsOK

LEMMA SwappedShape ==
    ASSUME IInv
    PROVE  /\ Swapped \in Slots /\ Swapped.primary = vfs.secondary
           /\ Swapped.secondary = vfs.primary /\ Swapped.clip = vfs.clip
  BY DEF IInv, Data, Swapped, Slots

LEMMA ActivateCardStep == ASSUME IInv, NEW c \in CardIds, ActivateCard(c) PROVE IInv'
  <1>1. /\ Ready /\ vfs' = Swapped /\ vfs.secondary = c
        /\ UNCHANGED <<disk, owner, emu, stale, session, ops, fate>>
    BY DEF ActivateCard
  <1>2. /\ vfs' \in Slots /\ vfs'.primary = vfs.secondary /\ vfs'.secondary = vfs.primary
    BY <1>1, SwappedShape
  <1>3. vfs'.primary # vfs'.secondary
    BY <1>1, <1>2, NoneIsNoLaunch DEF IInv, Claims, SlotsOK
  <1>4. \A d \in CardIds : InVfs(d)' <=> InVfs(d)
    BY <1>2 DEF InVfs
  <1> QED
    BY <1>1, <1>2, <1>3, <1>4, RearrangeStep

LEMMA CopyToClipboardStep == IInv /\ CopyToClipboard => IInv'
  <1> SUFFICES ASSUME IInv, CopyToClipboard PROVE IInv'
    OBVIOUS
  <1>1. /\ Ready /\ vfs' = [vfs EXCEPT !.clip = vfs.primary]
        /\ UNCHANGED <<disk, owner, emu, stale, session, ops, fate>>
    BY DEF CopyToClipboard
  <1>2. vfs' \in Slots /\ vfs'.primary = vfs.primary /\ vfs'.secondary = vfs.secondary
    BY <1>1 DEF IInv, Data, Slots
  <1>3. \A d \in CardIds : InVfs(d)' <=> InVfs(d)
    BY <1>2 DEF InVfs
  <1>4. vfs'.primary # None => vfs'.primary # vfs'.secondary
    BY <1>2 DEF IInv, Claims, SlotsOK
  <1> QED
    BY <1>1, <1>2, <1>3, <1>4, RearrangeStep

LEMMA SyncSlotStep ==
    ASSUME IInv, NEW o \in Writers, NEW at \in SyncSteps, At(o, at),
           NEW next, Fits(o, next), next.pc \in Unclaimed, SyncSlot(o, next)
    PROVE  IInv'
  <1> DEFINE c == op[o].card
  <1>1. /\ op[o].pc = at /\ op[o].pc \in Unclaimed \ {"idle"} /\ o \in Ops \ Launches
        /\ (op[o].pc \in DbSteps => Head(dbq) = o) /\ o \in CardOps
    BY AtStep, EjectSteps, Names DEF SyncSteps
  <1>2. c \in CardIds
    BY <1>1, CardOf
  <1>3. CASE Die
    BY <1>3, DieStep
  <1>4. CASE /\ \/ lost' = lost \cup {c} /\ stale' = stale \ {<<o, c>>}
                \/ Wrote("vfs", c)
             /\ Continue(o, next)
             /\ vfs' \in {vfs, [vfs EXCEPT !.clip = None]}
             /\ disk' = [disk EXCEPT !.health[c] = IF @ = "ok" THEN "ok" ELSE "unknown"]
             /\ UNCHANGED <<owner, emu, session, stuck, fatal>>
    <2>1. lost' \subseteq CardIds /\ stale' \subseteq Holders \X CardIds
      <3>1. CASE lost' = lost \cup {c} /\ stale' = stale \ {<<o, c>>}
        BY <1>2, <3>1 DEF IInv, Data
      <3>2. CASE Wrote("vfs", c)
        BY <1>2, <3>2, WroteTypes DEF Holders
      <3> QED
        BY <1>4, <3>1, <3>2
    <2>2. disk' \in Disk /\ \A d \in CardIds : Exists(d) => Exists(d)'
      BY <1>4 DEF IInv, Data, Disk, Exists, FsckResult
    <2>3. vfs' \in Slots /\ SlotsKept
      BY <1>4 DEF IInv, Data, Slots, SlotsKept
    <2>4. Data'
      BY <1>4, <2>1, <2>2, <2>3 DEF IInv, Data, session
    <2>5. SameRole(op[o], next)
      BY <1>1 DEF SameRole, Unclaimed
    <2>6. mutex' = mutex /\ jobs' = jobs /\ owner' = owner /\ stuck' = stuck
      BY <1>4 DEF session
    <2> QED
      BY <1>1, <1>4, <2>2, <2>3, <2>4, <2>5, <2>6, QuietStep
  <1> QED
    BY <1>3, <1>4 DEF SyncSlot

LEMMA SyncStep == IInv /\ (FileSync \/ PasteSync) => IInv'
  <1> SUFFICES ASSUME IInv, FileSync \/ PasteSync PROVE IInv'
    OBVIOUS
  <1>1. /\ "file" \in Writers /\ "paste" \in Writers /\ NotRunning.pc \in Unclaimed
        /\ {"fiSync", "paSync", "paSource"} \subseteq SyncSteps
        /\ \A o : Fits(o, NotRunning)
    BY NotRunningFits, EjectSteps DEF Writers, SyncSteps
  <1>2. CASE FileSync
    BY <1>1, <1>2, SyncSlotStep DEF FileSync
  <1> DEFINE next == [op["paste"] EXCEPT !.pc = "paSource", !.card = vfs.secondary]
  <1>3. CASE At("paste", "paSync") /\ vfs.secondary # None /\ SyncSlot("paste", next)
    <2>1. vfs.secondary \in CardIds
      BY <1>3 DEF IInv, Data, Slots
    <2>2. next \in OpRecord /\ next.pc = "paSource" /\ next.card \in CardIds
      BY <2>1, RecordOf, Names, EjectSteps DEF OpRecord, Unclaimed
    <2> HIDE DEF next
    <2>3. Fits("paste", next) /\ next.pc \in Unclaimed
      BY <2>2, Names, EjectSteps DEF Fits, StepFits, WaitSteps, FsckSteps
    <2> QED
      BY <1>1, <1>3, <2>3, SyncSlotStep
  <1>4. CASE (At("paste", "paSync") \/ At("paste", "paSource")) /\ SyncSlot("paste", NotRunning)
    BY <1>1, <1>4, SyncSlotStep
  <1> QED
    BY <1>2, <1>3, <1>4 DEF PasteSync

LEMMA FileErrorStep == ASSUME IInv, NEW o \in Writers, FileError(o) PROVE IInv'
  <1> DEFINE c == op[o].card
             p == vfs.primary
  <1>1. /\ op[o].pc = "fiError" /\ op[o].pc \in Unclaimed \ {"idle"} /\ o \in Ops \ Launches
        /\ (op[o].pc \in DbSteps => Head(dbq) = o) /\ "dirty" \in Status
    BY AtStep, EjectSteps, Names DEF FileError, Status
  <1>2. Fits(o, NotRunning) /\ SameRole(op[o], NotRunning)
    BY <1>1, NotRunningFits, EjectSteps DEF SameRole, Unclaimed
  <1>3. CASE Die
    BY <1>3, DieStep
  <1>4. CASE /\ disk' = WithStatus(c, "dirty") /\ p = None /\ UNCHANGED <<owner, vfs, stale>>
             /\ Finish(o) /\ UNCHANGED <<emu, session, fate>>
    BY <1>1, <1>2, <1>4, StatusStep DEF copies, Finish
  <1>5. CASE /\ disk' = WithStatus(c, "dirty") /\ p # None /\ ReleaseCard(p)
             /\ Finish(o) /\ UNCHANGED <<emu, session, fate>>
    <2>1. p \in CardIds
      BY <1>5 DEF IInv, Data, Slots
    <2>2. disk' \in Disk /\ \A d \in CardIds : Exists(d) => Exists(d)'
      BY <1>1, <1>5 DEF IInv, Data, Disk, Exists, WithStatus
    <2> QED
      BY <1>1, <1>2, <1>5, <2>1, <2>2, ReleaseStep DEF Finish
  <1> QED
    BY <1>3, <1>4, <1>5 DEF FileError, ReleaseCard

\* A step of browseCard or paste that changes the slots and who holds cards for them.
LEMMA VfsStep ==
    ASSUME IInv, NEW o \in {"browse", "paste"}, NEW rec, Fits(o, rec), Continue(o, rec),
           op[o].pc \in DbSteps => Head(dbq) = o,
           op[o].pc \notin FsckSteps, rec.pc \notin FsckSteps,
           UNCHANGED <<disk, emu, session, fate>>, vfs' \in Slots,
           owner' \in [CardIds -> Owners], stale' \subseteq Holders \X CardIds,
           \A c \in CardIds : owner'[c] = "fstools" <=> owner[c] = "fstools",
           \A c \in CardIds : owner'[c] # "none" => owner[c] # "none" \/ Exists(c),
           SlotsOK', VfsClaims'
    PROVE  IInv'
  <1>1. Running' /\ MutexOK' /\ JobsOK' /\ op'[o] = rec /\ Moves(o) /\ o \in Ops
    BY PlainStep, Names DEF session
  <1>2. \A p \in Ops : \A c \in CardIds : Checks(p, c)' <=> Checks(p, c)
    BY <1>1, NewRoles DEF Checks
  <1>3. FsckClaims'
    BY <1>2, Names DEF IInv, Claims, FsckClaims, fate
  <1>4. OwnedExist'
    BY DEF IInv, Claims, OwnedExist, Exists
  <1>5. Data'
    BY DEF IInv, Data, session, fate
  <1> QED
    BY <1>1, <1>3, <1>4, <1>5 DEF IInv, Claims

\* The slots once mountCardUnchecked has made room for a card: x is in the primary slot,
\* or it is still to be loaded.
LEMMA BrowseRoom ==
    ASSUME IInv, NEW c \in CardIds, ~InVfs(c), owner[c] = "none",
           NEW room, room = IF vfs.primary # None /\ vfs.primary = vfs.clip
                            THEN Swapped ELSE vfs,
           NEW x \in {None, c}, NEW w \in {"none", "vfs"}, x = c => w = "vfs",
           vfs' = [room EXCEPT !.primary = x],
           owner' = [d \in CardIds |->
                       IF d = c THEN w ELSE IF d = room.primary THEN "none" ELSE owner[d]],
           \A d \in CardIds : ~Opens("browse", d),
           \A d \in CardIds : Opens("browse", d)' <=> d = c /\ w = "vfs" /\ x = None,
           \A d \in CardIds : Opens("paste", d)' <=> Opens("paste", d)
    PROVE  SlotsOK' /\ VfsClaims' /\ vfs' \in Slots
  <1>1. /\ Swapped \in Slots /\ Swapped.primary = vfs.secondary
        /\ Swapped.secondary = vfs.primary /\ Swapped.clip = vfs.clip /\ vfs \in Slots
    BY SwappedShape DEF IInv, Data
  <1>2. /\ room \in Slots /\ room.clip = vfs.clip
        /\ \A d : d \in {room.primary, room.secondary} <=> InVfs(d)
        /\ room.primary # None => room.primary # room.secondary
    BY <1>1 DEF InVfs, IInv, Claims, SlotsOK
  <1>3. ASSUME NEW d \in CardIds, Opens("paste", d)
        PROVE  ~InVfs(d) /\ vfs.clip \in {None, d} /\ room = vfs /\ vfs.secondary = None /\ d # c
    <2>1. ~InVfs(d) /\ vfs.clip \in {None, d} /\ vfs.secondary = None
      BY <1>3 DEF IInv, Claims, SlotsOK
    <2>2. d # c
      BY <1>3 DEF IInv, Claims, VfsClaims, Opened
    <2> QED
      BY <2>1, <2>2 DEF InVfs
  <1>4. /\ vfs' \in Slots /\ vfs'.primary = x /\ vfs'.secondary = room.secondary
        /\ vfs'.clip = vfs.clip
    BY <1>2 DEF Slots
  <1>5. ASSUME NEW d \in CardIds
        PROVE  InVfs(d)' <=> d = x \/ (InVfs(d) /\ d # room.primary)
    BY <1>2, <1>4, NoneIsNoLaunch DEF InVfs
  <1>6. SlotsOK'
    <2>1. vfs'.primary # None => vfs'.primary # vfs'.secondary
      BY <1>2, <1>4
    <2>2. ASSUME NEW d \in CardIds, Opens("browse", d)'
          PROVE  ~InVfs(d)' /\ ~Opens("paste", d)' /\ vfs'.primary = None
      BY <1>3, <1>4, <1>5, <2>2, NoneIsNoLaunch
    <2>3. ASSUME NEW d \in CardIds, Opens("paste", d)'
          PROVE  ~InVfs(d)' /\ vfs'.secondary = None /\ vfs'.clip \in {None, d}
      BY <1>3, <1>4, <1>5, <2>3, NoneIsNoLaunch
    <2> QED
      BY <2>1, <2>2, <2>3 DEF SlotsOK
  <1>7. ASSUME NEW d \in CardIds
        PROVE  (owner[d] = "vfs" <=> InVfs(d) \/ Opens("paste", d))
    BY DEF IInv, Claims, VfsClaims, Opened
  <1>8. ASSUME NEW d \in CardIds
        PROVE  (owner'[d] = "vfs" <=> InVfs(d)' \/ Opened(d)')
    <2>1. CASE d = c
      BY <1>3, <1>5, <2>1, NoneIsNoLaunch DEF Opened
    <2>2. CASE d # c /\ d = room.primary
      BY <1>2, <1>3, <1>5, <2>2, NoneIsNoLaunch DEF Opened
    <2>3. CASE d # c /\ d # room.primary
      BY <1>5, <1>7, <2>3, NoneIsNoLaunch DEF Opened
    <2> QED
      BY <2>1, <2>2, <2>3
  <1> QED
    BY <1>4, <1>6, <1>8 DEF VfsClaims

LEMMA BrowseClaimStep == IInv /\ BrowseClaim => IInv'
  <1> SUFFICES ASSUME IInv, BrowseClaim PROVE IInv'
    OBVIOUS
  <1> DEFINE room == IF vfs.primary # None /\ vfs.primary = vfs.clip THEN Swapped ELSE vfs
             Claimed(c, w) == [d \in CardIds |-> IF d = c THEN w
                                 ELSE IF d = room.primary THEN "none" ELSE owner[d]]
  <1>1. /\ op["browse"].pc = "vfGet" /\ (op["browse"].pc \in DbSteps => Head(dbq) = "browse")
        /\ op["browse"].pc \notin FsckSteps \cup OpenSteps \cup {"idle"}
        /\ "browse" \in Ops \ Launches /\ "browse" \in CardOps /\ "paste" \in Ops \ {"browse"}
    BY AtStep, Names DEF BrowseClaim, FsckSteps, OpenSteps, Checkers
  <1>2. PICK c \in CardIds : c = op["browse"].card
    BY <1>1, CardOf
  <1>3. CASE Die
    BY <1>3, DieStep
  <1>4. CASE ~Die
    <2> DEFINE old == IF room.primary = None THEN stale ELSE StaleWithout(room.primary)
               outdated == IF <<"browse", c>> \in stale THEN {<<"vfs", c>>} ELSE {}
    <2>1. /\ Exists(c) /\ ~InVfs(c) /\ owner[c] = "none"
          /\ room.primary # None => owner[room.primary] = "vfs"
          /\ stale' \subseteq old \cup outdated
          /\ UNCHANGED <<disk, emu, session, fate>>
      BY <1>2, <1>4 DEF BrowseClaim
    <2>2. PICK x \in {None, c}, w \in {"none", "vfs"},
               rec \in {Moved("browse", "vfLoad"), NotRunning} :
            /\ x = c => w = "vfs"
            /\ vfs' = [room EXCEPT !.primary = x] /\ owner' = Claimed(c, w)
            /\ Continue("browse", rec)
            /\ \/ rec = Moved("browse", "vfLoad") /\ x = None /\ w = "vfs"
               \/ rec = NotRunning /\ (w = "vfs" => x = c)
      <3>1. CASE /\ owner' = Claimed(c, "vfs") /\ vfs' = [room EXCEPT !.primary = None]
                 /\ Goto("browse", "vfLoad")
        BY <3>1 DEF Goto, Moved
      <3>2. CASE /\ owner' = Claimed(c, "vfs") /\ vfs' = [room EXCEPT !.primary = c]
                 /\ Finish("browse")
        BY <3>2 DEF Finish
      <3>3. CASE /\ owner' = [Claimed(c, "vfs") EXCEPT ![c] = "none"]
                 /\ vfs' = [room EXCEPT !.primary = None] /\ Finish("browse")
        <4>1. [Claimed(c, "vfs") EXCEPT ![c] = "none"] = Claimed(c, "none")
          OBVIOUS
        <4> QED
          BY <3>3, <4>1, NoneIsNoLaunch DEF Finish
      <3> QED
        BY <1>2, <1>4, <3>1, <3>2, <3>3 DEF BrowseClaim
    <2>3. /\ Fits("browse", rec) /\ rec.pc \notin FsckSteps
          /\ \A d \in CardIds : rec.pc \in OpenSteps /\ rec.card = d <=>
                                  d = c /\ w = "vfs" /\ x = None
      <3>1. /\ StepFits("browse", "vfLoad") /\ "vfLoad" \in Steps \ {"idle", "fsStatus"}
            /\ "vfLoad" \in OpenSteps \ FsckSteps /\ "idle" \notin FsckSteps \cup OpenSteps
        BY DEF StepFits, Steps, DbSteps, WaitSteps, FsckSteps, OpenSteps
      <3>2. CASE rec = Moved("browse", "vfLoad") /\ x = None /\ w = "vfs"
        BY <1>1, <1>2, <3>1, <3>2, MovedFits DEF IInv, Running
      <3>3. CASE rec = NotRunning /\ (w = "vfs" => x = c)
        BY <3>1, <3>3, NotRunningFits, NoneIsNoLaunch
      <3> QED
        BY <2>2, <3>2, <3>3
    <2>4. op'["browse"] = rec /\ Moves("browse")
      BY <1>1, <2>1, <2>2, <2>3, PlainStep DEF session
    <2>5. /\ \A d \in CardIds : ~Opens("browse", d)
          /\ \A d \in CardIds : Opens("browse", d)' <=> d = c /\ w = "vfs" /\ x = None
          /\ \A d \in CardIds : Opens("paste", d)' <=> Opens("paste", d)
      BY <1>1, <2>3, <2>4, NewRoles DEF Opens
    <2>6. PICK r : r = room
      OBVIOUS
    <2>7. SlotsOK' /\ VfsClaims' /\ vfs' \in Slots
      BY <2>1, <2>2, <2>5, <2>6, BrowseRoom
    <2>8. room.primary \in CardIds \cup {None}
      BY SwappedShape DEF IInv, Data, Slots
    <2>9. stale' \subseteq Holders \X CardIds
      <3>1. old \subseteq Holders \X CardIds
        BY <2>8, ReleaseTypes DEF IInv, Data
      <3> QED
        BY <2>1, <3>1 DEF Holders
    <2>10. owner' \in [CardIds -> Owners]
      BY <2>2 DEF IInv, Data, Owners
    <2>11. /\ \A d \in CardIds : owner'[d] = "fstools" <=> owner[d] = "fstools"
           /\ \A d \in CardIds : owner'[d] # "none" => owner[d] # "none" \/ Exists(d)
      <3>1. \A d \in CardIds : owner'[d] = IF d = c THEN w
                                ELSE IF d = room.primary THEN "none" ELSE owner[d]
        BY <2>2
      <3> HIDE DEF room
      <3> QED
        BY <2>1, <3>1, NoneIsNoLaunch
    <2> QED
      BY <1>1, <2>1, <2>2, <2>3, <2>7, <2>9, <2>10, <2>11, VfsStep
  <1> QED
    BY <1>3, <1>4

\* A card that browseCard or paste was opening is in its slot, or it is released.
LEMMA LoadedClaims ==
    ASSUME IInv, NEW o \in {"browse", "paste"}, NEW c \in CardIds, Opens(o, c),
           \A d \in CardIds : ~Opens(o, d)',
           \A p \in {"browse", "paste"} \ {o} : \A d \in CardIds : Opens(p, d)' <=> Opens(p, d),
           \/ /\ vfs' = [vfs EXCEPT ![IF o = "browse" THEN "primary" ELSE "secondary"] = c]
              /\ UNCHANGED owner
           \/ owner' = [owner EXCEPT ![c] = "none"] /\ UNCHANGED vfs
    PROVE  /\ SlotsOK' /\ VfsClaims' /\ vfs' \in Slots /\ owner' \in [CardIds -> Owners]
           /\ \A d \in CardIds : owner'[d] = "fstools" <=> owner[d] = "fstools"
           /\ \A d \in CardIds : owner'[d] # "none" => owner[d] # "none"
  <1>1. \A d \in CardIds : Opens(o, d) => d = c
    BY DEF Opens
  <1>2. /\ ~InVfs(c) /\ owner[c] = "vfs" /\ vfs \in Slots /\ owner \in [CardIds -> Owners]
        /\ o = "browse" => vfs.primary = None
        /\ o = "paste" => vfs.secondary = None
        /\ vfs.primary # None => vfs.primary # vfs.secondary
    BY DEF IInv, Data, Claims, SlotsOK, VfsClaims, Opened
  <1>3. \A p \in {"browse", "paste"} \ {o} : \A d \in CardIds : Opens(p, d) => d # c
    BY DEF IInv, Claims, SlotsOK
  <1>4. \A d \in CardIds : owner[d] = "vfs" <=> InVfs(d) \/ Opened(d)
    BY DEF IInv, Claims, VfsClaims
  <1>5. CASE owner' = [owner EXCEPT ![c] = "none"] /\ UNCHANGED vfs
    <2>1. /\ owner' \in [CardIds -> Owners] /\ owner'[c] = "none"
          /\ \A d \in CardIds \ {c} : owner'[d] = owner[d]
      BY <1>2, <1>5 DEF Owners
    <2>2. \A d \in CardIds : InVfs(d)' <=> InVfs(d)
      BY <1>5 DEF InVfs
    <2>3. SlotsOK'
      BY <1>5, <2>2 DEF IInv, Claims, SlotsOK
    <2>4. VfsClaims'
      BY <1>1, <1>2, <1>3, <1>4, <2>1, <2>2 DEF VfsClaims, Opened
    <2> QED
      BY <1>2, <1>5, <2>1, <2>3, <2>4
  <1>6. CASE /\ vfs' = [vfs EXCEPT ![IF o = "browse" THEN "primary" ELSE "secondary"] = c]
             /\ UNCHANGED owner
    <2>1. /\ vfs' \in Slots /\ vfs'.clip = vfs.clip
          /\ o = "browse" => vfs'.primary = c /\ vfs'.secondary = vfs.secondary
          /\ o = "paste" => vfs'.secondary = c /\ vfs'.primary = vfs.primary
      BY <1>2, <1>6 DEF Slots
    <2>2. \A d \in CardIds : InVfs(d)' <=> InVfs(d) \/ d = c
      BY <1>2, <2>1, NoneIsNoLaunch DEF InVfs
    <2>3. SlotsOK'
      <3>1. vfs'.primary # vfs'.secondary
        BY <1>2, <2>1 DEF InVfs
      <3> QED
        BY <1>3, <2>1, <2>2, <3>1 DEF IInv, Claims, SlotsOK
    <2>4. VfsClaims'
      BY <1>1, <1>2, <1>3, <1>4, <1>6, <2>2 DEF VfsClaims, Opened
    <2> QED
      BY <1>2, <1>6, <2>1, <2>3, <2>4
  <1> QED
    BY <1>5, <1>6

LEMMA LoadedStep ==
    ASSUME IInv, NEW o \in {"browse", "paste"}, NEW at \in OpenSteps, At(o, at),
           NEW rec, Fits(o, rec), Continue(o, rec), rec.pc \in Unclaimed,
           stale' \subseteq stale, UNCHANGED <<disk, emu, session, fate>>,
           \/ /\ vfs' = [vfs EXCEPT ![IF o = "browse" THEN "primary" ELSE "secondary"]
                                      = op[o].card]
              /\ UNCHANGED owner
           \/ owner' = [owner EXCEPT ![op[o].card] = "none"] /\ UNCHANGED vfs
    PROVE  IInv'
  <1>1. /\ op[o].pc \in OpenSteps /\ (op[o].pc \in DbSteps => Head(dbq) = o)
        /\ op[o].pc \notin FsckSteps \cup {"idle"} /\ o \in Ops \ Launches /\ o \in CardOps
        /\ rec.pc \notin FsckSteps \cup OpenSteps /\ {"browse", "paste"} \subseteq Ops
    BY AtStep, Names DEF OpenSteps, FsckSteps, Unclaimed, Checkers, Writers
  <1>2. PICK c \in CardIds : c = op[o].card
    BY <1>1, CardOf
  <1>3. op'[o] = rec /\ Moves(o)
    BY <1>1, PlainStep DEF session
  <1>4. /\ Opens(o, c) /\ \A d \in CardIds : ~Opens(o, d)'
        /\ \A p \in {"browse", "paste"} \ {o} : \A d \in CardIds : Opens(p, d)' <=> Opens(p, d)
    BY <1>1, <1>2, <1>3, NewRoles DEF Opens
  <1>5. /\ SlotsOK' /\ VfsClaims' /\ vfs' \in Slots /\ owner' \in [CardIds -> Owners]
        /\ \A d \in CardIds : owner'[d] = "fstools" <=> owner[d] = "fstools"
        /\ \A d \in CardIds : owner'[d] # "none" => owner[d] # "none"
    BY <1>2, <1>4, LoadedClaims
  <1>6. stale' \subseteq Holders \X CardIds
    BY DEF IInv, Data
  <1> QED
    BY <1>1, <1>5, <1>6, VfsStep

LEMMA BrowseLoadStep == IInv /\ BrowseLoad => IInv'
  <1> SUFFICES ASSUME IInv, BrowseLoad PROVE IInv'
    OBVIOUS
  <1>1. CASE Die
    BY <1>1, DieStep
  <1>2. CASE ~Die
    <2>1. /\ At("browse", "vfLoad") /\ Continue("browse", NotRunning) /\ stale' \subseteq stale
          /\ UNCHANGED <<disk, emu, session, fate>>
          /\ \/ vfs' = [vfs EXCEPT !["primary"] = op["browse"].card] /\ UNCHANGED owner
             \/ owner' = [owner EXCEPT ![op["browse"].card] = "none"] /\ UNCHANGED vfs
      BY <1>2 DEF BrowseLoad, Finish
    <2>2. Fits("browse", NotRunning) /\ NotRunning.pc \in Unclaimed /\ "vfLoad" \in OpenSteps
      BY NotRunningFits, EjectSteps DEF OpenSteps
    <2> QED
      BY <2>1, <2>2, LoadedStep
  <1> QED
    BY <1>1, <1>2

LEMMA PasteLoadStep == IInv /\ PasteLoad => IInv'
  <1> SUFFICES ASSUME IInv, PasteLoad PROVE IInv'
    OBVIOUS
  <1> DEFINE Synced(pc) == [op["paste"] EXCEPT !.pc = pc, !.card = vfs.primary]
  <1>1. CASE Die
    BY <1>1, DieStep
  <1>2. CASE ~Die
    <2>1. /\ At("paste", "paLoad") /\ stale' \subseteq stale
          /\ UNCHANGED <<disk, emu, session, fate>>
          /\ \/ vfs' = [vfs EXCEPT !["secondary"] = op["paste"].card] /\ UNCHANGED owner
             \/ owner' = [owner EXCEPT ![op["paste"].card] = "none"] /\ UNCHANGED vfs
      BY <1>2 DEF PasteLoad
    <2>2. PICK rec : /\ Continue("paste", rec)
                     /\ \/ rec = NotRunning
                        \/ \E pc \in PasteResults : rec = Synced(pc) /\ vfs.primary # None
      BY <1>2 DEF PasteLoad, Finish
    <2>3. Fits("paste", rec) /\ rec.pc \in Unclaimed
      <3>1. CASE rec = NotRunning
        BY <3>1, NotRunningFits, EjectSteps
      <3>2. ASSUME NEW pc \in PasteResults, rec = Synced(pc), vfs.primary # None
            PROVE  Fits("paste", rec) /\ rec.pc \in Unclaimed
        <4>1. vfs.primary \in CardIds /\ pc \in {"paSync", "fiError"}
          BY <3>2 DEF IInv, Data, Slots, PasteResults
        <4>2. rec \in OpRecord /\ rec.pc = pc /\ rec.card \in CardIds
          BY <3>2, <4>1, RecordOf, Names, EjectSteps DEF OpRecord, Unclaimed
        <4> QED
          BY <4>1, <4>2, Names, EjectSteps DEF Fits, StepFits, WaitSteps, FsckSteps
      <3> QED
        BY <2>2, <3>1, <3>2
    <2>4. "paLoad" \in OpenSteps
      BY DEF OpenSteps
    <2> QED
      BY <2>1, <2>2, <2>3, <2>4, LoadedStep
  <1> QED
    BY <1>1, <1>2

LEMMA StartPasteStep == IInv /\ StartPaste => IInv'
  <1> SUFFICES ASSUME IInv, StartPaste PROVE IInv'
    OBVIOUS
  <1> DEFINE c == vfs.clip
             out == vfs.secondary
  <1>1. /\ c \in CardIds /\ out \in CardIds \cup {None} /\ vfs.primary \in CardIds /\ Exists(c)
        /\ vfs \in Slots /\ "paste" \in Ops \ Launches /\ "browse" \in Ops \ {"paste"}
        /\ "paste" \in CardOps /\ owner \in [CardIds -> Owners]
    BY Names DEF StartPaste, IInv, Data, Slots, Exists, Status, Writers
  <1>2. CASE Die
    BY <1>2, DieStep
  <1>3. CASE (\E pc \in PasteResults : Begin("paste", pc, vfs.primary, None)) /\ OnlyMoves
    BY <1>1, <1>3, BeginStep, EjectSteps DEF PasteResults
  <1>4. CASE /\ ~InVfs(c) /\ owner[c] = "none" /\ (out # None => owner[out] = "vfs")
             /\ Begin("paste", "paLoad", c, None)
             /\ owner' = [d \in CardIds |->
                            IF d = c THEN "vfs" ELSE IF d = out THEN "none" ELSE owner[d]]
             /\ vfs' = [vfs EXCEPT !.secondary = None]
             /\ stale' = IF out = None THEN stale ELSE StaleWithout(out)
             /\ UNCHANGED <<disk, emu, session, fate>>
    <2> DEFINE rec == Started("paLoad", c, None)
    <2>1. op["paste"].pc = "idle" /\ Continue("paste", rec) /\ Ready
      BY <1>4 DEF Begin, Started
    <2>2. /\ StepFits("paste", "paLoad") /\ "paLoad" \in Steps \ {"idle", "fsStatus"}
          /\ "paLoad" \in OpenSteps \ FsckSteps /\ "idle" \notin FsckSteps
      BY DEF StepFits, Steps, DbSteps, WaitSteps, FsckSteps, OpenSteps
    <2>3. Fits("paste", rec) /\ rec.pc = "paLoad" /\ rec.card = c
      BY <1>1, <2>2, StartedFits
    <2> HIDE DEF rec
    <2>4. op["paste"].pc \in DbSteps => Head(dbq) = "paste"
      BY <2>1, IdleStep
    <2>5. op'["paste"] = rec /\ Moves("paste")
      BY <1>1, <1>4, <2>1, <2>3, <2>4, PlainStep DEF session
    <2>6. \A d \in CardIds : ~Opens("browse", d) /\ ~Opens("paste", d)
      BY <2>1, NothingOpens
    <2>7. \A d \in CardIds : ~Opens("browse", d)' /\ (Opens("paste", d)' <=> d = c)
      BY <1>1, <2>2, <2>3, <2>5, <2>6, NewRoles
    <2>8. /\ vfs' \in Slots /\ vfs'.primary = vfs.primary /\ vfs'.secondary = None
          /\ vfs'.clip = c
      BY <1>1, <1>4 DEF Slots
    <2>9. vfs.primary # out
      BY <1>1, NoneIsNoLaunch DEF IInv, Claims, SlotsOK
    <2>10. \A d \in CardIds : InVfs(d)' <=> InVfs(d) /\ d # out
      BY <2>8, <2>9, NoneIsNoLaunch DEF InVfs
    <2>11. PICK k \in CardIds : k = c
      BY <1>1
    <2>12. SlotsOK'
      BY <1>1, <1>4, <2>7, <2>8, <2>10, <2>11, NoneIsNoLaunch DEF SlotsOK
    <2>13. \A d \in CardIds : /\ owner'[d] = IF d = k THEN "vfs"
                                 ELSE IF d = out THEN "none" ELSE owner[d]
                              /\ owner[d] = "vfs" <=> InVfs(d)
      BY <1>4, <2>6, <2>11 DEF IInv, Claims, VfsClaims, Opened
    <2>14. VfsClaims'
      BY <2>7, <2>10, <2>11, <2>13 DEF VfsClaims, Opened
    <2>15. /\ owner' \in [CardIds -> Owners]
           /\ \A d \in CardIds : owner'[d] = "fstools" <=> owner[d] = "fstools"
           /\ \A d \in CardIds : owner'[d] # "none" => owner[d] # "none" \/ Exists(d)
      BY <1>1, <1>4, <2>11, <2>13, NoneIsNoLaunch DEF Owners
    <2>16. stale' \subseteq Holders \X CardIds
      BY <1>1, <1>4, ReleaseTypes DEF IInv, Data
    <2> QED
      BY <1>4, <2>1, <2>2, <2>3, <2>4, <2>8, <2>12, <2>14, <2>15, <2>16, VfsStep
  <1> QED
    BY <1>2, <1>3, <1>4 DEF StartPaste

-----------------------------------------------------------------------------
(***************************************************************************)
(* Every step keeps the invariant.                                         *)
(***************************************************************************)

LEMMA UserStep == IInv /\ User => IInv'
  <1> SUFFICES ASSUME IInv, User PROVE IInv'
    OBVIOUS
  <1>1. CASE \E o \in Ejects : StartEject(o)
    BY <1>1, StartEjectStep
  <1>2. CASE \E c \in CardIds : ActivateCard(c)
    BY <1>2, ActivateCardStep
  <1>3. CASE \E c \in CardIds : StartCheck(c) \/ StartInsert(c) \/ StartBrowse(c) \/ StartDelete(c)
    BY <1>3, StartCardStep
  <1>4. CASE \E s \in SessionIds, o \in Launches : StartLaunch(o, s)
    BY <1>4, StartLaunchStep
  <1>5. CASE \E s \in SessionIds : StartEdit(s) \/ StartDeleteSession(s)
    BY <1>5, StartSessionOpStep
  <1>6. CASE CopyToClipboard \/ StartFile \/ StartPaste
    BY <1>6, CopyToClipboardStep, StartFileStep, StartPasteStep
  <1> QED
    BY <1>1, <1>2, <1>3, <1>4, <1>5, <1>6 DEF User

LEMMA ProgressStep == IInv /\ Progress => IInv'
  <1> SUFFICES ASSUME IInv, Progress PROVE IInv'
    OBVIOUS
  <1>1. CASE \E o \in Ejectors : \/ AnswerAsk(o) \/ EjectGet(o) \/ EjectOther(o)
                                  \/ EjectPrepare(o) \/ EjectRemove(o)
    BY <1>1, AnswerAskStep, EjectGetStep, EjectOtherStep, EjectPrepareStep, EjectRemoveStep
  <1>2. CASE \E o \in Checkers : \/ CheckAndClaim(o) \/ LoaderShown(o) \/ FsckClaim(o)
                                  \/ FsckContext(o) \/ FsckLoad(o)
    BY <1>2, CheckAndClaimStep, LoaderShownStep, FsckClaimStep, FsckContextStep, FsckLoadStep
  <1>3. CASE \E o \in Checkers : \/ FsckStatus(o) \/ AnswerFix(o) \/ ApplyData(o)
                                  \/ ApplyStatus(o)
    BY <1>3, FsckStatusStep, AnswerFixStep, ApplyDataStep, ApplyStatusStep
  <1>4. CASE \/ DeleteRelease \/ DeleteCard \/ MountCheck \/ MountRelease \/ MountStatus
             \/ MountSession
    BY <1>4, DeleteReleaseStep, DeleteCardStep, MountCheckStep, MountReleaseStep, MountStatusStep,
       MountSessionStep
  <1>5. CASE \E o \in Loaders : LoadClaim(o) \/ LoadData(o)
    BY <1>5, LoadClaimStep, LoadDataStep
  <1>6. CASE RunChange \/ RunLaunch \/ ResetState \/ AnswerEdit \/ SaveEdit \/ DeleteSession
    BY <1>6, RunChangeStep, RunLaunchStep, ResetStateStep, SessionOpsStep
  <1>7. CASE \E o \in Launches : \/ Stop(o) \/ SwitchRead(o) \/ SwitchOpen(o)
                                  \/ SwitchUpdate(o)
    BY <1>7, StopStep, SwitchReadStep, SwitchOpenStep, SwitchUpdateStep
  <1>8. CASE BrowseClaim \/ BrowseLoad \/ FileSync \/ PasteLoad \/ PasteSync
    BY <1>8, BrowseClaimStep, BrowseLoadStep, SyncStep, PasteLoadStep
  <1>9. CASE \E o \in Writers : FileError(o)
    BY <1>9, FileErrorStep
  <1> QED
    BY <1>1, <1>2, <1>3, <1>4, <1>5, <1>6, <1>7, <1>8, <1>9 DEF Progress, Loaders

LEMMA StutterStep == IInv /\ UNCHANGED vars => IInv'
  <1> SUFFICES ASSUME IInv, UNCHANGED vars PROVE IInv'
    OBVIOUS
  <1>1. Running' /\ RolesSame /\ Waiters' = Waiters /\ MutexOK' /\ jobs' = jobs
    BY OpsSame DEF vars, session
  <1>2. UNCHANGED <<disk, copies, fate>> /\ current' \in Sessions
    BY DEF vars, session, IInv, Data
  <1>3. Data' /\ Claims'
    BY <1>1, <1>2, NothingClaimed
  <1> QED
    BY <1>1, <1>3 DEF IInv, JobsOK

\* The invariant holds whatever overlaps: no step is limited by how many operations are
\* under way.
THEOREM Invariant == Spec => []IInv
  <1>1. IInv /\ [Next]_vars => IInv'
    BY UserStep, ProgressStep, SnapshotStep, ReloadStep, StutterStep DEF Next
  <1> QED
    BY <1>1, IInvInit, PTL DEF Spec

-----------------------------------------------------------------------------
(***************************************************************************)
(* What follows from it.                                                   *)
(***************************************************************************)

\* The records on disk, the slots of the VFS, the image the emulator holds, the jobs for
\* the mutex and the operations under way always have their types, and IndexedDB's queue
\* lists each operation that waits for a transaction exactly once.
THEOREM TypeCorrect == Spec => []TypeOK
  <1>1. IInv => TypeOK
    <2> SUFFICES ASSUME IInv PROVE TypeOK
      OBVIOUS
    <2>1. /\ disk \in Disk /\ owner \in [CardIds -> Owners] /\ emu \in Images /\ vfs \in Slots
          /\ stale \subseteq Holders \X CardIds /\ current \in Sessions
          /\ stuck \subseteq CardIds /\ lost \subseteq CardIds /\ fatal \in BOOLEAN
          /\ overlap \in {"none", "ops", "rewrite"}
      BY DEF IInv, Data, Running
    <2>2. mutex \in Launches \cup {None} /\ jobs \in Seq(JobRecord)
      BY DEF IInv, MutexOK, JobsOK, JobsFor
    <2>3. op \in [Ops -> OpRecord] /\ dbq \in Seq(Ops)
      BY DEF IInv, Running, OpsOK, QueueOK
    <2>4. /\ {dbq[i] : i \in DOMAIN dbq} = {o \in Ops : op[o].pc \in DbSteps}
          /\ \A i, j \in DOMAIN dbq : dbq[i] = dbq[j] => i = j
      BY DEF IInv, Running, QueueOK, Lists, InDb
    <2> QED
      BY <2>1, <2>2, <2>3, <2>4
      DEF TypeOK, Disk, Images, Slots, Holders, Sessions, JobRecord, OpRecord, Steps
  <1> QED
    BY <1>1, Invariant, PTL

\* The operations never wait for each other in a circle, whatever overlaps: an operation
\* that awaits a transaction is in IndexedDB's queue, a launch that awaits the emulation
\* mutex has its job there, and the launch that holds the mutex awaits a transaction or
\* something outside, never the mutex.
THEOREM NobodyWaits == Spec => []NobodyWaitsForEver
  <1>1. IInv => NobodyWaitsForEver
    <2> SUFFICES ASSUME IInv, NEW o \in Ops, op[o].pc # "idle", dbq = <<>>,
                        \A p \in Active : op[p].pc \notin FreeSteps \ WaitSteps
                 PROVE  mutex = None /\ jobs # <<>>
      BY DEF NobodyWaitsForEver, Active, WaitSteps
    <2>1. \A p \in Ops : op[p].pc \notin DbSteps /\ op[p].pc \in Steps
      BY DEF IInv, Running, OpsOK, QueueOK, Lists, InDb, OpRecord
    <2>2. \A p \in Ops : op[p].pc \in WaitSteps \cup {"idle"}
      BY <2>1 DEF Active, Steps
    <2>3. o \in Waiters
      BY <2>2 DEF IInv, Running, OpsOK, Fits, StepFits, Waiters
    <2>4. jobs # <<>>
      BY <2>3 DEF IInv, JobsOK, JobsFor
    <2>5. mutex = None
      BY <2>2, Names DEF IInv, MutexOK, MutexSteps, WaitSteps
    <2> QED
      BY <2>4, <2>5
  <1> QED
    BY <1>1, Invariant, PTL

\* Of launch and reset at most one is past the emulation mutex: no two operations stop,
\* load and open sessions at once.
OneLaunch ==
    \A o, p \in Launches : op[o].pc \in MutexSteps /\ op[p].pc \in MutexSteps => o = p

THEOREM MutexExcludes == Spec => []OneLaunch
  <1>1. IInv => OneLaunch
    BY DEF IInv, MutexOK, OneLaunch
  <1> QED
    BY <1>1, Invariant, PTL

\* The assertions of StorageCardContext that never fail, whatever overlaps: releaseCard of
\* VfsService finds each card in a slot owned by "vfs"; fsck finds its card owned by
\* "fstools" at each step from the claim to the release; mountCardUnchecked and
\* mountClipboard find theirs owned by "vfs" when the image is there.
AssertionsHold ==
    /\ \A c \in CardIds : ReleaseOk(c)
    /\ \A o \in Checkers : op[o].pc \in FsckSteps => owner[op[o].card] = "fstools"
    /\ \A o \in {"browse", "paste"} : op[o].pc \in OpenSteps => owner[op[o].card] = "vfs"

THEOREM ClaimsStand == Spec => []AssertionsHold
  <1>1. IInv => AssertionsHold
    <2> SUFFICES ASSUME IInv PROVE AssertionsHold
      OBVIOUS
    <2>1. \A c \in CardIds : ReleaseOk(c)
      BY DEF IInv, Claims, VfsClaims, ReleaseOk
    <2>2. ASSUME NEW o \in Checkers, op[o].pc \in FsckSteps
          PROVE  owner[op[o].card] = "fstools"
      <3>1. op[o].card \in CardIds
        BY <2>2, CardOf, Names DEF FsckSteps
      <3> QED
        BY <2>2, <3>1 DEF IInv, Claims, FsckClaims, Checks
    <2>3. ASSUME NEW o \in {"browse", "paste"}, op[o].pc \in OpenSteps
          PROVE  owner[op[o].card] = "vfs"
      <3>1. op[o].card \in CardIds
        BY <2>3, CardOf DEF OpenSteps, CardOps, Writers
      <3> QED
        BY <2>3, <3>1 DEF IInv, Claims, VfsClaims, Opened, Opens
    <2> QED
      BY <2>1, <2>2, <2>3 DEF AssertionsHold
  <1> QED
    BY <1>1, Invariant, PTL

\* A card is in one place at most: in a slot of the VFS, on its way into one, or with one
\* check of fstools. Whatever overlaps, no two of them work on copies they own.
Users(c) ==
    {o \in Ops : Checks(o, c) \/ Opens(o, c)} \cup {u \in {"slot"} : InVfs(c)}
OneUser == \A c \in CardIds : \A u, v \in Users(c) : u = v

THEOREM OneUserPerCard == Spec => []OneUser
  <1>1. IInv => OneUser
    <2> SUFFICES ASSUME IInv, NEW c \in CardIds, NEW u \in Users(c), NEW v \in Users(c)
                 PROVE  u = v
      BY DEF OneUser
    <2>1. \A o \in Ops : /\ Checks(o, c) => o \in Checkers /\ owner[c] = "fstools"
                         /\ Opens(o, c) => o \in {"browse", "paste"} /\ owner[c] = "vfs"
      <3>1. ASSUME NEW o \in Ops, Checks(o, c) PROVE o \in Checkers /\ owner[c] = "fstools"
        <4>1. o \in Checkers
          BY <3>1 DEF Checks, IInv, Running, OpsOK, Fits, StepFits
        <4> QED
          BY <3>1, <4>1 DEF IInv, Claims, FsckClaims
      <3>2. ASSUME NEW o \in Ops, Opens(o, c)
            PROVE  o \in {"browse", "paste"} /\ owner[c] = "vfs"
        <4>1. o \in {"browse", "paste"}
          BY <3>2 DEF Opens, OpenSteps, IInv, Running, OpsOK, Fits, StepFits
        <4> QED
          BY <3>2, <4>1 DEF IInv, Claims, VfsClaims, Opened
      <3> QED
        BY <3>1, <3>2
    <2>2. InVfs(c) => owner[c] = "vfs" /\ ~Opens("browse", c) /\ ~Opens("paste", c)
      BY DEF IInv, Claims, VfsClaims, SlotsOK
    <2>3. ~(Opens("browse", c) /\ Opens("paste", c))
      BY DEF IInv, Claims, SlotsOK
    <2>4. \A o, p \in Checkers : Checks(o, c) /\ Checks(p, c) => o = p
      BY DEF IInv, Claims, FsckClaims
    <2> QED
      BY <2>1, <2>2, <2>3, <2>4 DEF Users
  <1> QED
    BY <1>1, Invariant, PTL

\* A card somebody owns has its record: deleteCard goes through only for a card that the
\* emulator, fstools and the VFS have let go of, and none of them claims a card that was
\* deleted after it was looked up, however the deletion and the claim overlap.
THEOREM OwnedCardsExist == Spec => []OwnedExist
  <1>1. IInv => OwnedExist
    BY DEF IInv, Claims
  <1> QED
    BY <1>1, Invariant, PTL
=============================================================================
