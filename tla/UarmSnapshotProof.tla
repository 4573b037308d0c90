-------------------------- MODULE UarmSnapshotProof --------------------------
(***************************************************************************)
(* Theorems about UarmSnapshot, for any number of pages, contents and       *)
(* messages under way.                                                      *)
(***************************************************************************)
EXTENDS UarmSnapshot, TLAPS

-----------------------------------------------------------------------------
(***************************************************************************)
(* Queues: what is in a queue, at most once, and what stands behind what.   *)
(***************************************************************************)
Some(q, S) == \E i \in 1 .. Len(q) : q[i] \in S
AtMostOne(q, S) == \A i, j \in 1 .. Len(q) : q[i] \in S /\ q[j] \in S => i = j
Behind(q, S, T) == \E i, j \in 1 .. Len(q) : i < j /\ q[i] \in S /\ q[j] \in T

\* Nothing is in the empty queue.
LEMMA QueueEmpty ==
    ASSUME NEW S, NEW T
    PROVE  ~Some(<<>>, S) /\ AtMostOne(<<>>, S) /\ ~Behind(<<>>, S, T)
BY DEF Some, AtMostOne, Behind

\* What a message that is sent adds to a queue.
LEMMA QueueAppend ==
    ASSUME NEW A, NEW q \in Seq(A), NEW m \in A
    PROVE  /\ Append(q, m) \in Seq(A)
           /\ \A S : Some(Append(q, m), S) <=> Some(q, S) \/ m \in S
           /\ \A S : AtMostOne(q, S) /\ (m \in S => ~Some(q, S)) => AtMostOne(Append(q, m), S)
           /\ \A S, T : ~Behind(q, S, T) /\ (m \in T => ~Some(q, S)) => ~Behind(Append(q, m), S, T)
<1> DEFINE r == Append(q, m)
           n == Len(q)
<1>1. /\ r \in Seq(A) /\ Len(r) = n + 1 /\ n \in Nat /\ r[n + 1] = m
      /\ \A i \in 1 .. n : r[i] = q[i]
  OBVIOUS
<1> HIDE DEF r
<1>2. \A i \in 1 .. n + 1 : i \in 1 .. n \/ i = n + 1
  BY <1>1
<1>3. \A i \in 1 .. n : i \in 1 .. n + 1
  BY <1>1
<1>4. n + 1 \in 1 .. n + 1 /\ \A i \in 1 .. n + 1 : ~(n + 1 < i)
  BY <1>1
<1>5. \A S : Some(r, S) <=> Some(q, S) \/ m \in S
  BY <1>1, <1>2, <1>3, <1>4 DEF Some
<1>6. ASSUME NEW S, AtMostOne(q, S), m \in S => ~Some(q, S)
      PROVE  AtMostOne(r, S)
  BY <1>1, <1>2, <1>6 DEF AtMostOne, Some
<1>7. ASSUME NEW S, NEW T, ~Behind(q, S, T), m \in T => ~Some(q, S)
      PROVE  ~Behind(r, S, T)
  BY <1>1, <1>2, <1>4, <1>7 DEF Behind, Some
<1> QED
  BY <1>1, <1>5, <1>6, <1>7 DEF r

\* What a message that is received takes from a queue.
LEMMA QueueTail ==
    ASSUME NEW A, NEW q \in Seq(A), q # <<>>
    PROVE  /\ Tail(q) \in Seq(A) /\ Head(q) \in A
           /\ \A S : Some(q, S) <=> Head(q) \in S \/ Some(Tail(q), S)
           /\ \A S : AtMostOne(q, S) =>
                AtMostOne(Tail(q), S) /\ (Head(q) \in S => ~Some(Tail(q), S))
           /\ \A S, T : ~Behind(q, S, T) =>
                ~Behind(Tail(q), S, T) /\ (Head(q) \in S => ~Some(Tail(q), T))
<1> DEFINE r == Tail(q)
           h == Head(q)
           n == Len(r)
<1>1. /\ r \in Seq(A) /\ h \in A /\ Len(q) = n + 1 /\ n \in Nat /\ q[1] = h
      /\ \A i \in 1 .. n : r[i] = q[i + 1]
  OBVIOUS
<1> HIDE DEF r, h
<1>2. \A i \in 1 .. n + 1 : i = 1 \/ (i - 1 \in 1 .. n /\ i = (i - 1) + 1)
  BY <1>1
<1>3. /\ 1 \in 1 .. n + 1
      /\ \A i \in 1 .. n : i + 1 \in 1 .. n + 1 /\ i + 1 # 1 /\ 1 < i + 1
      /\ \A i, j \in 1 .. n : (i + 1 = j + 1 => i = j) /\ (i < j => i + 1 < j + 1)
  BY <1>1
<1>4. \A S : Some(q, S) <=> h \in S \/ Some(r, S)
  <2> SUFFICES ASSUME NEW S PROVE Some(q, S) <=> h \in S \/ Some(r, S)
    OBVIOUS
  <2>1. ASSUME Some(q, S) PROVE h \in S \/ Some(r, S)
    <3>1. PICK i \in 1 .. n + 1 : q[i] \in S
      BY <1>1, <2>1 DEF Some
    <3>2. CASE i = 1
      BY <1>1, <3>1, <3>2
    <3>3. CASE i # 1
      <4>1. i - 1 \in 1 .. n /\ r[i - 1] = q[i]
        BY <1>1, <1>2, <3>3
      <4> QED
        BY <3>1, <4>1 DEF Some
    <3> QED
      BY <3>2, <3>3
  <2>2. ASSUME h \in S PROVE Some(q, S)
    BY <1>1, <1>3, <2>2 DEF Some
  <2>3. ASSUME Some(r, S) PROVE Some(q, S)
    BY <1>1, <1>3, <2>3 DEF Some
  <2> QED
    BY <2>1, <2>2, <2>3
<1>5. ASSUME NEW S, AtMostOne(q, S)
      PROVE  AtMostOne(r, S) /\ (h \in S => ~Some(r, S))
  <2>1. ASSUME NEW i \in 1 .. n, NEW j \in 1 .. n, r[i] \in S, r[j] \in S PROVE i = j
    <3>1. q[i + 1] \in S /\ q[j + 1] \in S /\ i + 1 \in 1 .. Len(q) /\ j + 1 \in 1 .. Len(q)
      BY <1>1, <1>3, <2>1
    <3>2. i + 1 = j + 1
      BY <1>5, <3>1 DEF AtMostOne
    <3> QED
      BY <1>3, <3>2
  <2>2. ASSUME h \in S, NEW i \in 1 .. n, r[i] \in S PROVE FALSE
    <3>1. q[i + 1] \in S /\ i + 1 \in 1 .. Len(q) /\ 1 \in 1 .. Len(q) /\ q[1] \in S /\ i + 1 # 1
      BY <1>1, <1>3, <2>2
    <3> QED
      BY <1>5, <3>1 DEF AtMostOne
  <2> QED
    BY <2>1, <2>2 DEF AtMostOne, Some
<1>6. ASSUME NEW S, NEW T, ~Behind(q, S, T)
      PROVE  ~Behind(r, S, T) /\ (h \in S => ~Some(r, T))
  <2>1. ASSUME NEW i \in 1 .. n, NEW j \in 1 .. n, i < j, r[i] \in S, r[j] \in T PROVE FALSE
    <3>1. /\ q[i + 1] \in S /\ q[j + 1] \in T /\ i + 1 \in 1 .. Len(q) /\ j + 1 \in 1 .. Len(q)
          /\ i + 1 < j + 1
      BY <1>1, <1>3, <2>1
    <3> QED
      BY <1>6, <3>1 DEF Behind
  <2>2. ASSUME h \in S, NEW j \in 1 .. n, r[j] \in T PROVE FALSE
    <3>1. q[j + 1] \in T /\ j + 1 \in 1 .. Len(q) /\ 1 \in 1 .. Len(q) /\ q[1] \in S /\ 1 < j + 1
      BY <1>1, <1>3, <2>2
    <3> QED
      BY <1>6, <3>1 DEF Behind
  <2> QED
    BY <2>1, <2>2 DEF Behind, Some
<1> QED
  BY <1>1, <1>4, <1>5, <1>6 DEF r, h

\* A queue that has nothing of a set has nothing of its subsets either.
LEMMA QueueSubset ==
    ASSUME NEW q, NEW S, NEW T, S \subseteq T
    PROVE  /\ Some(q, S) => Some(q, T)
           /\ AtMostOne(q, T) => AtMostOne(q, S)
BY DEF Some, AtMostOne

-----------------------------------------------------------------------------
(***************************************************************************)
(* The inductive invariant.                                                 *)
(***************************************************************************)
StartMsgs == {Posts("start")}
StopMsgs == {Posts("stop")}
StoppedMsgs == {Posts("stopped")}
DoneMsgs == [type : {"snapshotDone"}, success : BOOLEAN]
SavedMsgs == [type : {"snapshotDone"}, success : {TRUE}]
SnapMsgs == [type : {"snapshot"}, pages : SUBSET Pages, image : [Pages -> Vals]]
SnapTxs == [op : {"snap"}, pages : SUBSET Pages, image : [Pages -> Vals], live : BOOLEAN]
LiveTxs == [op : {"snap"}, pages : SUBSET Pages, image : [Pages -> Vals], live : {TRUE}]
Calls == {Call}
Users == {"user"}

\* The regions that restart() hands to the worker as they are on disk: RAM always, the
\* other two if the only image that is ever replaced is their own.
Reliable ==
    Ram \cup (IF MaxWaiting <= 1 /\ Uploads \subseteq {"nand"} THEN Nand ELSE {})
        \cup (IF MaxWaiting <= 1 /\ Uploads \subseteq {"sd"} THEN Sd ELSE {})

Scalars ==
    /\ mem \in [Pages -> Vals] /\ disk \in [Pages -> Vals] /\ file \in [Nand \cup Sd -> Vals]
    /\ dirty \in SUBSET Pages /\ scheduled \in SUBSET Pages
    /\ loop \in BOOLEAN /\ pending \in BOOLEAN /\ stopPending \in BOOLEAN /\ dead \in BOOLEAN
    /\ alive \in BOOLEAN /\ held \in BOOLEAN /\ hidden \in BOOLEAN /\ stuck \in BOOLEAN
    /\ stopPending => pending
    /\ stopper \in {None, "hide", "user"}
    /\ op \in Places /\ what \in {"export"} \cup Uploads
    /\ seen = None \/ seen \in [Ram -> Vals]

ToWorker == StartMsgs \cup StopMsgs \cup DoneMsgs
ToPage == StoppedMsgs \cup SnapMsgs
Txs == Calls \cup SnapTxs

Shapes ==
    /\ inbox \in Seq(ToWorker)
    /\ outbox \in Seq(ToPage)
    /\ waiting \in Seq({"hide", "user"}) /\ Len(waiting) <= MaxWaiting
    /\ txq \in Seq(Txs)
    /\ crc = [r \in Regions |-> crc[r]]
    /\ \A r \in Regions : crc[r] = None \/ crc[r] \in [r -> Vals]

\* An export or upload is in one place: it waits for stop(), or for the one transaction
\* it has opened. A worker that is terminated gets and sends nothing.
CallFlow ==
    /\ Some(txq, Calls) => op \in {"ram", "nand", "put", "put2", "put3", "restart"}
    /\ AtMostOne(txq, Calls)
    /\ op \in {"put", "put2", "put3", "restart"} => what # "export"
    /\ op \in {"put2", "put3"} => what = "session"
    /\ stopper = "user" \/ Some(waiting, Users) => op = "stopping"
    /\ stopper = "user" => ~Some(waiting, Users)
    /\ stopper = None => waiting = <<>>
    /\ op = "restart" => ~alive
    /\ ~alive =>
         /\ op \in {"restart", "lost", "idle", "stopping"}
         /\ inbox = <<>> /\ outbox = <<>> /\ ~loop
         /\ ~Some(txq, LiveTxs) /\ ~Behind(txq, Calls, SnapTxs)

\* The snapshot under way is in one place, and its pages are the scheduled ones.
Copies(m) == m.pages = scheduled /\ \A p \in scheduled \ dirty : m.image[p] = mem[p]

Flight ==
    alive =>
      /\ ~Some(txq, SnapTxs \ LiveTxs)
      /\ AtMostOne(outbox, SnapMsgs) /\ AtMostOne(txq, SnapTxs) /\ AtMostOne(inbox, DoneMsgs)
      /\ ~(Some(outbox, SnapMsgs) /\ Some(txq, SnapTxs))
      /\ ~(Some(outbox, SnapMsgs) /\ Some(inbox, DoneMsgs))
      /\ ~(Some(txq, SnapTxs) /\ Some(inbox, DoneMsgs))
      /\ Some(outbox, SnapMsgs) \/ Some(txq, SnapTxs) \/ Some(inbox, DoneMsgs) => pending
      /\ ~pending => scheduled = {}
      /\ ~Some(outbox, {m \in SnapMsgs : ~Copies(m)}) /\ ~Some(txq, {m \in SnapTxs : ~Copies(m)})

\* The places in which the disk has not been changed by an upload.
Untouched == {"idle", "stopping", "ram", "nand", "put"}

\* WritesKept, for the regions on which it can be relied, and what a snapshot that has
\* been stored makes sure of.
Kept ==
    /\ alive /\ op \in Untouched =>
         /\ \A p \in Reliable : mem[p] # disk[p] => p \in dirty \cup scheduled
         /\ Some(inbox, SavedMsgs) => \A p \in Reliable : mem[p] # disk[p] => p \in dirty
    /\ op = "restart" => \A p \in Reliable \ Ram : file[p] = disk[p]

\* At most one stop is under way, and the one of the user comes last: nothing starts the
\* machine behind it.
Stops ==
    /\ AtMostOne(inbox, StopMsgs) /\ AtMostOne(outbox, StoppedMsgs)
    /\ ~(Some(inbox, StopMsgs) /\ stopPending)
    /\ ~(Some(inbox, StopMsgs) /\ Some(outbox, StoppedMsgs))
    /\ ~(stopPending /\ Some(outbox, StoppedMsgs) /\ alive)
    /\ Some(inbox, StopMsgs) \/ (stopPending /\ alive) \/ Some(outbox, StoppedMsgs) => stopper # None
    /\ stopper = "user" => held /\ waiting = <<>> /\ ~Behind(inbox, StopMsgs, StartMsgs)
    /\ Some(waiting, Users) => held
    /\ stopper = "user" /\ alive /\ (stopPending \/ Some(outbox, StoppedMsgs)) =>
         ~loop /\ ~Some(inbox, StartMsgs)
    /\ stopper = "user" /\ Some(outbox, StoppedMsgs) => ~pending

\* After stop() the machine stands still until the export or upload is over.
Quiet ==
    /\ alive /\ op \in {"ram", "nand", "put", "put2", "put3", "lost"} =>
         held /\ ~loop /\ ~pending /\ ~Some(inbox, StartMsgs)
    /\ ~alive => ~Some(txq, SnapTxs)

\* What a snapshot leaves out is on disk already.
Complete(m) == \A p \in Reliable \ m.pages : m.image[p] = disk[p]

Checksums ==
    /\ ~Some(outbox, {m \in SnapMsgs : ~Complete(m)}) /\ ~Some(txq, {m \in SnapTxs : ~Complete(m)})
    /\ \A r \in Regions : r \subseteq Reliable => ChecksumValid(r)

IInv ==
    /\ Scalars /\ Shapes /\ CallFlow /\ Flight /\ Kept
    /\ MaxWaiting <= 1 => Stops /\ Quiet /\ Checksums

-----------------------------------------------------------------------------
(***************************************************************************)
(* Facts about messages and regions.                                        *)
(***************************************************************************)

\* The messages and transactions differ by their kind.
LEMMA Kinds ==
    /\ Posts("start") \in ToWorker /\ Posts("stop") \in ToWorker
    /\ Posts("start") \notin StopMsgs /\ Posts("start") \notin DoneMsgs
    /\ Posts("stop") \notin StartMsgs /\ Posts("stop") \notin DoneMsgs
    /\ Posts("stopped") \in ToPage /\ Posts("stopped") \notin SnapMsgs
    /\ Call \in Txs /\ Call \notin SnapTxs
    /\ SavedMsgs \subseteq DoneMsgs /\ LiveTxs \subseteq SnapTxs
BY DEF Posts, Call, ToWorker, ToPage, Txs, StartMsgs, StopMsgs, StoppedMsgs, DoneMsgs, SavedMsgs,
       SnapMsgs, Calls, SnapTxs, LiveTxs

\* A message to the worker by its type.
LEMMA ToWorkerKinds ==
    ASSUME NEW m \in ToWorker
    PROVE  /\ m.type = "start" <=> m \in StartMsgs
           /\ m.type = "stop" <=> m \in StopMsgs
           /\ m.type = "snapshotDone" <=> m \in DoneMsgs
           /\ m \in DoneMsgs => m.success \in BOOLEAN /\ (m.success <=> m \in SavedMsgs)
<1>1. /\ m.type = "start" <=> m \in StartMsgs
      /\ m.type = "stop" <=> m \in StopMsgs
      /\ m.type = "snapshotDone" <=> m \in DoneMsgs
  BY DEF Posts, ToWorker, StartMsgs, StopMsgs, DoneMsgs
<1>2. m \in DoneMsgs => m.success \in BOOLEAN /\ (m.success = TRUE <=> m \in SavedMsgs)
  BY DEF DoneMsgs, SavedMsgs
<1>3. m \in DoneMsgs => (m.success <=> m \in SavedMsgs)
  BY <1>2, Zenon
<1> QED
  BY <1>1, <1>2, <1>3, Zenon

\* A message from the worker by its type.
LEMMA ToPageKinds ==
    ASSUME NEW m \in ToPage
    PROVE  /\ m.type = "stopped" <=> m \in StoppedMsgs
           /\ m.type = "snapshot" <=> m \in SnapMsgs
           /\ m \notin StoppedMsgs \/ m \notin SnapMsgs
BY DEF Posts, ToPage, StoppedMsgs, SnapMsgs

\* A transaction by its kind.
LEMMA TxKinds ==
    ASSUME NEW m \in Txs
    PROVE  /\ m.op = "call" <=> m \in Calls
           /\ m.op = "snap" <=> m \in SnapTxs
           /\ m \notin Calls \/ m \notin SnapTxs
           /\ m \in SnapTxs => m.live \in BOOLEAN /\ (m.live <=> m \in LiveTxs)
<1>1. /\ m.op = "call" <=> m \in Calls
      /\ m.op = "snap" <=> m \in SnapTxs
      /\ m \notin Calls \/ m \notin SnapTxs
  BY DEF Call, Txs, Calls, SnapTxs
<1>2. m \in SnapTxs => m.live \in BOOLEAN /\ (m.live = TRUE <=> m \in LiveTxs)
  BY DEF SnapTxs, LiveTxs
<1>3. m \in SnapTxs => (m.live <=> m \in LiveTxs)
  BY <1>2, Zenon
<1> QED
  BY <1>1, <1>2, <1>3, Zenon

\* The pages that can be relied on are pages.
LEMMA ReliablePages == Reliable \subseteq Pages /\ Ram \subseteq Reliable
BY DEF Reliable, Pages

\* A snapshot has the shape of a message.
LEMMA TakeSnapshotType == Scalars => TakeSnapshot \in SnapMsgs
BY DEF Scalars, TakeSnapshot, SnapMsgs

-----------------------------------------------------------------------------
(***************************************************************************)
(* worker.js                                                                *)
(***************************************************************************)

LEMMA CycleStep == IInv /\ Cycle => IInv'
<1> SUFFICES ASSUME IInv, Cycle PROVE IInv'
  OBVIOUS
<1> USE DEF IInv
<1>1. PICK p \in Pages, v \in Vals :
        v # mem[p] /\ mem' = [mem EXCEPT ![p] = v] /\ dirty' = dirty \cup {p}
  BY DEF Cycle
<1>2. alive /\ loop /\ UNCHANGED <<scheduled, loop, pending, stopPending, dead, alive, inbox, outbox,
        stopper, waiting, op, what, seen, held, hidden, file, disk, crc, txq, stuck>>
  BY DEF Cycle, calls, page, storage
<1>3. Scalars'
  BY <1>1, <1>2 DEF Scalars
<1>4. Shapes'
  BY <1>2 DEF Shapes
<1>5. CallFlow'
  BY <1>2 DEF CallFlow
<1>6. \A m : Copies(m) => Copies(m)'
  BY <1>1, <1>2 DEF Copies, Scalars
<1>7. Flight'
  <2>1. /\ {m \in SnapMsgs : ~Copies(m)}' \subseteq {m \in SnapMsgs : ~Copies(m)}
        /\ {m \in SnapTxs : ~Copies(m)}' \subseteq {m \in SnapTxs : ~Copies(m)}
    BY <1>6
  <2>2. /\ ~Some(outbox, {m \in SnapMsgs : ~Copies(m)}')
        /\ ~Some(txq, {m \in SnapTxs : ~Copies(m)}')
    BY <1>2, <2>1, QueueSubset DEF Flight
  <2> QED
    BY <1>2, <2>2 DEF Flight
<1>8. Kept'
  BY <1>1, <1>2, ReliablePages DEF Kept, Scalars
<1>9. MaxWaiting <= 1 => Stops' /\ Quiet' /\ Checksums'
  BY <1>2 DEF Stops, Quiet, Checksums, Complete, ChecksumValid, Checksum
<1> QED
  BY <1>3, <1>4, <1>5, <1>7, <1>8, <1>9

\* Without a snapshot under way there is nothing of one anywhere.
LEMMA NotPending ==
    ASSUME Flight, alive, ~pending
    PROVE  /\ ~Some(outbox, SnapMsgs) /\ ~Some(txq, SnapTxs) /\ ~Some(inbox, DoneMsgs)
           /\ scheduled = {}
BY DEF Flight

LEMMA TriggerSnapshotStep == IInv /\ TriggerSnapshot => IInv'
<1> SUFFICES ASSUME IInv, TriggerSnapshot PROVE IInv'
  OBVIOUS
<1> USE DEF IInv
<1>0. PICK t : t = TakeSnapshot
  OBVIOUS
<1> DEFINE Bad(S) == {m \in S : ~Copies(m)}
           Partial(S) == {m \in S : ~Complete(m)}
<1>1. /\ alive /\ loop /\ ~pending /\ outbox' = Append(outbox, t)
      /\ scheduled' = dirty /\ dirty' = {} /\ pending' = TRUE
      /\ UNCHANGED <<mem, loop, stopPending, dead, alive, inbox, stopper, waiting, op, what, seen,
                     held, hidden, file, disk, crc, txq, stuck>>
  BY <1>0 DEF TriggerSnapshot, calls, page, storage
<1>2. ~Some(outbox, SnapMsgs) /\ ~Some(txq, SnapTxs) /\ ~Some(inbox, DoneMsgs) /\ scheduled = {}
  BY <1>1, NotPending
<1>3. t \in SnapMsgs /\ t \in ToPage /\ t \notin StoppedMsgs /\ t.pages = dirty /\ t.image = mem
  BY <1>0, TakeSnapshotType, ToPageKinds DEF ToPage, TakeSnapshot
<1>4. /\ outbox' \in Seq(ToPage)
      /\ \A S : Some(outbox', S) <=> Some(outbox, S) \/ t \in S
      /\ \A S : AtMostOne(outbox, S) /\ (t \in S => ~Some(outbox, S)) => AtMostOne(outbox', S)
  BY <1>1, <1>3, QueueAppend DEF Shapes
<1>5. Scalars'
  BY <1>1 DEF Scalars
<1>6. Shapes'
  BY <1>1, <1>4 DEF Shapes
<1>7. CallFlow'
  BY <1>1 DEF CallFlow
<1>8. Flight'
  <2>1. Copies(t)'
    BY <1>1, <1>3 DEF Copies
  <2>2. ~Some(outbox, Bad(SnapMsgs)') /\ ~Some(txq, Bad(SnapTxs)')
    <3>1. Bad(SnapMsgs)' \subseteq SnapMsgs /\ Bad(SnapTxs)' \subseteq SnapTxs
      OBVIOUS
    <3> HIDE DEF Bad
    <3> QED
      BY <1>2, <3>1, QueueSubset
  <2>3. ~Some(outbox', Bad(SnapMsgs)')
    BY <1>4, <2>1, <2>2
  <2>4. AtMostOne(outbox', SnapMsgs)
    BY <1>1, <1>2, <1>4 DEF Flight
  <2> QED
    BY <1>1, <1>2, <2>2, <2>3, <2>4 DEF Flight
<1>9. Kept'
  <2>1. ~Some(inbox, SavedMsgs)
    BY <1>2, QueueSubset, Kinds
  <2> QED
    BY <1>1, <1>2, <2>1 DEF Kept
<1>10. ASSUME MaxWaiting <= 1 PROVE Stops' /\ Quiet' /\ Checksums'
  <2>1. op \in Untouched
    BY <1>1, <1>10 DEF Quiet, Scalars, Places, Untouched, CallFlow
  <2>2. Some(outbox', StoppedMsgs) <=> Some(outbox, StoppedMsgs)
    BY <1>3, <1>4
  <2>3. AtMostOne(outbox', StoppedMsgs)
    BY <1>3, <1>4, <1>10 DEF Stops
  <2>4. Stops'
    BY <1>1, <1>10, <2>2, <2>3 DEF Stops
  <2>5. Quiet'
    BY <1>1, <1>10 DEF Quiet
  <2>6. Complete(t)
    BY <1>1, <1>2, <1>3, <2>1 DEF Complete, Kept
  <2>7. Partial(SnapMsgs)' = Partial(SnapMsgs) /\ Partial(SnapTxs)' = Partial(SnapTxs)
    BY <1>1 DEF Complete
  <2>8. ~Some(outbox', Partial(SnapMsgs)') /\ ~Some(txq', Partial(SnapTxs)')
    BY <1>1, <1>4, <1>10, <2>6, <2>7 DEF Checksums
  <2> QED
    BY <1>1, <1>10, <2>4, <2>5, <2>8 DEF Checksums, ChecksumValid, Checksum
<1> QED
  BY <1>5, <1>6, <1>7, <1>8, <1>9, <1>10

LEMMA DieStep == IInv /\ Die => IInv'
<1> SUFFICES ASSUME IInv, Die PROVE IInv'
  OBVIOUS
<1> USE DEF IInv
<1>1. /\ dead' = TRUE /\ loop' = FALSE
      /\ UNCHANGED <<mem, dirty, scheduled, pending, stopPending, alive, inbox, outbox, stopper,
                     waiting, op, what, seen, held, hidden, file, disk, crc, txq, stuck>>
  BY DEF Die, calls, page, storage
<1>2. Scalars'
  BY <1>1 DEF Scalars
<1>3. Shapes'
  BY <1>1 DEF Shapes
<1>4. CallFlow'
  BY <1>1 DEF CallFlow
<1>5. Flight'
  BY <1>1 DEF Flight, Copies
<1>6. Kept'
  BY <1>1 DEF Kept
<1>7. MaxWaiting <= 1 => Stops' /\ Quiet' /\ Checksums'
  BY <1>1 DEF Stops, Quiet, Checksums, Complete, ChecksumValid, Checksum
<1> QED
  BY <1>2, <1>3, <1>4, <1>5, <1>6, <1>7

\* The worker takes a message.
LEMMA ReceiveStep ==
    ASSUME IInv, NEW type, Receive(type)
    PROVE  /\ alive /\ inbox' = Tail(inbox) /\ inbox' \in Seq(ToWorker) /\ inbox # <<>>
           /\ Head(inbox) \in ToWorker /\ Head(inbox).type = type
           /\ \A S : Some(inbox, S) <=> Head(inbox) \in S \/ Some(inbox', S)
           /\ \A S : AtMostOne(inbox, S) =>
                AtMostOne(inbox', S) /\ (Head(inbox) \in S => ~Some(inbox', S))
           /\ \A S, T : ~Behind(inbox, S, T) =>
                ~Behind(inbox', S, T) /\ (Head(inbox) \in S => ~Some(inbox', T))
<1>1. alive /\ inbox # <<>> /\ inbox' = Tail(inbox) /\ Head(inbox).type = type
      /\ inbox \in Seq(ToWorker)
  BY DEF Receive, IInv, Shapes
<1> QED
  BY <1>1, QueueTail

LEMMA WorkerStartStep == IInv /\ WorkerStart => IInv'
<1> SUFFICES ASSUME IInv, WorkerStart PROVE IInv'
  OBVIOUS
<1> USE DEF IInv
<1>1. /\ loop' = (loop \/ ~dead)
      /\ UNCHANGED <<mem, dirty, scheduled, pending, stopPending, dead, alive, outbox, stopper,
                     waiting, op, what, seen, held, hidden, file, disk, crc, txq, stuck>>
  BY DEF WorkerStart, calls, page, storage
<1>2. Receive("start")
  BY DEF WorkerStart
<1>3. /\ alive /\ inbox' \in Seq(ToWorker) /\ Head(inbox) \in ToWorker /\ Head(inbox).type = "start"
      /\ \A S : Some(inbox, S) <=> Head(inbox) \in S \/ Some(inbox', S)
      /\ \A S : AtMostOne(inbox, S) => AtMostOne(inbox', S)
      /\ \A S, T : ~Behind(inbox, S, T) => ~Behind(inbox', S, T)
  BY <1>2, ReceiveStep
<1>4. Head(inbox) \in StartMsgs /\ Head(inbox) \notin StopMsgs /\ Head(inbox) \notin DoneMsgs
  BY <1>3, ToWorkerKinds
<1>5. /\ Some(inbox, StartMsgs)
      /\ Some(inbox', StopMsgs) <=> Some(inbox, StopMsgs)
      /\ Some(inbox', DoneMsgs) <=> Some(inbox, DoneMsgs)
      /\ Some(inbox', SavedMsgs) => Some(inbox, SavedMsgs)
      /\ Some(inbox', StartMsgs) => Some(inbox, StartMsgs)
  BY <1>3, <1>4
<1>6. Scalars'
  <2>1. loop' \in BOOLEAN
    BY <1>1
  <2> QED
    BY <1>1, <2>1 DEF Scalars
<1>7. Shapes'
  BY <1>1, <1>3 DEF Shapes
<1>8. CallFlow'
  BY <1>1, <1>3 DEF CallFlow
<1>9. Flight'
  BY <1>1, <1>3, <1>5 DEF Flight, Copies
<1>10. Kept'
  BY <1>1, <1>3, <1>5 DEF Kept
<1>11. ASSUME MaxWaiting <= 1 PROVE Stops' /\ Quiet' /\ Checksums'
  <2>1. Stops'
    BY <1>1, <1>3, <1>5, <1>11 DEF Stops
  <2>2. Quiet'
    BY <1>1, <1>3, <1>5, <1>11 DEF Quiet
  <2> QED
    BY <1>1, <1>11, <2>1, <2>2 DEF Checksums, Complete, ChecksumValid, Checksum
<1> QED
  BY <1>6, <1>7, <1>8, <1>9, <1>10, <1>11

\* The worker answers a stop, or does not: the snapshots on their way stay the same.
LEMMA StoppedSent ==
    ASSUME IInv, outbox' = outbox \/ outbox' = Append(outbox, Posts("stopped"))
    PROVE  /\ outbox' \in Seq(ToPage)
           /\ Some(outbox', SnapMsgs) <=> Some(outbox, SnapMsgs)
           /\ AtMostOne(outbox, SnapMsgs) => AtMostOne(outbox', SnapMsgs)
           /\ \A S \in SUBSET SnapMsgs : Some(outbox', S) <=> Some(outbox, S)
           /\ ~Some(outbox, StoppedMsgs) /\ AtMostOne(outbox, StoppedMsgs) =>
                AtMostOne(outbox', StoppedMsgs)
<1>1. outbox \in Seq(ToPage)
  BY DEF IInv, Shapes
<1>2. CASE outbox' = outbox
  BY <1>1, <1>2
<1>3. CASE outbox' = Append(outbox, Posts("stopped"))
  <2>1. /\ outbox' \in Seq(ToPage)
        /\ \A S : Some(outbox', S) <=> Some(outbox, S) \/ Posts("stopped") \in S
        /\ \A S : AtMostOne(outbox, S) /\ (Posts("stopped") \in S => ~Some(outbox, S)) =>
             AtMostOne(outbox', S)
    BY <1>1, <1>3, Kinds, QueueAppend
  <2> QED
    BY <2>1, Kinds
<1> QED
  BY <1>2, <1>3

LEMMA WorkerStopStep == IInv /\ WorkerStop => IInv'
<1> SUFFICES ASSUME IInv, WorkerStop PROVE IInv'
  OBVIOUS
<1> USE DEF IInv
<1>1. UNCHANGED <<mem, dirty, scheduled, pending, dead, alive, stopper, waiting, op, what, seen,
                  held, hidden, file, disk, crc, txq, stuck>>
  BY DEF WorkerStop, calls, page, storage
<1>2. Receive("stop")
  BY DEF WorkerStop
<1>3. /\ alive /\ inbox' \in Seq(ToWorker) /\ Head(inbox) \in ToWorker /\ Head(inbox).type = "stop"
      /\ \A S : Some(inbox, S) <=> Head(inbox) \in S \/ Some(inbox', S)
      /\ \A S : AtMostOne(inbox, S) =>
           AtMostOne(inbox', S) /\ (Head(inbox) \in S => ~Some(inbox', S))
      /\ \A S, T : ~Behind(inbox, S, T) =>
           ~Behind(inbox', S, T) /\ (Head(inbox) \in S => ~Some(inbox', T))
  BY <1>2, ReceiveStep
<1>4. Head(inbox) \in StopMsgs /\ Head(inbox) \notin StartMsgs /\ Head(inbox) \notin DoneMsgs
  BY <1>3, ToWorkerKinds, Kinds DEF StopMsgs
<1>5. /\ Some(inbox, StopMsgs)
      /\ Some(inbox', DoneMsgs) <=> Some(inbox, DoneMsgs)
      /\ Some(inbox', SavedMsgs) => Some(inbox, SavedMsgs)
      /\ Some(inbox', StartMsgs) => Some(inbox, StartMsgs)
  BY <1>3, <1>4
<1>6. \/ dead /\ UNCHANGED <<loop, stopPending, outbox>>
      \/ ~dead /\ pending /\ loop' = FALSE /\ stopPending' = TRUE /\ outbox' = outbox
      \/ /\ ~dead /\ ~pending /\ loop' = FALSE /\ stopPending' = stopPending
         /\ outbox' = Append(outbox, Posts("stopped"))
  BY DEF WorkerStop, Scalars
<1>7. ASSUME outbox' = Append(outbox, Posts("stopped"))
      PROVE  /\ outbox' \in Seq(ToPage)
             /\ \A S : Some(outbox', S) <=> Some(outbox, S) \/ Posts("stopped") \in S
             /\ \A S : AtMostOne(outbox, S) /\ (Posts("stopped") \in S => ~Some(outbox, S)) =>
                  AtMostOne(outbox', S)
  BY <1>7, Kinds, QueueAppend DEF Shapes
<1>8. /\ outbox' \in Seq(ToPage)
      /\ Some(outbox', SnapMsgs) <=> Some(outbox, SnapMsgs)
      /\ AtMostOne(outbox, SnapMsgs) => AtMostOne(outbox', SnapMsgs)
      /\ \A S \in SUBSET SnapMsgs : Some(outbox', S) <=> Some(outbox, S)
  BY <1>6, StoppedSent
<1>9. Scalars'
  <2>1. /\ loop \in BOOLEAN /\ stopPending \in BOOLEAN /\ pending' = pending
        /\ stopPending => pending
    BY <1>1 DEF Scalars
  <2>2. CASE loop' = loop /\ stopPending' = stopPending
    BY <1>1, <2>1, <2>2 DEF Scalars
  <2>3. CASE loop' = FALSE /\ stopPending' = stopPending
    <3>1. loop' \in BOOLEAN /\ stopPending' \in BOOLEAN
      BY <2>1, <2>3
    <3>2. stopPending' => pending'
      BY <2>1, <2>3, Zenon
    <3> QED
      BY <1>1, <3>1, <3>2 DEF Scalars
  <2>4. CASE loop' = FALSE /\ stopPending' = TRUE /\ pending
    <3>1. loop' \in BOOLEAN /\ stopPending' \in BOOLEAN
      BY <2>4
    <3>2. stopPending' => pending'
      BY <2>1, <2>4, Zenon
    <3> QED
      BY <1>1, <3>1, <3>2 DEF Scalars
  <2> QED
    BY <1>6, <2>2, <2>3, <2>4
<1>10. Shapes'
  BY <1>1, <1>3, <1>8 DEF Shapes
<1>11. CallFlow'
  BY <1>1, <1>3 DEF CallFlow
<1>12. Flight'
  <2> DEFINE Bad == {m \in SnapMsgs : ~Copies(m)}
  <2>1. Bad' = Bad /\ Bad \in SUBSET SnapMsgs
    BY <1>1 DEF Copies
  <2>2. ~Some(outbox', Bad')
    BY <1>3, <1>8, <2>1 DEF Flight
  <2> QED
    BY <1>1, <1>3, <1>5, <1>8, <2>2 DEF Flight, Copies
<1>13. Kept'
  BY <1>1, <1>3, <1>5 DEF Kept
<1>14. ASSUME MaxWaiting <= 1 PROVE Stops' /\ Quiet' /\ Checksums'
  <2>1. ~stopPending /\ ~Some(outbox, StoppedMsgs) /\ stopper # None /\ ~Some(inbox', StopMsgs)
    BY <1>3, <1>4, <1>5, <1>14 DEF Stops
  <2>2. /\ AtMostOne(outbox', StoppedMsgs)
        /\ Some(outbox', StoppedMsgs) => ~pending /\ loop' = FALSE /\ stopPending' = FALSE
    BY <1>6, <1>7, <1>14, <2>1 DEF Stops, Scalars
  <2>3. stopPending' => loop' = FALSE
    BY <1>6, <2>1
  <2>4. stopper = "user" => ~Some(inbox', StartMsgs) /\ ~Behind(inbox', StopMsgs, StartMsgs)
    BY <1>3, <1>4, <1>14 DEF Stops
  <2>5. AtMostOne(inbox', StopMsgs)
    BY <1>3, <1>14 DEF Stops
  <2>6. Stops'
    BY <1>1, <1>14, <2>1, <2>2, <2>3, <2>4, <2>5 DEF Stops
  <2>7. Quiet'
    BY <1>1, <1>3, <1>5, <1>6, <1>14 DEF Quiet
  <2> DEFINE Partial == {m \in SnapMsgs : ~Complete(m)}
  <2>8. Partial' = Partial /\ Partial \in SUBSET SnapMsgs
    BY <1>1 DEF Complete
  <2>9. ~Some(outbox', Partial')
    BY <1>8, <1>14, <2>8 DEF Checksums
  <2> QED
    BY <1>1, <1>14, <2>6, <2>7, <2>9 DEF Checksums, Complete, ChecksumValid, Checksum
<1> QED
  BY <1>9, <1>10, <1>11, <1>12, <1>13, <1>14

LEMMA WorkerSnapshotDoneStep == IInv /\ WorkerSnapshotDone => IInv'
<1> SUFFICES ASSUME IInv, WorkerSnapshotDone PROVE IInv'
  OBVIOUS
<1> USE DEF IInv
<1>1. /\ scheduled' = {} /\ pending' = FALSE /\ stopPending' = FALSE
      /\ UNCHANGED <<mem, loop, dead, alive, stopper, waiting, op, what, seen,
                     held, hidden, file, disk, crc, txq, stuck>>
  BY DEF WorkerSnapshotDone, calls, page, storage
<1>2. Receive("snapshotDone")
  BY DEF WorkerSnapshotDone
<1>3. /\ alive /\ inbox' \in Seq(ToWorker) /\ Head(inbox) \in ToWorker
      /\ Head(inbox).type = "snapshotDone"
      /\ \A S : Some(inbox, S) <=> Head(inbox) \in S \/ Some(inbox', S)
      /\ \A S : AtMostOne(inbox, S) =>
           AtMostOne(inbox', S) /\ (Head(inbox) \in S => ~Some(inbox', S))
      /\ \A S, T : ~Behind(inbox, S, T) => ~Behind(inbox', S, T)
  BY <1>2, ReceiveStep
<1>4. /\ Head(inbox) \in DoneMsgs /\ Head(inbox) \notin StartMsgs /\ Head(inbox) \notin StopMsgs
      /\ Head(inbox).success <=> Head(inbox) \in SavedMsgs
  BY <1>3, ToWorkerKinds, Kinds DEF StopMsgs, StartMsgs
<1>5. /\ Some(inbox, DoneMsgs) /\ ~Some(inbox', DoneMsgs)
      /\ Some(inbox', StopMsgs) <=> Some(inbox, StopMsgs)
      /\ Some(inbox', StartMsgs) <=> Some(inbox, StartMsgs)
  BY <1>3, <1>4 DEF Flight
<1>6. ~Some(inbox', SavedMsgs)
  BY <1>5, Kinds, QueueSubset
<1>7. dirty' = dirty \/ dirty' = dirty \cup scheduled
  BY DEF WorkerSnapshotDone, OnSnapshotDone
<1>8. /\ stopPending => outbox' = Append(outbox, Posts("stopped"))
      /\ ~stopPending => outbox' = outbox
  BY DEF WorkerSnapshotDone
<1>9. /\ outbox' \in Seq(ToPage)
      /\ Some(outbox', SnapMsgs) <=> Some(outbox, SnapMsgs)
      /\ \A S \in SUBSET SnapMsgs : Some(outbox', S) <=> Some(outbox, S)
      /\ AtMostOne(outbox, SnapMsgs) => AtMostOne(outbox', SnapMsgs)
      /\ ~Some(outbox, StoppedMsgs) /\ AtMostOne(outbox, StoppedMsgs) =>
           AtMostOne(outbox', StoppedMsgs)
  BY <1>8, StoppedSent
<1>10. Scalars'
  BY <1>1, <1>7 DEF Scalars
<1>11. Shapes'
  BY <1>1, <1>3, <1>9 DEF Shapes
<1>12. CallFlow'
  BY <1>1, <1>3 DEF CallFlow
<1>13. Flight'
  <2>1. ~Some(outbox', SnapMsgs) /\ ~Some(txq, SnapTxs)
    BY <1>3, <1>5, <1>9 DEF Flight
  <2> DEFINE Bad(S) == {m \in S : ~Copies(m)}
  <2>2. ~Some(outbox', Bad(SnapMsgs)') /\ ~Some(txq, Bad(SnapTxs)')
    <3>1. Bad(SnapMsgs)' \subseteq SnapMsgs /\ Bad(SnapTxs)' \subseteq SnapTxs
      OBVIOUS
    <3> HIDE DEF Bad
    <3> QED
      BY <2>1, <3>1, QueueSubset
  <2> QED
    BY <1>1, <1>3, <1>5, <1>9, <2>1, <2>2 DEF Flight
<1>14. Kept'
  <2>1. CASE Head(inbox).success
    <3>1. dirty' = dirty /\ Some(inbox, SavedMsgs)
      BY <1>3, <1>4, <2>1 DEF WorkerSnapshotDone, OnSnapshotDone
    <3> QED
      BY <1>1, <1>3, <1>6, <3>1 DEF Kept
  <2>2. CASE ~Head(inbox).success
    <3>1. dirty' = dirty \cup scheduled
      BY <2>2 DEF WorkerSnapshotDone, OnSnapshotDone
    <3> QED
      BY <1>1, <1>3, <1>6, <3>1 DEF Kept
  <2> QED
    BY <2>1, <2>2
<1>15. ASSUME MaxWaiting <= 1 PROVE Stops' /\ Quiet' /\ Checksums'
  <2>1. Stops'
    <3>1. CASE stopPending
      <4>1. /\ ~Some(inbox', StopMsgs) /\ ~Some(outbox, StoppedMsgs) /\ stopper # None
            /\ stopper = "user" => ~loop /\ ~Some(inbox', StartMsgs)
            /\ AtMostOne(inbox', StopMsgs) /\ AtMostOne(outbox', StoppedMsgs)
            /\ stopper = "user" => ~Behind(inbox', StopMsgs, StartMsgs)
        BY <1>3, <1>5, <1>9, <1>15, <3>1 DEF Stops
      <4> QED
        BY <1>1, <1>15, <4>1 DEF Stops
    <3>2. CASE ~stopPending
      <4>1. outbox' = outbox
        BY <1>8, <3>2
      <4> QED
        BY <1>1, <1>3, <1>5, <1>15, <3>2, <4>1 DEF Stops
    <3> QED
      BY <3>1, <3>2
  <2>2. Quiet'
    BY <1>1, <1>3, <1>5, <1>15 DEF Quiet
  <2> DEFINE Partial == {m \in SnapMsgs : ~Complete(m)}
  <2>3. Partial' = Partial /\ Partial \in SUBSET SnapMsgs
    BY <1>1 DEF Complete
  <2>4. ~Some(outbox', Partial')
    BY <1>9, <1>15, <2>3 DEF Checksums
  <2> QED
    BY <1>1, <1>15, <2>1, <2>2, <2>4 DEF Checksums, Complete, ChecksumValid, Checksum
<1> QED
  BY <1>10, <1>11, <1>12, <1>13, <1>14, <1>15

-----------------------------------------------------------------------------
(***************************************************************************)
(* emulator.js and index.js                                                 *)
(***************************************************************************)

\* The page takes a message.
LEMMA DeliverStep ==
    ASSUME IInv, NEW type, Deliver(type)
    PROVE  /\ alive /\ outbox' = Tail(outbox) /\ outbox' \in Seq(ToPage) /\ outbox # <<>>
           /\ Head(outbox) \in ToPage /\ Head(outbox).type = type
           /\ \A S : Some(outbox, S) <=> Head(outbox) \in S \/ Some(outbox', S)
           /\ \A S : AtMostOne(outbox, S) =>
                AtMostOne(outbox', S) /\ (Head(outbox) \in S => ~Some(outbox', S))
<1>1. outbox # <<>> /\ outbox' = Tail(outbox) /\ Head(outbox).type = type
      /\ outbox \in Seq(ToPage)
  BY DEF Deliver, IInv, Shapes
<1>2. alive
  BY <1>1 DEF IInv, CallFlow, Scalars
<1> QED
  BY <1>1, <1>2, QueueTail

LEMMA MainSnapshotStep == IInv /\ MainSnapshot => IInv'
<1> SUFFICES ASSUME IInv, MainSnapshot PROVE IInv'
  OBVIOUS
<1> USE DEF IInv
<1>0. PICK h : h = Head(outbox)
  OBVIOUS
<1>1. PICK t : t = [op |-> "snap", pages |-> h.pages, image |-> h.image, live |-> TRUE]
  OBVIOUS
<1>2. /\ txq' = Append(txq, t)
      /\ UNCHANGED <<mem, dirty, scheduled, loop, pending, stopPending, dead, alive, inbox,
                     stopper, waiting, op, what, seen, held, hidden, file, disk, crc, stuck>>
  BY <1>0, <1>1 DEF MainSnapshot, worker, calls, page
<1>3. /\ alive /\ outbox' \in Seq(ToPage) /\ h \in ToPage /\ h.type = "snapshot"
      /\ \A S : Some(outbox, S) <=> h \in S \/ Some(outbox', S)
      /\ \A S : AtMostOne(outbox, S) => AtMostOne(outbox', S) /\ (h \in S => ~Some(outbox', S))
  BY <1>0, DeliverStep DEF MainSnapshot
<1>4. h \in SnapMsgs /\ h \notin StoppedMsgs
  BY <1>3, ToPageKinds
<1>5. t \in SnapTxs /\ t \in LiveTxs /\ t \in Txs /\ t \notin Calls
      /\ t.pages = h.pages /\ t.image = h.image
  <2>1. h.pages \in SUBSET Pages /\ h.image \in [Pages -> Vals]
    BY <1>4 DEF SnapMsgs
  <2>2. t \in LiveTxs /\ t.pages = h.pages /\ t.image = h.image
    BY <1>1, <2>1 DEF LiveTxs
  <2>3. t \in SnapTxs /\ t \in Txs
    BY <2>2, Kinds DEF Txs
  <2> QED
    BY <2>2, <2>3, TxKinds
<1>6. /\ txq' \in Seq(Txs)
      /\ \A S : Some(txq', S) <=> Some(txq, S) \/ t \in S
      /\ \A S : AtMostOne(txq, S) /\ (t \in S => ~Some(txq, S)) => AtMostOne(txq', S)
  BY <1>2, <1>5, QueueAppend DEF Shapes
<1>7. /\ Some(outbox, SnapMsgs) /\ ~Some(outbox', SnapMsgs) /\ ~Some(txq, SnapTxs)
      /\ ~Some(inbox, DoneMsgs) /\ pending /\ Copies(h)
  BY <1>3, <1>4 DEF Flight
<1>8. Scalars'
  BY <1>2 DEF Scalars
<1>9. Shapes'
  BY <1>2, <1>3, <1>6 DEF Shapes
<1>10. CallFlow'
  BY <1>2, <1>3, <1>5, <1>6 DEF CallFlow
<1>11. Flight'
  <2> DEFINE Bad(S) == {m \in S : ~Copies(m)}
  <2>1. Bad(SnapMsgs)' = Bad(SnapMsgs) /\ Bad(SnapTxs)' = Bad(SnapTxs) /\ t \notin Bad(SnapTxs)
    BY <1>2, <1>5, <1>7 DEF Copies
  <2>2. ~Some(outbox', Bad(SnapMsgs)') /\ ~Some(txq', Bad(SnapTxs)')
    BY <1>3, <1>6, <2>1 DEF Flight
  <2>3. ~Some(txq', SnapTxs \ LiveTxs)
    BY <1>3, <1>5, <1>6 DEF Flight
  <2> QED
    BY <1>2, <1>3, <1>5, <1>6, <1>7, <2>2, <2>3 DEF Flight
<1>12. Kept'
  BY <1>2 DEF Kept
<1>13. ASSUME MaxWaiting <= 1 PROVE Stops' /\ Quiet' /\ Checksums'
  <2>1. Stops'
    BY <1>2, <1>3, <1>4, <1>13 DEF Stops
  <2>2. Quiet'
    BY <1>2, <1>3, <1>13 DEF Quiet
  <2> DEFINE Partial(S) == {m \in S : ~Complete(m)}
  <2>3. Complete(h)
    BY <1>3, <1>4, <1>13 DEF Checksums
  <2>4. /\ Partial(SnapMsgs)' = Partial(SnapMsgs) /\ Partial(SnapTxs)' = Partial(SnapTxs)
        /\ t \notin Partial(SnapTxs)
    BY <1>2, <1>5, <2>3 DEF Complete
  <2>5. ~Some(outbox', Partial(SnapMsgs)') /\ ~Some(txq', Partial(SnapTxs)')
    BY <1>3, <1>6, <1>13, <2>4 DEF Checksums
  <2> QED
    BY <1>2, <1>13, <2>1, <2>2, <2>5 DEF Checksums, ChecksumValid, Checksum
<1> QED
  BY <1>8, <1>9, <1>10, <1>11, <1>12, <1>13

\* Two queues after each other.
LEMMA Concatenation ==
    ASSUME NEW A, NEW q \in Seq(A), NEW t \in Seq(A)
    PROVE  q \o t \in Seq(A) /\ Len(q \o t) = Len(q) + Len(t)
OBVIOUS

StopPosts(n) == [i \in 1 .. n |-> Posts("stop")]

\* The stops of the calls that waited are posted one by one.
LEMMA StopsPosted ==
    ASSUME NEW q \in Seq(ToWorker), NEW n \in Nat, NEW r, r = q \o StopPosts(n)
    PROVE  /\ r \in Seq(ToWorker)
           /\ n = 0 => r = q
           /\ n = 1 => r = Append(q, Posts("stop"))
           /\ \A S : Posts("stop") \notin S => (Some(r, S) <=> Some(q, S))
           /\ \A S : Posts("stop") \notin S /\ AtMostOne(q, S) => AtMostOne(r, S)
<1> DEFINE t == StopPosts(n)
           k == Len(q)
<1>1. Posts("stop") \in ToWorker
  BY Kinds
<1>2. t \in Seq(ToWorker) /\ Len(t) = n /\ k \in Nat /\ \A i \in 1 .. n : t[i] = Posts("stop")
  BY <1>1 DEF StopPosts
<1>3. r = q \o t
  OBVIOUS
<1> HIDE DEF t
<1>4. /\ r \in Seq(ToWorker) /\ Len(r) = k + n
      /\ \A i \in 1 .. k : r[i] = q[i]
      /\ \A i \in 1 .. k + n : i > k => r[i] = Posts("stop")
  <2>0. r \in Seq(ToWorker) /\ Len(r) = Len(q) + Len(t)
    BY <1>2, <1>3, Concatenation
  <2>1. r \in Seq(ToWorker) /\ Len(r) = k + n /\ \A i \in 1 .. k : r[i] = q[i]
    <3>1. \A i \in 1 .. Len(q) : r[i] = q[i]
      BY <1>2, <1>3
    <3> QED
      BY <1>2, <2>0, <3>1
  <2>2. ASSUME NEW i \in 1 .. k + n, i > k PROVE r[i] = Posts("stop")
    <3>1. r[i] = t[i - k]
      BY <1>2, <1>3, <2>2
    <3>2. i - k \in 1 .. n
      BY <1>2, <2>2
    <3> QED
      BY <1>2, <3>1, <3>2
  <2> QED
    BY <2>1, <2>2
<1>5. n = 0 => r = q
  BY <1>4, <1>2
<1>6. ASSUME n = 1 PROVE r = Append(q, Posts("stop"))
  <2>1. /\ Append(q, Posts("stop")) \in Seq(ToWorker) /\ Len(Append(q, Posts("stop"))) = k + 1
        /\ \A i \in 1 .. k : Append(q, Posts("stop"))[i] = q[i]
        /\ Append(q, Posts("stop"))[k + 1] = Posts("stop")
    BY <1>1
  <2>2. r[k + 1] = Posts("stop") /\ Len(r) = k + 1
    BY <1>2, <1>4, <1>6
  <2>3. \A i \in 1 .. k + 1 : r[i] = Append(q, Posts("stop"))[i]
    <3>1. \A i \in 1 .. k + 1 : i \in 1 .. k \/ i = k + 1
      BY <1>2
    <3> QED
      BY <1>4, <2>1, <2>2, <3>1
  <2> QED
    BY <1>4, <2>1, <2>2, <2>3
<1>7. \A i \in 1 .. k + n : i \in 1 .. k \/ i > k
  BY <1>2
<1>8. \A i \in 1 .. k : i \in 1 .. k + n
  BY <1>2
<1>9. ASSUME NEW S, Posts("stop") \notin S PROVE Some(r, S) <=> Some(q, S)
  BY <1>4, <1>7, <1>8, <1>9 DEF Some
<1>10. ASSUME NEW S, Posts("stop") \notin S, AtMostOne(q, S) PROVE AtMostOne(r, S)
  BY <1>4, <1>7, <1>8, <1>10 DEF AtMostOne
<1> QED
  BY <1>4, <1>5, <1>6, <1>9, <1>10

\* Nothing stands behind what is not there.
LEMMA BehindNothing == ASSUME NEW q, NEW S, NEW T, ~Some(q, S) PROVE ~Behind(q, S, T)
BY DEF Some, Behind

LEMMA MainStoppedStep == IInv /\ MainStopped => IInv'
<1> SUFFICES ASSUME IInv, MainStopped PROVE IInv'
  OBVIOUS
<1> USE DEF IInv
<1>0. PICK h : h = Head(outbox)
  OBVIOUS
<1>1. /\ waiting' = <<>>
      /\ stopper' = IF waiting = <<>> THEN None ELSE waiting[Len(waiting)]
      /\ UNCHANGED <<mem, dirty, scheduled, loop, pending, stopPending, dead, alive,
                     what, seen, held, hidden, file, disk, crc, stuck>>
  BY DEF MainStopped, worker, page
<1>2. /\ alive /\ outbox' \in Seq(ToPage) /\ h \in ToPage /\ h.type = "stopped"
      /\ \A S : Some(outbox, S) <=> h \in S \/ Some(outbox', S)
      /\ \A S : AtMostOne(outbox, S) => AtMostOne(outbox', S) /\ (h \in S => ~Some(outbox', S))
  BY <1>0, DeliverStep DEF MainStopped
<1>3. h \in StoppedMsgs /\ h \notin SnapMsgs
  BY <1>2, ToPageKinds
<1>4. /\ Some(outbox, StoppedMsgs)
      /\ \A S \in SUBSET SnapMsgs : Some(outbox', S) <=> Some(outbox, S)
  BY <1>2, <1>3
<1>5. /\ inbox' \in Seq(ToWorker)
      /\ waiting = <<>> => inbox' = inbox
      /\ Len(waiting) = 1 => inbox' = Append(inbox, Posts("stop"))
      /\ \A S : Posts("stop") \notin S => (Some(inbox', S) <=> Some(inbox, S))
      /\ \A S : Posts("stop") \notin S /\ AtMostOne(inbox, S) => AtMostOne(inbox', S)
  <2>0. PICK n : n = Len(waiting)
    OBVIOUS
  <2>1. inbox' = inbox \o StopPosts(n)
    BY <2>0 DEF MainStopped, StopPosts
  <2>2. inbox \in Seq(ToWorker) /\ n \in Nat /\ (waiting = <<>> => n = 0)
    BY <2>0 DEF Shapes
  <2>3. /\ inbox' \in Seq(ToWorker)
        /\ n = 0 => inbox' = inbox
        /\ n = 1 => inbox' = Append(inbox, Posts("stop"))
        /\ \A S : Posts("stop") \notin S => (Some(inbox', S) <=> Some(inbox, S))
        /\ \A S : Posts("stop") \notin S /\ AtMostOne(inbox, S) => AtMostOne(inbox', S)
    BY ONLY <2>1, <2>2, StopsPosted
  <2> QED
    BY <2>0, <2>2, <2>3
<1>6. /\ Some(inbox', DoneMsgs) <=> Some(inbox, DoneMsgs)
      /\ Some(inbox', SavedMsgs) <=> Some(inbox, SavedMsgs)
      /\ Some(inbox', StartMsgs) <=> Some(inbox, StartMsgs)
      /\ AtMostOne(inbox, DoneMsgs) => AtMostOne(inbox', DoneMsgs)
  BY <1>5, Kinds
<1>7. /\ waiting # <<>> => stopper' \in {"hide", "user"} /\ Len(waiting) \in 1 .. Len(waiting)
      /\ stopper' = "user" => Some(waiting, Users)
  <2>1. CASE waiting = <<>>
    BY <1>1, <2>1, UarmAssumption
  <2>2. CASE waiting # <<>>
    <3>1. /\ Len(waiting) \in 1 .. Len(waiting) /\ waiting[Len(waiting)] \in {"hide", "user"}
          /\ stopper' = waiting[Len(waiting)]
      BY <1>1, <2>2 DEF Shapes
    <3>2. stopper' = "user" => Some(waiting, Users)
      BY <3>1 DEF Some, Users
    <3> QED
      BY <3>1, <3>2
  <2> QED
    BY <2>1, <2>2
<1>8. ASSUME stopper = "user"
      PROVE  /\ op = "stopping" /\ op' = IF what = "export" THEN "ram" ELSE "put"
             /\ txq' = Append(txq, Call) /\ ~Some(txq, Calls) /\ ~Some(waiting, Users)
  BY <1>8 DEF MainStopped, CallFlow
<1>9. ASSUME stopper # "user" PROVE op' = op /\ txq' = txq
  BY <1>9 DEF MainStopped
<1>10. /\ txq' \in Seq(Txs) /\ AtMostOne(txq', Calls)
       /\ \A S \in SUBSET SnapTxs : Some(txq', S) <=> Some(txq, S)
       /\ AtMostOne(txq, SnapTxs) => AtMostOne(txq', SnapTxs)
  <2>1. CASE stopper = "user"
    <3>1. txq' = Append(txq, Call) /\ ~Some(txq, Calls) /\ AtMostOne(txq, Calls)
      BY <1>8, <2>1 DEF CallFlow
    <3>2. /\ txq' \in Seq(Txs)
          /\ \A S : Some(txq', S) <=> Some(txq, S) \/ Call \in S
          /\ \A S : AtMostOne(txq, S) /\ (Call \in S => ~Some(txq, S)) => AtMostOne(txq', S)
      BY <3>1, Kinds, QueueAppend DEF Shapes
    <3> QED
      BY <3>1, <3>2, Kinds
  <2>2. CASE stopper # "user"
    BY <1>9, <2>2 DEF CallFlow, Shapes
  <2> QED
    BY <2>1, <2>2
<1>11. Scalars'
  <2>1. op' \in Places
    BY <1>8, <1>9 DEF Scalars, Places
  <2>2. stopper' \in {None, "hide", "user"}
    BY <1>1, <1>7
  <2> QED
    BY <1>1, <2>1, <2>2 DEF Scalars
<1>12. Shapes'
  <2>1. <<>> \in Seq({"hide", "user"}) /\ Len(<<>>) <= MaxWaiting
    BY UarmAssumption
  <2> QED
    BY <1>1, <1>2, <1>5, <1>10, <2>1 DEF Shapes
<1>13. CallFlow'
  <2>1. ~Some(waiting', Users)
    BY <1>1, QueueEmpty
  <2>2. CASE stopper = "user"
    <3>1. op' = (IF what = "export" THEN "ram" ELSE "put") /\ stopper' # "user"
      BY <1>7, <1>8, <2>2
    <3> QED
      BY <1>1, <1>2, <1>10, <2>1, <3>1 DEF CallFlow
  <2>3. CASE stopper # "user"
    BY <1>1, <1>2, <1>7, <1>9, <1>10, <2>1, <2>3 DEF CallFlow
  <2> QED
    BY <2>2, <2>3
<1>14. Flight'
  <2> DEFINE Bad(S) == {m \in S : ~Copies(m)}
  <2>1. /\ Bad(SnapMsgs)' = Bad(SnapMsgs) /\ Bad(SnapTxs)' = Bad(SnapTxs)
        /\ Bad(SnapMsgs) \in SUBSET SnapMsgs /\ Bad(SnapTxs) \in SUBSET SnapTxs
    BY <1>1 DEF Copies
  <2>2. ~Some(outbox', Bad(SnapMsgs)') /\ ~Some(txq', Bad(SnapTxs)')
    BY <1>2, <1>4, <1>10, <2>1 DEF Flight
  <2>3. ~Some(txq', SnapTxs \ LiveTxs)
    BY <1>2, <1>10 DEF Flight
  <2>4. AtMostOne(outbox', SnapMsgs) /\ AtMostOne(txq', SnapTxs) /\ AtMostOne(inbox', DoneMsgs)
    BY <1>2, <1>6, <1>10 DEF Flight
  <2> QED
    BY <1>1, <1>2, <1>4, <1>6, <1>10, <2>2, <2>3, <2>4 DEF Flight
<1>15. Kept'
  <2>1. op \in Untouched \/ op' = op
    BY <1>8, <1>9 DEF Untouched
  <2>2. op' = "restart" => op = "restart"
    BY <1>8, <1>9
  <2> QED
    BY <1>1, <1>6, <2>1, <2>2, <1>8, <1>9 DEF Kept, Untouched
<1>16. ASSUME MaxWaiting <= 1 PROVE Stops' /\ Quiet' /\ Checksums'
  <2>1. ~Some(outbox', StoppedMsgs) /\ ~Some(inbox, StopMsgs) /\ ~stopPending
    BY <1>2, <1>3, <1>4, <1>16 DEF Stops
  <2>2. AtMostOne(outbox', StoppedMsgs)
    BY <1>2, <1>16 DEF Stops
  <2>3. ~Some(waiting', Users) /\ waiting' = <<>>
    BY <1>1, QueueEmpty
  <2>4. /\ AtMostOne(inbox', StopMsgs) /\ ~Behind(inbox', StopMsgs, StartMsgs)
        /\ Some(inbox', StopMsgs) => stopper' # None
    <3>1. CASE waiting = <<>>
      BY <1>5, <1>16, <2>1, <3>1, BehindNothing DEF Stops
    <3>2. CASE waiting # <<>>
      <4>1. inbox' = Append(inbox, Posts("stop")) /\ stopper' # None
        <5>1. PICK n : n = Len(waiting)
          OBVIOUS
        <5>2. n \in Nat /\ n # 0 /\ n <= MaxWaiting
          BY <3>2, <5>1 DEF Shapes
        <5>3. n = 1
          BY <1>16, <5>2, UarmAssumption
        <5> QED
          BY <1>5, <1>7, <3>2, <5>1, <5>3, UarmAssumption
      <4>2. /\ \A S : AtMostOne(inbox, S) /\ (Posts("stop") \in S => ~Some(inbox, S)) =>
                 AtMostOne(inbox', S)
            /\ \A S, T : ~Behind(inbox, S, T) /\ (Posts("stop") \in T => ~Some(inbox, S)) =>
                 ~Behind(inbox', S, T)
        BY <4>1, Kinds, QueueAppend DEF Shapes
      <4>3. AtMostOne(inbox, StopMsgs) /\ ~Behind(inbox, StopMsgs, StartMsgs)
        BY <1>16, <2>1, BehindNothing DEF Stops
      <4> QED
        BY <2>1, <4>1, <4>2, <4>3, Kinds
    <3> QED
      BY <3>1, <3>2
  <2>5. stopper' = "user" => held
    BY <1>7, <1>16 DEF Stops
  <2>6. Stops'
    BY <1>1, <2>1, <2>2, <2>3, <2>4, <2>5 DEF Stops
  <2>7. Quiet'
    <3>1. ASSUME stopper = "user" PROVE held /\ ~loop /\ ~pending /\ ~Some(inbox, StartMsgs)
      BY <1>2, <1>4, <1>16, <3>1 DEF Stops
    <3> QED
      BY <1>1, <1>2, <1>6, <1>9, <1>16, <3>1 DEF Quiet
  <2> DEFINE Partial(S) == {m \in S : ~Complete(m)}
  <2>8. /\ Partial(SnapMsgs)' = Partial(SnapMsgs) /\ Partial(SnapTxs)' = Partial(SnapTxs)
        /\ Partial(SnapMsgs) \in SUBSET SnapMsgs /\ Partial(SnapTxs) \in SUBSET SnapTxs
    BY <1>1 DEF Complete
  <2>9. ~Some(outbox', Partial(SnapMsgs)') /\ ~Some(txq', Partial(SnapTxs)')
    BY <1>4, <1>10, <1>16, <2>8 DEF Checksums
  <2> QED
    BY <1>1, <1>16, <2>6, <2>7, <2>9 DEF Checksums, ChecksumValid, Checksum
<1> QED
  BY <1>11, <1>12, <1>13, <1>14, <1>15, <1>16

\* A call of stop(): it posts, or it waits.
LEMMA StopStep ==
    ASSUME IInv, NEW caller \in {"hide", "user"}, Stop(caller)
    PROVE  /\ \/ stopper = None /\ stopper' = caller /\ waiting = <<>> /\ waiting' = <<>>
              \/ stopper # None /\ stopper' = stopper /\ inbox' = inbox
           /\ \/ inbox' = inbox
              \/ alive /\ stopper = None /\ inbox' = Append(inbox, Posts("stop"))
           /\ stopper' # None /\ stopper' \in {"hide", "user"}
           /\ waiting' \in Seq({"hide", "user"}) /\ Len(waiting') <= MaxWaiting
           /\ Some(waiting', Users) <=> Some(waiting, Users) \/ (stopper # None /\ caller = "user")
           /\ inbox' \in Seq(ToWorker)
           /\ \A S : Posts("stop") \notin S => (Some(inbox', S) <=> Some(inbox, S))
           /\ \A S : AtMostOne(inbox, S) /\ (Posts("stop") \in S => ~Some(inbox, S)) =>
                AtMostOne(inbox', S)
           /\ \A S, T : ~Behind(inbox, S, T) /\ (Posts("stop") \in T => ~Some(inbox, S)) =>
                ~Behind(inbox', S, T)
<1> USE DEF IInv
<1>1. /\ inbox \in Seq(ToWorker) /\ waiting \in Seq({"hide", "user"}) /\ MaxWaiting \in Nat
      /\ Len(waiting) <= MaxWaiting /\ None \notin {"hide", "user"}
      /\ stopper \in {None, "hide", "user"} /\ (stopper = None => waiting = <<>>)
  BY UarmAssumption DEF Shapes, CallFlow, Scalars
<1>2. CASE stopper = None
  <2>1. /\ stopper' = caller /\ waiting' = waiting
        /\ alive => inbox' = Append(inbox, Posts("stop"))
        /\ ~alive => inbox' = inbox
    BY <1>2 DEF Stop
  <2>2. CASE alive
    <3>1. inbox' = Append(inbox, Posts("stop"))
      BY <2>1, <2>2
    <3>2. /\ inbox' \in Seq(ToWorker)
          /\ \A S : Some(inbox', S) <=> Some(inbox, S) \/ Posts("stop") \in S
          /\ \A S : AtMostOne(inbox, S) /\ (Posts("stop") \in S => ~Some(inbox, S)) =>
               AtMostOne(inbox', S)
          /\ \A S, T : ~Behind(inbox, S, T) /\ (Posts("stop") \in T => ~Some(inbox, S)) =>
               ~Behind(inbox', S, T)
      BY <1>1, <3>1, Kinds, QueueAppend
    <3> QED
      BY <1>1, <1>2, <2>1, <2>2, <3>1, <3>2
  <2>3. CASE ~alive
    BY <1>1, <1>2, <2>1, <2>3
  <2> QED
    BY <2>2, <2>3
<1>3. CASE stopper # None
  <2>1. /\ Len(waiting) < MaxWaiting /\ waiting' = Append(waiting, caller)
        /\ stopper' = stopper /\ inbox' = inbox
    BY <1>3 DEF Stop
  <2>2. waiting' \in Seq({"hide", "user"}) /\ Len(waiting') <= MaxWaiting
    BY <1>1, <2>1
  <2>3. \A S : Some(waiting', S) <=> Some(waiting, S) \/ caller \in S
    BY <1>1, <2>1, QueueAppend
  <2>4. Some(waiting', Users) <=> Some(waiting, Users) \/ caller = "user"
    BY <2>3 DEF Users
  <2> QED
    BY <1>1, <1>3, <2>1, <2>2, <2>4
<1> QED
  BY <1>2, <1>3

LEMMA HideStep == IInv /\ Hide => IInv'
<1> SUFFICES ASSUME IInv, Hide PROVE IInv'
  OBVIOUS
<1> USE DEF IInv
<1>1. /\ hidden' = TRUE
      /\ UNCHANGED <<mem, dirty, scheduled, loop, pending, stopPending, dead, alive, outbox,
                     op, what, seen, held, file, disk, crc, txq, stuck>>
  BY DEF Hide, worker, storage
<1>2. CASE held
  <2>1. UNCHANGED <<stopper, waiting, inbox>>
    BY <1>2 DEF Hide
  <2>2. Scalars'
    BY <1>1, <2>1 DEF Scalars
  <2>3. Shapes' /\ CallFlow'
    BY <1>1, <2>1 DEF Shapes, CallFlow
  <2>4. Flight' /\ Kept'
    BY <1>1, <2>1 DEF Flight, Copies, Kept
  <2>5. MaxWaiting <= 1 => Stops' /\ Quiet' /\ Checksums'
    BY <1>1, <2>1 DEF Stops, Quiet, Checksums, Complete, ChecksumValid, Checksum
  <2> QED
    BY <2>2, <2>3, <2>4, <2>5
<1>3. CASE ~held
  <2>1. Stop("hide")
    BY <1>3 DEF Hide
  <2>2. /\ \/ stopper = None /\ stopper' = "hide" /\ waiting = <<>> /\ waiting' = <<>>
           \/ stopper # None /\ stopper' = stopper /\ inbox' = inbox
        /\ \/ inbox' = inbox
           \/ alive /\ stopper = None /\ inbox' = Append(inbox, Posts("stop"))
        /\ stopper' # None /\ stopper' \in {"hide", "user"}
        /\ waiting' \in Seq({"hide", "user"}) /\ Len(waiting') <= MaxWaiting
        /\ Some(waiting', Users) <=> Some(waiting, Users)
        /\ inbox' \in Seq(ToWorker)
        /\ \A S : Posts("stop") \notin S => (Some(inbox', S) <=> Some(inbox, S))
        /\ \A S : AtMostOne(inbox, S) /\ (Posts("stop") \in S => ~Some(inbox, S)) =>
             AtMostOne(inbox', S)
    BY <2>1, StopStep
  <2>3. /\ Some(inbox', DoneMsgs) <=> Some(inbox, DoneMsgs)
        /\ Some(inbox', SavedMsgs) <=> Some(inbox, SavedMsgs)
        /\ Some(inbox', StartMsgs) <=> Some(inbox, StartMsgs)
        /\ AtMostOne(inbox, DoneMsgs) => AtMostOne(inbox', DoneMsgs)
    BY <2>2, Kinds
  <2>4. Scalars'
    BY <1>1, <2>2 DEF Scalars
  <2>5. Shapes'
    BY <1>1, <2>2 DEF Shapes
  <2>6. CallFlow'
    BY <1>1, <2>2 DEF CallFlow
  <2>7. Flight'
    BY <1>1, <2>3 DEF Flight, Copies
  <2>8. Kept'
    BY <1>1, <2>3 DEF Kept
  <2>9. ASSUME MaxWaiting <= 1 PROVE Stops' /\ Quiet' /\ Checksums'
    <3>1. stopper # "user" /\ ~Some(waiting, Users)
      BY <1>3, <2>9 DEF Stops
    <3>2. stopper' # "user" /\ ~Some(waiting', Users)
      BY <2>2, <3>1
    <3>3. CASE inbox' = inbox
      <4>1. Stops'
        BY <1>1, <2>2, <2>9, <3>2, <3>3 DEF Stops
      <4> QED
        BY <1>1, <2>3, <2>9, <4>1 DEF Quiet, Checksums, Complete, ChecksumValid, Checksum
    <3>4. CASE alive /\ stopper = None
      <4>1. ~Some(inbox, StopMsgs) /\ ~stopPending /\ ~Some(outbox, StoppedMsgs)
        BY <2>9, <3>4 DEF Stops
      <4>2. AtMostOne(inbox', StopMsgs)
        BY <2>2, <2>9, <4>1 DEF Stops
      <4>3. Stops'
        BY <1>1, <2>2, <2>9, <3>2, <4>1, <4>2 DEF Stops
      <4> QED
        BY <1>1, <2>3, <2>9, <4>3 DEF Quiet, Checksums, Complete, ChecksumValid, Checksum
    <3> QED
      BY <2>2, <3>3, <3>4
  <2> QED
    BY <2>4, <2>5, <2>6, <2>7, <2>8, <2>9
<1> QED
  BY <1>2, <1>3

LEMMA ClickStep == IInv /\ Click => IInv'
<1> SUFFICES ASSUME IInv, Click PROVE IInv'
  OBVIOUS
<1> USE DEF IInv
<1>1. /\ op = "idle" /\ op' = "stopping" /\ held' = TRUE /\ what' \in {"export"} \cup Uploads
      /\ UNCHANGED <<mem, dirty, scheduled, loop, pending, stopPending, dead, alive, outbox,
                     seen, hidden, file, disk, crc, txq, stuck>>
  BY DEF Click, worker, storage
<1>2. stopper # "user" /\ ~Some(waiting, Users) /\ ~Some(txq, Calls)
  BY <1>1 DEF CallFlow
<1>3. /\ \/ stopper = None /\ stopper' = "user" /\ waiting = <<>> /\ waiting' = <<>>
         \/ stopper # None /\ stopper' = stopper /\ inbox' = inbox
      /\ \/ inbox' = inbox
         \/ alive /\ stopper = None /\ inbox' = Append(inbox, Posts("stop"))
      /\ stopper' # None /\ stopper' \in {"hide", "user"}
      /\ waiting' \in Seq({"hide", "user"}) /\ Len(waiting') <= MaxWaiting
      /\ Some(waiting', Users) <=> stopper # None
      /\ inbox' \in Seq(ToWorker)
      /\ \A S : Posts("stop") \notin S => (Some(inbox', S) <=> Some(inbox, S))
      /\ \A S : AtMostOne(inbox, S) /\ (Posts("stop") \in S => ~Some(inbox, S)) =>
           AtMostOne(inbox', S)
      /\ \A S, T : ~Behind(inbox, S, T) /\ (Posts("stop") \in T => ~Some(inbox, S)) =>
           ~Behind(inbox', S, T)
  BY <1>2, StopStep DEF Click
<1>4. /\ Some(inbox', DoneMsgs) <=> Some(inbox, DoneMsgs)
      /\ Some(inbox', SavedMsgs) <=> Some(inbox, SavedMsgs)
      /\ Some(inbox', StartMsgs) <=> Some(inbox, StartMsgs)
      /\ AtMostOne(inbox, DoneMsgs) => AtMostOne(inbox', DoneMsgs)
  BY <1>3, Kinds
<1>5. Scalars'
  BY <1>1, <1>3 DEF Scalars, Places
<1>6. Shapes'
  BY <1>1, <1>3 DEF Shapes
<1>7. CallFlow'
  BY <1>1, <1>2, <1>3 DEF CallFlow
<1>8. Flight'
  BY <1>1, <1>4 DEF Flight, Copies
<1>9. Kept'
  BY <1>1, <1>4 DEF Kept, Untouched
<1>10. ASSUME MaxWaiting <= 1 PROVE Stops' /\ Quiet' /\ Checksums'
  <2>1. Quiet' /\ Checksums'
    BY <1>1, <1>10 DEF Quiet, Checksums, Complete, ChecksumValid, Checksum
  <2>2. CASE stopper = None
    <3>1. ~Some(inbox, StopMsgs) /\ ~(stopPending /\ alive) /\ ~Some(outbox, StoppedMsgs)
      BY <1>10, <2>2 DEF Stops
    <3>2. AtMostOne(inbox', StopMsgs) /\ ~Behind(inbox', StopMsgs, StartMsgs)
      BY <1>3, <1>10, <3>1, BehindNothing, Kinds DEF Stops
    <3>3. ~alive => ~Some(inbox', StopMsgs)
      BY <1>3, <3>1
    <3>4. waiting' = <<>> /\ ~Some(waiting', Users) /\ stopper' = "user"
      BY <1>3, <2>2
    <3> QED
      BY <1>1, <1>10, <2>1, <3>1, <3>2, <3>3, <3>4, <1>3 DEF Stops
  <2>3. CASE stopper # None
    <3>1. stopper' = stopper /\ inbox' = inbox
      BY <1>3, <2>3
    <3> QED
      BY <1>1, <1>2, <1>10, <2>1, <3>1 DEF Stops
  <2> QED
    BY <2>2, <2>3
<1> QED
  BY <1>5, <1>6, <1>7, <1>8, <1>9, <1>10

\* A message to the worker that asks it to start is the only one that may be added.
LEMMA StartSent ==
    ASSUME IInv, inbox' = inbox \/ inbox' = Append(inbox, Posts("start"))
    PROVE  /\ inbox' \in Seq(ToWorker)
           /\ \A S : Posts("start") \notin S => (Some(inbox', S) <=> Some(inbox, S))
           /\ \A S : Posts("start") \notin S /\ AtMostOne(inbox, S) => AtMostOne(inbox', S)
<1>1. inbox \in Seq(ToWorker)
  BY DEF IInv, Shapes
<1>2. CASE inbox' = inbox
  BY <1>1, <1>2
<1>3. CASE inbox' = Append(inbox, Posts("start"))
  <2>1. /\ inbox' \in Seq(ToWorker)
        /\ \A S : Some(inbox', S) <=> Some(inbox, S) \/ Posts("start") \in S
        /\ \A S : AtMostOne(inbox, S) /\ (Posts("start") \in S => ~Some(inbox, S)) =>
             AtMostOne(inbox', S)
    BY <1>1, <1>3, Kinds, QueueAppend
  <2> QED
    BY <2>1
<1> QED
  BY <1>2, <1>3

LEMMA ShowStep == IInv /\ Show => IInv'
<1> SUFFICES ASSUME IInv, Show PROVE IInv'
  OBVIOUS
<1> USE DEF IInv
<1>1. /\ hidden' = FALSE
      /\ UNCHANGED <<mem, dirty, scheduled, loop, pending, stopPending, dead, alive, outbox,
                     stopper, waiting, op, what, seen, held, file, disk, crc, txq, stuck>>
  BY DEF Show, worker, calls, storage
<1>2. /\ inbox' = inbox \/ (alive /\ inbox' = Append(inbox, Posts("start")))
      /\ held => inbox' = inbox
  BY DEF Show, Start
<1>3. /\ inbox' \in Seq(ToWorker)
      /\ \A S : Posts("start") \notin S => (Some(inbox', S) <=> Some(inbox, S))
      /\ \A S : Posts("start") \notin S /\ AtMostOne(inbox, S) => AtMostOne(inbox', S)
  BY <1>2, StartSent
<1>4. /\ Some(inbox', DoneMsgs) <=> Some(inbox, DoneMsgs)
      /\ Some(inbox', SavedMsgs) <=> Some(inbox, SavedMsgs)
      /\ Some(inbox', StopMsgs) <=> Some(inbox, StopMsgs)
      /\ AtMostOne(inbox, DoneMsgs) => AtMostOne(inbox', DoneMsgs)
      /\ AtMostOne(inbox, StopMsgs) => AtMostOne(inbox', StopMsgs)
  BY <1>3, Kinds
<1>5. Scalars'
  BY <1>1 DEF Scalars
<1>6. Shapes'
  BY <1>1, <1>3 DEF Shapes
<1>7. CallFlow'
  BY <1>1, <1>2 DEF CallFlow
<1>8. Flight'
  BY <1>1, <1>4 DEF Flight, Copies
<1>9. Kept'
  BY <1>1, <1>4 DEF Kept
<1>10. ASSUME MaxWaiting <= 1 PROVE Stops' /\ Quiet' /\ Checksums'
  <2>1. stopper = "user" => inbox' = inbox
    BY <1>2, <1>10 DEF Stops
  <2>2. Stops'
    BY <1>1, <1>4, <1>10, <2>1 DEF Stops
  <2>3. Quiet'
    BY <1>1, <1>2, <1>10 DEF Quiet
  <2> QED
    BY <1>1, <1>10, <2>2, <2>3 DEF Checksums, Complete, ChecksumValid, Checksum
<1> QED
  BY <1>5, <1>6, <1>7, <1>8, <1>9, <1>10

-----------------------------------------------------------------------------
(***************************************************************************)
(* database.js: the transactions                                            *)
(***************************************************************************)

\* A transaction ends.
LEMMA TxEnds ==
    ASSUME IInv, txq # <<>>
    PROVE  /\ Tail(txq) \in Seq(Txs) /\ Head(txq) \in Txs
           /\ \A S : Some(txq, S) <=> Head(txq) \in S \/ Some(Tail(txq), S)
           /\ \A S : AtMostOne(txq, S) =>
                AtMostOne(Tail(txq), S) /\ (Head(txq) \in S => ~Some(Tail(txq), S))
           /\ \A S, T : ~Behind(txq, S, T) =>
                ~Behind(Tail(txq), S, T) /\ (Head(txq) \in S => ~Some(Tail(txq), T))
<1>1. txq \in Seq(Txs)
  BY DEF IInv, Shapes
<1> QED
  BY <1>1, QueueTail

\* A snapshot has been stored or not, and the worker is told if it is still there.
LEMMA SnapEnds ==
    ASSUME IInv, NEW success \in BOOLEAN, NEW h, h = Head(txq),
           txq # <<>>, h.op = "snap", txq' = Tail(txq), Answer(success),
           UNCHANGED <<mem, dirty, scheduled, loop, pending, stopPending, dead, alive, outbox,
                       stopper, waiting, op, what, seen, held, hidden, file, stuck>>
    PROVE  /\ h \in SnapTxs /\ inbox' \in Seq(ToWorker) /\ txq' \in Seq(Txs)
           /\ CallFlow' /\ Flight'
           /\ alive => /\ Copies(h) /\ ~Some(outbox, SnapMsgs) /\ ~Some(txq', SnapTxs)
                       /\ Some(inbox', SavedMsgs) => success = TRUE
           /\ MaxWaiting <= 1 => alive /\ Stops' /\ Quiet'
<1> USE DEF IInv
<1>1. /\ txq' \in Seq(Txs) /\ h \in Txs
      /\ \A S : Some(txq, S) <=> h \in S \/ Some(txq', S)
      /\ \A S : AtMostOne(txq, S) => AtMostOne(txq', S) /\ (h \in S => ~Some(txq', S))
      /\ \A S, T : ~Behind(txq, S, T) => ~Behind(txq', S, T)
  BY TxEnds
<1>2. h \in SnapTxs /\ h \notin Calls /\ (h.live <=> h \in LiveTxs) /\ Some(txq, SnapTxs)
  BY <1>1, TxKinds
<1>3. alive <=> h \in LiveTxs
  BY <1>1, <1>2 DEF Flight, CallFlow, Scalars
<1>4. PICK m : m = [type |-> "snapshotDone", success |-> success]
  OBVIOUS
<1>5. m \in DoneMsgs /\ m \in ToWorker /\ (m \in SavedMsgs => success = TRUE)
      /\ m \notin StartMsgs /\ m \notin StopMsgs
  <2>1. m \in DoneMsgs /\ m.success = success /\ m.type = "snapshotDone"
    BY <1>4 DEF DoneMsgs
  <2>2. m \in SavedMsgs => success = TRUE
    BY <2>1 DEF SavedMsgs
  <2> QED
    BY <2>1, <2>2, Kinds DEF ToWorker, StartMsgs, StopMsgs
<1>6. ASSUME alive
      PROVE  /\ inbox' \in Seq(ToWorker)
             /\ \A S : Some(inbox', S) <=> Some(inbox, S) \/ m \in S
             /\ \A S : AtMostOne(inbox, S) /\ (m \in S => ~Some(inbox, S)) => AtMostOne(inbox', S)
             /\ \A S, T : ~Behind(inbox, S, T) /\ (m \in T => ~Some(inbox, S)) =>
                  ~Behind(inbox', S, T)
  <2>1. inbox' = Append(inbox, m)
    BY <1>2, <1>3, <1>4, <1>6 DEF Answer
  <2> QED
    BY <1>5, <2>1, QueueAppend DEF Shapes
<1>7. ASSUME ~alive PROVE inbox' = inbox
  BY <1>2, <1>3, <1>7 DEF Answer
<1>8. inbox' \in Seq(ToWorker)
  BY <1>6, <1>7 DEF Shapes
<1>9. CallFlow'
  BY <1>1, <1>2, <1>7 DEF CallFlow
<1>10. ASSUME alive
       PROVE  /\ Copies(h) /\ ~Some(outbox, SnapMsgs) /\ ~Some(txq', SnapTxs) /\ pending
              /\ ~Some(inbox, DoneMsgs)
  <2>1. /\ AtMostOne(txq, SnapTxs) /\ pending /\ ~Some(outbox, SnapMsgs) /\ ~Some(inbox, DoneMsgs)
        /\ ~Some(txq, {t \in SnapTxs : ~Copies(t)})
    BY <1>2, <1>10 DEF Flight
  <2>2. h \notin {t \in SnapTxs : ~Copies(t)}
    BY <1>1, <2>1
  <2> QED
    BY <1>1, <1>2, <2>1, <2>2
<1>11. alive /\ Some(inbox', SavedMsgs) => success = TRUE
  BY <1>5, <1>6, <1>10, Kinds, QueueSubset
<1>12. Flight'
  <2> SUFFICES ASSUME alive PROVE Flight'
    BY DEF Flight
  <2> DEFINE Bad(S) == {t \in S : ~Copies(t)}
  <2>1. ~Some(outbox', Bad(SnapMsgs)') /\ ~Some(txq', Bad(SnapTxs)')
    <3>1. Bad(SnapMsgs)' \subseteq SnapMsgs /\ Bad(SnapTxs)' \subseteq SnapTxs
      OBVIOUS
    <3> HIDE DEF Bad
    <3> QED
      BY <1>10, <3>1, QueueSubset
  <2>2. ~Some(txq', SnapTxs \ LiveTxs)
    BY <1>1 DEF Flight
  <2>3. AtMostOne(outbox', SnapMsgs) /\ AtMostOne(txq', SnapTxs) /\ AtMostOne(inbox', DoneMsgs)
    BY <1>1, <1>5, <1>6, <1>10 DEF Flight
  <2> QED
    BY <1>10, <2>1, <2>2, <2>3 DEF Flight
<1>13. ASSUME MaxWaiting <= 1 PROVE alive /\ Stops' /\ Quiet'
  <2>1. alive
    BY <1>2, <1>13 DEF Quiet
  <2>2. /\ Some(inbox', StopMsgs) <=> Some(inbox, StopMsgs)
        /\ Some(inbox', StartMsgs) <=> Some(inbox, StartMsgs)
        /\ AtMostOne(inbox, StopMsgs) => AtMostOne(inbox', StopMsgs)
        /\ ~Behind(inbox, StopMsgs, StartMsgs) => ~Behind(inbox', StopMsgs, StartMsgs)
    BY <1>5, <1>6, <2>1
  <2>3. Stops'
    BY <1>13, <2>1, <2>2 DEF Stops
  <2>4. Quiet'
    BY <1>13, <2>1, <2>2 DEF Quiet
  <2> QED
    BY <2>1, <2>3, <2>4
<1> QED
  BY <1>1, <1>2, <1>8, <1>9, <1>10, <1>11, <1>12, <1>13

LEMMA SnapFailsStep == IInv /\ SnapFails => IInv'
<1> SUFFICES ASSUME IInv, SnapFails PROVE IInv'
  OBVIOUS
<1> USE DEF IInv
<1>0. PICK h : h = Head(txq)
  OBVIOUS
<1>1. /\ UNCHANGED <<mem, dirty, scheduled, loop, pending, stopPending, dead, alive, outbox,
                     stopper, waiting, op, what, seen, held, hidden, file, disk, crc, stuck>>
      /\ txq # <<>> /\ h.op = "snap" /\ txq' = Tail(txq) /\ Answer(FALSE)
  BY <1>0 DEF SnapFails, worker, calls, page
<1>2. /\ h \in SnapTxs /\ inbox' \in Seq(ToWorker) /\ txq' \in Seq(Txs) /\ CallFlow' /\ Flight'
      /\ alive => ~Some(outbox, SnapMsgs) /\ ~Some(txq', SnapTxs) /\ ~Some(inbox', SavedMsgs)
      /\ MaxWaiting <= 1 => alive /\ Stops' /\ Quiet'
  BY <1>0, <1>1, SnapEnds
<1>3. Scalars'
  BY <1>1 DEF Scalars
<1>4. Shapes'
  BY <1>1, <1>2 DEF Shapes
<1>5. Kept'
  BY <1>1, <1>2 DEF Kept
<1>6. ASSUME MaxWaiting <= 1 PROVE Checksums'
  <2> DEFINE Partial(S) == {t \in S : ~Complete(t)}
  <2>1. ~Some(outbox', Partial(SnapMsgs)') /\ ~Some(txq', Partial(SnapTxs)')
    <3>1. Partial(SnapMsgs)' \subseteq SnapMsgs /\ Partial(SnapTxs)' \subseteq SnapTxs
      OBVIOUS
    <3> HIDE DEF Partial
    <3> QED
      BY <1>1, <1>2, <1>6, <3>1, QueueSubset
  <2> QED
    BY <1>1, <1>6, <2>1 DEF Checksums, ChecksumValid, Checksum
<1> QED
  BY <1>2, <1>3, <1>4, <1>5, <1>6

LEMMA SnapCommitsStep == IInv /\ SnapCommits => IInv'
<1> SUFFICES ASSUME IInv, SnapCommits PROVE IInv'
  OBVIOUS
<1> USE DEF IInv
<1>0. PICK h : h = Head(txq)
  OBVIOUS
<1>1. /\ UNCHANGED <<mem, dirty, scheduled, loop, pending, stopPending, dead, alive, outbox,
                     stopper, waiting, op, what, seen, held, hidden, file, stuck>>
      /\ txq # <<>> /\ h.op = "snap" /\ txq' = Tail(txq) /\ Answer(TRUE)
      /\ disk' = Overlay(h.pages, h.image, disk) /\ crc' = StoredChecksums(h.pages, h.image)
  BY <1>0 DEF SnapCommits, worker, calls, page
<1>2. /\ h \in SnapTxs /\ inbox' \in Seq(ToWorker) /\ txq' \in Seq(Txs) /\ CallFlow' /\ Flight'
      /\ alive => Copies(h) /\ ~Some(outbox, SnapMsgs) /\ ~Some(txq', SnapTxs)
      /\ MaxWaiting <= 1 => alive /\ Stops' /\ Quiet'
  BY <1>0, <1>1, SnapEnds
<1>3. h.pages \in SUBSET Pages /\ h.image \in [Pages -> Vals]
  BY <1>2 DEF SnapTxs
<1>4. /\ disk' \in [Pages -> Vals]
      /\ \A p \in Pages : disk'[p] = IF p \in h.pages THEN h.image[p] ELSE disk[p]
  BY <1>1, <1>3 DEF Overlay, Scalars
<1>5. Scalars'
  BY <1>1, <1>4 DEF Scalars
<1>6. /\ crc' = [r \in Regions |-> crc'[r]]
      /\ \A r \in Regions : \/ r \cap h.pages = {} /\ crc'[r] = crc[r]
                            \/ crc'[r] = [p \in r |-> h.image[p]]
  BY <1>1 DEF StoredChecksums, Checksum
<1>7. Shapes'
  <2>1. \A r \in Regions : r \subseteq Pages
    BY DEF Regions, Pages
  <2>2. \A r \in Regions : [p \in r |-> h.image[p]] \in [r -> Vals]
    BY <1>3, <2>1
  <2>3. \A r \in Regions : crc'[r] = None \/ crc'[r] \in [r -> Vals]
    BY <1>6, <2>2 DEF Shapes
  <2> QED
    BY <1>1, <1>2, <1>6, <2>3 DEF Shapes
<1>8. Kept'
  <2>1. ASSUME alive, op \in Untouched, NEW p \in Reliable, mem[p] # disk'[p] PROVE p \in dirty
    <3>1. CASE p \in h.pages
      BY <1>2, <1>4, <2>1, <3>1, ReliablePages DEF Copies
    <3>2. CASE p \notin h.pages
      BY <1>2, <1>4, <2>1, <3>2, ReliablePages DEF Copies, Kept
    <3> QED
      BY <3>1, <3>2
  <2>2. ASSUME op = "restart" PROVE Reliable \ Ram = {}
    <3>1. ~(MaxWaiting <= 1)
      BY <1>2, <2>2 DEF CallFlow
    <3> QED
      BY <3>1 DEF Reliable
  <2> QED
    BY <1>1, <2>1, <2>2 DEF Kept
<1>9. ASSUME MaxWaiting <= 1 PROVE Checksums'
  <2> DEFINE Partial(S) == {t \in S : ~Complete(t)}
  <2>1. ~Some(outbox', Partial(SnapMsgs)') /\ ~Some(txq', Partial(SnapTxs)')
    <3>1. Partial(SnapMsgs)' \subseteq SnapMsgs /\ Partial(SnapTxs)' \subseteq SnapTxs
      OBVIOUS
    <3> HIDE DEF Partial
    <3> QED
      BY <1>1, <1>2, <1>9, <3>1, QueueSubset
  <2>2. \A p \in Reliable \ h.pages : h.image[p] = disk[p]
    <3>1. h \notin {t \in SnapTxs : ~Complete(t)}
      BY <1>0, <1>1, <1>9, TxEnds DEF Checksums
    <3> QED
      BY <1>2, <3>1 DEF Complete
  <2>3. ASSUME NEW r \in Regions, r \subseteq Reliable PROVE ChecksumValid(r)'
    <3>1. CASE r \cap h.pages = {} /\ crc'[r] = crc[r]
      <4>1. \A p \in r : disk'[p] = disk[p]
        BY <1>4, <2>3, <3>1, ReliablePages
      <4>2. [p \in r |-> disk'[p]] = [p \in r |-> disk[p]]
        BY <4>1
      <4>3. crc[r] # None => crc[r] = [p \in r |-> disk[p]]
        BY <1>9, <2>3 DEF Checksums, ChecksumValid, Checksum
      <4> QED
        BY <3>1, <4>2, <4>3 DEF ChecksumValid, Checksum
    <3>2. CASE crc'[r] = [p \in r |-> h.image[p]]
      <4>1. \A p \in r : disk'[p] = h.image[p]
        BY <1>4, <2>2, <2>3, ReliablePages
      <4> QED
        BY <3>2, <4>1 DEF ChecksumValid, Checksum
    <3> QED
      BY <1>6, <3>1, <3>2
  <2> QED
    BY <2>1, <2>3 DEF Checksums
<1> QED
  BY <1>2, <1>5, <1>7, <1>8, <1>9

LEMMA HangsStep == IInv /\ Hangs => IInv'
<1> SUFFICES ASSUME IInv, Hangs PROVE IInv'
  OBVIOUS
<1> USE DEF IInv
<1>0. PICK h : h = Head(txq)
  OBVIOUS
<1>1. /\ UNCHANGED <<mem, dirty, scheduled, loop, pending, stopPending, dead, alive, inbox, outbox,
                     stopper, waiting, what, seen, held, hidden, file, disk, crc>>
      /\ stuck' = TRUE /\ txq # <<>> /\ txq' = Tail(txq)
      /\ op' = IF h.op = "call" THEN "lost" ELSE op
  BY <1>0 DEF Hangs, worker, page
<1>2. /\ txq' \in Seq(Txs) /\ h \in Txs
      /\ \A S : Some(txq, S) <=> h \in S \/ Some(txq', S)
      /\ \A S : AtMostOne(txq, S) => AtMostOne(txq', S) /\ (h \in S => ~Some(txq', S))
      /\ \A S, T : ~Behind(txq, S, T) => ~Behind(txq', S, T)
  BY <1>0, <1>1, TxEnds
<1>3. Scalars'
  BY <1>1 DEF Scalars, Places
<1>4. Shapes'
  BY <1>1, <1>2 DEF Shapes
<1>5. \/ op' = op /\ (Some(txq', Calls) => Some(txq, Calls))
      \/ op' = "lost" /\ Some(txq, Calls) /\ ~Some(txq', Calls)
  BY <1>1, <1>2, TxKinds DEF CallFlow
<1>6. CallFlow'
  BY <1>1, <1>2, <1>5 DEF CallFlow
<1>7. Flight'
  <2> DEFINE Bad(S) == {t \in S : ~Copies(t)}
  <2>1. Bad(SnapMsgs)' = Bad(SnapMsgs) /\ Bad(SnapTxs)' = Bad(SnapTxs)
    BY <1>1 DEF Copies
  <2>2. alive => ~Some(outbox', Bad(SnapMsgs)') /\ ~Some(txq', Bad(SnapTxs)')
    BY <1>1, <1>2, <2>1 DEF Flight
  <2> QED
    BY <1>1, <1>2, <2>2 DEF Flight
<1>8. Kept'
  BY <1>1, <1>5 DEF Kept, Untouched
<1>9. ASSUME MaxWaiting <= 1 PROVE Stops' /\ Quiet' /\ Checksums'
  <2>1. Stops'
    BY <1>1, <1>9 DEF Stops
  <2>2. Quiet'
    BY <1>1, <1>2, <1>5, <1>9 DEF Quiet, CallFlow
  <2> DEFINE Partial(S) == {t \in S : ~Complete(t)}
  <2>3. Partial(SnapMsgs)' = Partial(SnapMsgs) /\ Partial(SnapTxs)' = Partial(SnapTxs)
    BY <1>1 DEF Complete
  <2>4. ~Some(outbox', Partial(SnapMsgs)') /\ ~Some(txq', Partial(SnapTxs)')
    BY <1>1, <1>2, <1>9, <2>3 DEF Checksums
  <2> QED
    BY <1>1, <1>9, <2>1, <2>2, <2>4 DEF Checksums, ChecksumValid, Checksum
<1> QED
  BY <1>3, <1>4, <1>6, <1>7, <1>8, <1>9

-----------------------------------------------------------------------------
(***************************************************************************)
(* index.js: exports, uploads and restarts                                  *)
(***************************************************************************)

\* A call of the page is next: it is the only one, and the snapshots behind it stay.
LEMMA CallNext ==
    ASSUME IInv, txq # <<>>, Head(txq).op = "call"
    PROVE  /\ Head(txq) \in Calls /\ Some(txq, Calls)
           /\ op \in {"ram", "nand", "put", "put2", "put3", "restart"}
           /\ stopper # "user" /\ ~Some(waiting, Users)
           /\ Tail(txq) \in Seq(Txs) /\ ~Some(Tail(txq), Calls)
           /\ \A S \in SUBSET SnapTxs : Some(Tail(txq), S) <=> Some(txq, S)
           /\ AtMostOne(txq, SnapTxs) => AtMostOne(Tail(txq), SnapTxs)
           /\ AtMostOne(Tail(txq), Calls)
<1>1. /\ Tail(txq) \in Seq(Txs) /\ Head(txq) \in Txs
      /\ \A S : Some(txq, S) <=> Head(txq) \in S \/ Some(Tail(txq), S)
      /\ \A S : AtMostOne(txq, S) =>
           AtMostOne(Tail(txq), S) /\ (Head(txq) \in S => ~Some(Tail(txq), S))
  BY TxEnds
<1>2. Head(txq) \in Calls /\ Head(txq) \notin SnapTxs
  BY <1>1, TxKinds
<1>3. Some(txq, Calls) /\ AtMostOne(txq, Calls)
  BY <1>1, <1>2 DEF IInv, CallFlow
<1>4. /\ op \in {"ram", "nand", "put", "put2", "put3", "restart"}
      /\ stopper # "user" /\ ~Some(waiting, Users)
  BY <1>3 DEF IInv, CallFlow
<1> QED
  BY <1>1, <1>2, <1>3, <1>4

\* A call of the page ends, and the next one follows.
LEMMA CallAfterCall ==
    ASSUME IInv, txq # <<>>, Head(txq).op = "call", txq' = Append(Tail(txq), Call)
    PROVE  /\ txq' \in Seq(Txs) /\ AtMostOne(txq', Calls)
           /\ \A S \in SUBSET SnapTxs : Some(txq', S) <=> Some(txq, S)
           /\ AtMostOne(txq, SnapTxs) => AtMostOne(txq', SnapTxs)
<1>0. PICK t : t = Tail(txq)
  OBVIOUS
<1>1. /\ t \in Seq(Txs) /\ ~Some(t, Calls) /\ AtMostOne(t, Calls)
      /\ \A S \in SUBSET SnapTxs : Some(t, S) <=> Some(txq, S)
      /\ AtMostOne(txq, SnapTxs) => AtMostOne(t, SnapTxs)
  BY <1>0, CallNext
<1>2. txq' = Append(t, Call)
  BY <1>0
<1>3. /\ txq' \in Seq(Txs)
      /\ \A S : Some(txq', S) <=> Some(t, S) \/ Call \in S
      /\ \A S : AtMostOne(t, S) /\ (Call \in S => ~Some(t, S)) => AtMostOne(txq', S)
  BY ONLY <1>1, <1>2, Kinds, QueueAppend
<1> QED
  BY <1>1, <1>3, Kinds

\* The same for the parts of the invariant that look at the queue of transactions, when
\* the worker, the pages and the disk stay as they are.
LEMMA FlightKept ==
    ASSUME IInv,
           \A S \in SUBSET SnapTxs : Some(txq', S) <=> Some(txq, S),
           AtMostOne(txq, SnapTxs) => AtMostOne(txq', SnapTxs),
           \A S : Posts("start") \notin S => (Some(inbox', S) <=> Some(inbox, S)),
           \A S : Posts("start") \notin S /\ AtMostOne(inbox, S) => AtMostOne(inbox', S),
           UNCHANGED <<mem, dirty, scheduled, pending, alive, outbox>>
    PROVE  Flight'
<1> DEFINE Bad(S) == {t \in S : ~Copies(t)}
<1>1. /\ Bad(SnapMsgs)' = Bad(SnapMsgs) /\ Bad(SnapTxs)' = Bad(SnapTxs)
      /\ Bad(SnapTxs) \in SUBSET SnapTxs
  BY DEF Copies
<1>2. alive => ~Some(outbox', Bad(SnapMsgs)') /\ ~Some(txq', Bad(SnapTxs)')
  BY <1>1 DEF IInv, Flight
<1>3. /\ Some(inbox', DoneMsgs) <=> Some(inbox, DoneMsgs)
      /\ AtMostOne(inbox, DoneMsgs) => AtMostOne(inbox', DoneMsgs)
  BY Kinds
<1>4. /\ Some(txq', SnapTxs) <=> Some(txq, SnapTxs)
      /\ Some(txq', SnapTxs \ LiveTxs) <=> Some(txq, SnapTxs \ LiveTxs)
  OBVIOUS
<1> QED
  BY <1>2, <1>3, <1>4 DEF IInv, Flight

LEMMA ChecksumsKept ==
    ASSUME IInv, Checksums,
           \A S \in SUBSET SnapTxs : Some(txq', S) <=> Some(txq, S),
           UNCHANGED <<outbox, disk, crc>>
    PROVE  Checksums'
<1> DEFINE Partial(S) == {t \in S : ~Complete(t)}
<1>1. /\ Partial(SnapMsgs)' = Partial(SnapMsgs) /\ Partial(SnapTxs)' = Partial(SnapTxs)
      /\ Partial(SnapTxs) \in SUBSET SnapTxs
  BY DEF Complete
<1>2. ~Some(outbox', Partial(SnapMsgs)') /\ ~Some(txq', Partial(SnapTxs)')
  BY <1>1 DEF Checksums
<1> QED
  BY <1>2 DEF Checksums, ChecksumValid, Checksum

LEMMA ExportRamStep == IInv /\ ExportRam => IInv'
<1> SUFFICES ASSUME IInv, ExportRam PROVE IInv'
  OBVIOUS
<1> USE DEF IInv
<1>1. /\ UNCHANGED <<mem, dirty, scheduled, loop, pending, stopPending, dead, alive, inbox, outbox,
                     stopper, waiting, what, held, hidden, file, disk, crc, stuck>>
      /\ op = "ram" /\ op' = "nand" /\ seen' = [p \in Ram |-> disk[p]]
      /\ txq # <<>> /\ Head(txq).op = "call" /\ txq' = Append(Tail(txq), Call)
  BY DEF ExportRam, CallAt, Checksum, worker, page
<1>2. /\ txq' \in Seq(Txs) /\ AtMostOne(txq', Calls)
      /\ \A S \in SUBSET SnapTxs : Some(txq', S) <=> Some(txq, S)
      /\ AtMostOne(txq, SnapTxs) => AtMostOne(txq', SnapTxs)
  BY <1>1, CallAfterCall
<1>3. alive
  BY <1>1 DEF CallFlow
<1>4. Scalars'
  <2>1. seen' \in [Ram -> Vals]
    BY <1>1 DEF Scalars, Pages
  <2> QED
    BY <1>1, <2>1 DEF Scalars, Places
<1>5. Shapes'
  BY <1>1, <1>2 DEF Shapes
<1>6. CallFlow'
  BY <1>1, <1>2, <1>3 DEF CallFlow
<1>7. Flight'
  BY <1>1, <1>2, FlightKept
<1>8. Kept'
  BY <1>1 DEF Kept, Untouched
<1>9. ASSUME MaxWaiting <= 1 PROVE Stops' /\ Quiet' /\ Checksums'
  <2>1. Stops'
    BY <1>1, <1>9 DEF Stops
  <2>2. Quiet'
    BY <1>1, <1>3, <1>9 DEF Quiet
  <2> QED
    BY <1>1, <1>2, <1>9, <2>1, <2>2, ChecksumsKept
<1> QED
  BY <1>4, <1>5, <1>6, <1>7, <1>8, <1>9

LEMMA ExportNandStep == IInv /\ ExportNand => IInv'
<1> SUFFICES ASSUME IInv, ExportNand PROVE IInv'
  OBVIOUS
<1> USE DEF IInv
<1>1. /\ UNCHANGED <<mem, dirty, scheduled, loop, pending, stopPending, dead, alive, outbox,
                     stopper, waiting, what, seen, hidden, file, disk, crc, stuck>>
      /\ op = "nand" /\ op' = "idle" /\ held' = FALSE
      /\ inbox' = inbox \/ inbox' = Append(inbox, Posts("start"))
      /\ txq # <<>> /\ Head(txq).op = "call" /\ txq' = Tail(txq)
  BY DEF ExportNand, CallAt, Resume, worker
<1>2. /\ txq' \in Seq(Txs) /\ AtMostOne(txq', Calls) /\ ~Some(txq', Calls)
      /\ stopper # "user" /\ ~Some(waiting, Users)
      /\ \A S \in SUBSET SnapTxs : Some(txq', S) <=> Some(txq, S)
      /\ AtMostOne(txq, SnapTxs) => AtMostOne(txq', SnapTxs)
  BY <1>1, CallNext
<1>3. alive
  BY <1>1 DEF CallFlow
<1>4. /\ inbox' \in Seq(ToWorker)
      /\ \A S : Posts("start") \notin S => (Some(inbox', S) <=> Some(inbox, S))
      /\ \A S : Posts("start") \notin S /\ AtMostOne(inbox, S) => AtMostOne(inbox', S)
  BY <1>1, StartSent
<1>5. Scalars'
  BY <1>1 DEF Scalars, Places
<1>6. Shapes'
  BY <1>1, <1>2, <1>4 DEF Shapes
<1>7. CallFlow'
  BY <1>1, <1>2, <1>3 DEF CallFlow
<1>8. Flight'
  BY <1>1, <1>2, <1>4, FlightKept
<1>9. Kept'
  <2>1. Some(inbox', SavedMsgs) <=> Some(inbox, SavedMsgs)
    BY <1>4, Kinds
  <2> QED
    BY <1>1, <2>1 DEF Kept, Untouched
<1>10. ASSUME MaxWaiting <= 1 PROVE Stops' /\ Quiet' /\ Checksums'
  <2>1. /\ Some(inbox', StopMsgs) <=> Some(inbox, StopMsgs)
        /\ AtMostOne(inbox, StopMsgs) => AtMostOne(inbox', StopMsgs)
    BY <1>4, Kinds
  <2>2. Stops'
    BY <1>1, <1>2, <1>10, <2>1 DEF Stops
  <2>3. Quiet'
    BY <1>1, <1>3 DEF Quiet
  <2> QED
    BY <1>1, <1>2, <1>10, <2>2, <2>3, ChecksumsKept
<1> QED
  BY <1>5, <1>6, <1>7, <1>8, <1>9, <1>10

\* A worker is terminated: the transactions of its snapshots stay, without anyone to tell.
LEMMA Orphans ==
    ASSUME NEW q \in Seq(SnapTxs),
           NEW r, r = [i \in 1 .. Len(q) |-> [q[i] EXCEPT !.live = FALSE]]
    PROVE  /\ r \in Seq(Txs) /\ AtMostOne(r, Calls)
           /\ ~Some(r, Calls) /\ ~Some(r, LiveTxs) /\ (Some(r, SnapTxs) => Some(q, SnapTxs))
<1>1. ASSUME NEW t \in SnapTxs
      PROVE  LET o == [t EXCEPT !.live = FALSE] IN o \in SnapTxs /\ o.live = FALSE
  BY <1>1 DEF SnapTxs
<1>2. Len(q) \in Nat /\ \A i \in 1 .. Len(q) : q[i] \in SnapTxs
  OBVIOUS
<1>3. \A i \in 1 .. Len(q) : r[i] \in SnapTxs /\ r[i].live = FALSE
  BY <1>1, <1>2
<1>4. r \in Seq(SnapTxs) /\ Len(r) = Len(q)
  BY <1>2, <1>3
<1>5. \A t \in SnapTxs : t \in Txs /\ t \notin Calls /\ (t.live = FALSE => t \notin LiveTxs)
  BY TxKinds DEF Txs, LiveTxs
<1>6. r \in Seq(Txs) /\ \A i \in 1 .. Len(r) : r[i] \notin Calls /\ r[i] \notin LiveTxs
  BY <1>3, <1>4, <1>5
<1>7. Some(r, SnapTxs) => Some(q, SnapTxs)
  BY <1>2, <1>4 DEF Some
<1> QED
  BY <1>6, <1>7 DEF Some, AtMostOne

LEMMA RestartQueue ==
    ASSUME IInv, txq # <<>>, Head(txq).op = "call", Restart
    PROVE  /\ txq' \in Seq(Txs) /\ AtMostOne(txq', Calls)
           /\ ~Some(txq', LiveTxs) /\ ~Behind(txq', Calls, SnapTxs)
           /\ Some(txq', SnapTxs) => Some(txq, SnapTxs)
<1>0. PICK t : t = Tail(txq)
  OBVIOUS
<1>1. /\ t \in Seq(Txs) /\ ~Some(t, Calls)
      /\ Some(t, SnapTxs) <=> Some(txq, SnapTxs)
  BY <1>0, CallNext
<1>2. t \in Seq(SnapTxs)
  BY <1>1 DEF Some, Txs
<1>3. PICK r : r = [i \in 1 .. Len(t) |-> [t[i] EXCEPT !.live = FALSE]]
  OBVIOUS
<1>4. /\ r \in Seq(Txs) /\ AtMostOne(r, Calls)
      /\ ~Some(r, Calls) /\ ~Some(r, LiveTxs) /\ (Some(r, SnapTxs) => Some(t, SnapTxs))
  BY <1>2, <1>3, Orphans
<1>5. txq' = Append(r, Call)
  BY <1>0, <1>3 DEF Restart
<1>6. /\ txq' \in Seq(Txs)
      /\ \A S : Some(txq', S) <=> Some(r, S) \/ Call \in S
      /\ \A S : AtMostOne(r, S) /\ (Call \in S => ~Some(r, S)) => AtMostOne(txq', S)
      /\ \A S, T : ~Behind(r, S, T) /\ (Call \in T => ~Some(r, S)) => ~Behind(txq', S, T)
  BY ONLY <1>4, <1>5, Kinds, QueueAppend
<1>7. ~Behind(r, Calls, SnapTxs)
  BY <1>4, BehindNothing
<1> QED
  BY <1>1, <1>4, <1>6, <1>7, Kinds

\* An upload or import ends in restart(), with images and checksums that fit.
LEMMA RestartStep ==
    ASSUME IInv, txq # <<>>, Head(txq).op = "call", Restart,
           op \in {"put", "put2", "put3"},
           UNCHANGED <<what, seen, held, hidden, stuck>>,
           disk' \in [Pages -> Vals], file' \in [Nand \cup Sd -> Vals],
           crc' = [r \in Regions |-> crc'[r]],
           \A r \in Regions : crc'[r] = None \/ crc'[r] \in [r -> Vals],
           \A p \in Reliable \ Ram : file'[p] = disk'[p],
           MaxWaiting <= 1 => \A r \in Regions : r \subseteq Reliable => ChecksumValid(r)'
    PROVE  IInv'
<1> USE DEF IInv
<1>1. /\ alive' = FALSE /\ loop' = FALSE /\ inbox' = <<>> /\ outbox' = <<>>
      /\ stopper' = None /\ waiting' = <<>> /\ op' = "restart"
      /\ UNCHANGED <<mem, dirty, scheduled, pending, stopPending, dead>>
  BY DEF Restart
<1>2. /\ txq' \in Seq(Txs) /\ AtMostOne(txq', Calls)
      /\ ~Some(txq', LiveTxs) /\ ~Behind(txq', Calls, SnapTxs)
      /\ Some(txq', SnapTxs) => Some(txq, SnapTxs)
  BY RestartQueue
<1>3. alive
  BY DEF CallFlow
<1>4. Scalars'
  BY <1>1 DEF Scalars, Places
<1>5. Shapes'
  <2>1. /\ inbox' \in Seq(ToWorker) /\ outbox' \in Seq(ToPage)
        /\ waiting' \in Seq({"hide", "user"}) /\ Len(waiting') <= MaxWaiting
    BY <1>1, UarmAssumption
  <2> QED
    BY <1>2, <2>1 DEF Shapes
<1>6. CallFlow'
  <2>1. ~Some(waiting', Users) /\ stopper' # "user"
    BY <1>1, QueueEmpty, UarmAssumption
  <2> QED
    BY <1>1, <1>2, <2>1 DEF CallFlow
<1>7. Flight'
  BY <1>1 DEF Flight
<1>8. Kept'
  BY <1>1 DEF Kept
<1>9. ASSUME MaxWaiting <= 1 PROVE Stops' /\ Quiet' /\ Checksums'
  <2>1. /\ ~Some(inbox', StopMsgs) /\ AtMostOne(inbox', StopMsgs) /\ ~Some(waiting', Users)
        /\ ~Some(outbox', StoppedMsgs) /\ AtMostOne(outbox', StoppedMsgs) /\ stopper' # "user"
    BY <1>1, QueueEmpty, UarmAssumption
  <2>2. Stops'
    BY <1>1, <2>1 DEF Stops
  <2>3. ~Some(txq', SnapTxs)
    BY <1>2, <1>3, <1>9, NotPending DEF Quiet
  <2>4. Quiet'
    BY <1>1, <2>3 DEF Quiet
  <2> DEFINE Partial(S) == {t \in S : ~Complete(t)}
  <2>5. ~Some(outbox', Partial(SnapMsgs)') /\ ~Some(txq', Partial(SnapTxs)')
    <3>1. Partial(SnapTxs)' \subseteq SnapTxs
      OBVIOUS
    <3> HIDE DEF Partial
    <3> QED
      BY <1>1, <2>3, <3>1, QueueSubset, QueueEmpty
  <2> QED
    BY <1>9, <2>2, <2>4, <2>5 DEF Checksums
<1> QED
  BY <1>4, <1>5, <1>6, <1>7, <1>8, <1>9

\* An import replaces no image that is relied on.
LEMMA SessionReliable ==
    ASSUME IInv, what = "session" PROVE Reliable \ Ram = {}
<1>1. "session" \in Uploads
  BY DEF IInv, Scalars
<1> QED
  BY <1>1 DEF Reliable

\* The images of an upload are images.
LEMMA UploadedType == \A kind : \A f \in Uploaded(kind) : f \in [Nand \cup Sd -> Vals]
BY DEF Uploaded

\* What an upload does to the pages and the checksums of the regions.
LEMMA ChecksumsReplaced ==
    ASSUME IInv, NEW R \in SUBSET Regions,
           \A r \in Regions : crc'[r] = IF r \in R THEN None ELSE crc[r],
           \A r \in Regions \ R : \A p \in r : disk'[p] = disk[p]
    PROVE  /\ \A r \in Regions : crc'[r] = None \/ crc'[r] \in [r -> Vals]
           /\ MaxWaiting <= 1 => \A r \in Regions : r \subseteq Reliable => ChecksumValid(r)'
<1>1. \A r \in Regions : crc'[r] = None \/ crc'[r] \in [r -> Vals]
  BY DEF IInv, Shapes
<1>2. ASSUME MaxWaiting <= 1, NEW r \in Regions, r \subseteq Reliable PROVE ChecksumValid(r)'
  <2>1. CASE r \in R
    BY <2>1 DEF ChecksumValid
  <2>2. CASE r \notin R
    <3>1. crc'[r] = crc[r] /\ [p \in r |-> disk'[p]] = [p \in r |-> disk[p]]
      BY <2>2
    <3>2. crc[r] # None => crc[r] = [p \in r |-> disk[p]]
      BY <1>2 DEF IInv, Checksums, ChecksumValid, Checksum
    <3> QED
      BY <3>1, <3>2 DEF ChecksumValid, Checksum
  <2> QED
    BY <2>1, <2>2
<1> QED
  BY <1>1, <1>2

LEMMA PutImageStep == IInv /\ PutImage => IInv'
<1> SUFFICES ASSUME IInv, PutImage PROVE IInv'
  OBVIOUS
<1>1. /\ txq # <<>> /\ Head(txq).op = "call" /\ op = "put" /\ what # "session" /\ Restart
      /\ UNCHANGED <<what, seen, held, hidden, stuck>>
  BY DEF PutImage, CallAt
<1>2. PICK f \in Uploaded(what) :
        /\ file' = f
        /\ disk' = LET image == [p \in Pages |-> IF p \in Stored(what) THEN f[p] ELSE disk[p]]
                   IN  IF what = "sd" THEN image ELSE Cleared(image)
  BY DEF PutImage
<1>3. f \in [Nand \cup Sd -> Vals] /\ disk \in [Pages -> Vals] /\ Empty \in Vals
      /\ what \in Uploads /\ Uploads \subseteq {"nor", "nand", "sd", "session"}
  BY <1>1, UploadedType, UarmAssumption DEF IInv, Scalars, CallFlow
<1>4. Stored(what) \subseteq Nand \cup Sd /\ Stored(what) \subseteq Pages
  BY DEF Stored, Pages
<1>5. /\ disk' \in [Pages -> Vals]
      /\ \A p \in Pages : disk'[p] = IF p \in Ram /\ what # "sd" THEN Empty
                                     ELSE IF p \in Stored(what) THEN f[p] ELSE disk[p]
  <2> DEFINE image == [p \in Pages |-> IF p \in Stored(what) THEN f[p] ELSE disk[p]]
  <2>1. /\ image \in [Pages -> Vals]
        /\ \A p \in Pages : image[p] = IF p \in Stored(what) THEN f[p] ELSE disk[p]
    BY <1>3, <1>4
  <2>2. disk' = IF what = "sd" THEN image ELSE Cleared(image)
    BY <1>2
  <2> HIDE DEF image
  <2> QED
    BY <1>3, <2>1, <2>2 DEF Cleared
<1>6. \A p \in Reliable \ Ram : file'[p] = disk'[p]
  <2> SUFFICES ASSUME NEW p \in Reliable \ Ram PROVE f[p] = disk'[p]
    BY <1>2
  <2>1. \/ p \in Nand /\ Uploads \subseteq {"nand"}
        \/ p \in Sd /\ Uploads \subseteq {"sd"}
    BY DEF Reliable
  <2>2. p \in Stored(what) /\ p \in Pages
    BY <1>3, <2>1 DEF Stored, Pages
  <2> QED
    BY <1>5, <2>2
<1>7. PICK R : R = {r \in Regions : r = Stored(what) \/ (r = Ram /\ what # "sd")}
  OBVIOUS
<1>8. /\ R \in SUBSET Regions
      /\ \A r \in Regions : crc'[r] = IF r \in R THEN None ELSE crc[r]
      /\ crc' = [r \in Regions |-> crc'[r]]
  BY <1>7 DEF PutImage
<1>9. \A r \in Regions \ R : \A p \in r : disk'[p] = disk[p]
  <2> SUFFICES ASSUME NEW r \in Regions \ R, NEW p \in r PROVE disk'[p] = disk[p]
    OBVIOUS
  <2>1. p \in Pages
    BY DEF Regions, Pages
  <2>2. p \notin Stored(what)
    BY <1>7, UarmAssumption DEF Regions, Stored
  <2>3. p \in Ram => what = "sd"
    BY <1>7, UarmAssumption DEF Regions
  <2> QED
    BY <1>5, <2>1, <2>2, <2>3
<1>10. /\ \A r \in Regions : crc'[r] = None \/ crc'[r] \in [r -> Vals]
       /\ MaxWaiting <= 1 => \A r \in Regions : r \subseteq Reliable => ChecksumValid(r)'
  BY <1>8, <1>9, ChecksumsReplaced
<1> QED
  BY <1>1, <1>2, <1>3, <1>5, <1>6, <1>8, <1>10, RestartStep

\* A step of an import that is not the last one.
LEMMA PutSession ==
    ASSUME IInv, txq # <<>>, Head(txq).op = "call", txq' = Append(Tail(txq), Call),
           op \in {"put", "put2"}, op' \in {"put2", "put3"}, what = "session",
           UNCHANGED <<mem, dirty, scheduled, loop, pending, stopPending, dead, alive, inbox, outbox,
                       stopper, waiting, what, seen, held, hidden, stuck>>,
           disk' \in [Pages -> Vals], file' \in [Nand \cup Sd -> Vals],
           crc' = [r \in Regions |-> crc'[r]],
           \A r \in Regions : crc'[r] = None \/ crc'[r] \in [r -> Vals],
           MaxWaiting <= 1 => \A r \in Regions : r \subseteq Reliable => ChecksumValid(r)'
    PROVE  IInv'
<1> USE DEF IInv
<1>1. /\ txq' \in Seq(Txs) /\ AtMostOne(txq', Calls)
      /\ \A S \in SUBSET SnapTxs : Some(txq', S) <=> Some(txq, S)
      /\ AtMostOne(txq, SnapTxs) => AtMostOne(txq', SnapTxs)
  BY CallAfterCall
<1>2. alive /\ stopper # "user" /\ ~Some(waiting, Users)
  BY DEF CallFlow
<1>3. Scalars'
  BY DEF Scalars, Places
<1>4. Shapes'
  BY <1>1 DEF Shapes
<1>5. CallFlow'
  BY <1>1, <1>2 DEF CallFlow
<1>6. Flight'
  BY <1>1, FlightKept
<1>7. Kept'
  BY DEF Kept, Untouched
<1>8. ASSUME MaxWaiting <= 1 PROVE Stops' /\ Quiet' /\ Checksums'
  <2>1. Stops'
    BY <1>8 DEF Stops
  <2>2. Quiet'
    BY <1>2, <1>8 DEF Quiet
  <2>3. ~Some(outbox, SnapMsgs) /\ ~Some(txq', SnapTxs)
    BY <1>1, <1>2, <1>8, NotPending DEF Quiet
  <2> DEFINE Partial(S) == {t \in S : ~Complete(t)}
  <2>4. ~Some(outbox', Partial(SnapMsgs)') /\ ~Some(txq', Partial(SnapTxs)')
    <3>1. Partial(SnapMsgs)' \subseteq SnapMsgs /\ Partial(SnapTxs)' \subseteq SnapTxs
      OBVIOUS
    <3> HIDE DEF Partial
    <3> QED
      BY <2>3, <3>1, QueueSubset
  <2> QED
    BY <1>8, <2>1, <2>2, <2>4 DEF Checksums
<1> QED
  BY <1>3, <1>4, <1>5, <1>6, <1>7, <1>8

LEMMA PutSessionNorStep == IInv /\ PutSessionNor => IInv'
<1> SUFFICES ASSUME IInv, PutSessionNor PROVE IInv'
  OBVIOUS
<1>1. /\ txq # <<>> /\ Head(txq).op = "call" /\ op = "put" /\ what = "session"
      /\ file' \in Uploaded(what) /\ disk' = Cleared(disk) /\ crc' = [crc EXCEPT ![Ram] = None]
      /\ op' = "put2" /\ txq' = Append(Tail(txq), Call)
      /\ UNCHANGED <<mem, dirty, scheduled, loop, pending, stopPending, dead, alive, inbox, outbox,
                     stopper, waiting, what, seen, held, hidden, stuck>>
  BY DEF PutSessionNor, CallAt, worker
<1>2. disk \in [Pages -> Vals] /\ Empty \in Vals /\ crc = [r \in Regions |-> crc[r]]
  BY UarmAssumption DEF IInv, Scalars, Shapes
<1>3. disk' \in [Pages -> Vals] /\ \A p \in Pages : p \notin Ram => disk'[p] = disk[p]
  BY <1>1, <1>2 DEF Cleared
<1>4. /\ crc' = [r \in Regions |-> crc'[r]]
      /\ \A r \in Regions : crc'[r] = IF r \in {Ram} THEN None ELSE crc[r]
  BY <1>1, <1>2
<1>5. {Ram} \in SUBSET Regions
  BY DEF Regions
<1>6. \A r \in Regions \ {Ram} : \A p \in r : disk'[p] = disk[p]
  BY <1>3, UarmAssumption DEF Regions, Pages
<1>7. /\ \A r \in Regions : crc'[r] = None \/ crc'[r] \in [r -> Vals]
      /\ MaxWaiting <= 1 => \A r \in Regions : r \subseteq Reliable => ChecksumValid(r)'
  BY <1>4, <1>5, <1>6, ChecksumsReplaced
<1> QED
  BY <1>1, <1>3, <1>4, <1>7, UploadedType, PutSession

LEMMA PutSessionNandStep == IInv /\ PutSessionNand => IInv'
<1> SUFFICES ASSUME IInv, PutSessionNand PROVE IInv'
  OBVIOUS
<1>0. PICK image : image = [p \in Pages |-> IF p \in Nand THEN file[p] ELSE disk[p]]
  OBVIOUS
<1>1. /\ txq # <<>> /\ Head(txq).op = "call" /\ op = "put2" /\ what = "session"
      /\ disk' = Cleared(image) /\ crc' = [crc EXCEPT ![Ram] = None, ![Nand] = None]
      /\ op' = "put3" /\ txq' = Append(Tail(txq), Call)
      /\ UNCHANGED <<mem, dirty, scheduled, loop, pending, stopPending, dead, alive, inbox, outbox,
                     stopper, waiting, what, seen, held, hidden, file, stuck>>
  BY <1>0 DEF PutSessionNand, CallAt, worker, page, IInv, CallFlow
<1>2. /\ disk \in [Pages -> Vals] /\ Empty \in Vals /\ file \in [Nand \cup Sd -> Vals]
      /\ crc = [r \in Regions |-> crc[r]]
  BY UarmAssumption DEF IInv, Scalars, Shapes
<1>3. /\ image \in [Pages -> Vals]
      /\ \A p \in Pages : p \notin Nand => image[p] = disk[p]
  BY <1>0, <1>2
<1>4. /\ disk' \in [Pages -> Vals]
      /\ \A p \in Pages : p \notin Ram /\ p \notin Nand => disk'[p] = disk[p]
  BY <1>1, <1>2, <1>3 DEF Cleared
<1>5. /\ crc' = [r \in Regions |-> crc'[r]]
      /\ \A r \in Regions : crc'[r] = IF r \in {Ram, Nand} THEN None ELSE crc[r]
  BY <1>1, <1>2
<1>6. {Ram, Nand} \in SUBSET Regions
  BY DEF Regions
<1>7. \A r \in Regions \ {Ram, Nand} : \A p \in r : disk'[p] = disk[p]
  BY <1>4, UarmAssumption DEF Regions, Pages
<1>8. /\ \A r \in Regions : crc'[r] = None \/ crc'[r] \in [r -> Vals]
      /\ MaxWaiting <= 1 => \A r \in Regions : r \subseteq Reliable => ChecksumValid(r)'
  BY <1>5, <1>6, <1>7, ChecksumsReplaced
<1> QED
  BY <1>1, <1>2, <1>4, <1>5, <1>8, PutSession

LEMMA PutSessionRamStep == IInv /\ PutSessionRam => IInv'
<1> SUFFICES ASSUME IInv, PutSessionRam PROVE IInv'
  OBVIOUS
<1>1. /\ txq # <<>> /\ Head(txq).op = "call" /\ op = "put3" /\ what = "session"
      /\ crc' = [crc EXCEPT ![Ram] = None] /\ Restart
      /\ UNCHANGED <<what, seen, held, hidden, file, stuck>>
  BY DEF PutSessionRam, CallAt, page, IInv, CallFlow
<1>2. PICK ram \in [Ram -> Vals] : disk' = [p \in Pages |-> IF p \in Ram THEN ram[p] ELSE disk[p]]
  BY DEF PutSessionRam
<1>3. /\ disk \in [Pages -> Vals] /\ file \in [Nand \cup Sd -> Vals]
      /\ crc = [r \in Regions |-> crc[r]]
  BY DEF IInv, Scalars, Shapes
<1>4. disk' \in [Pages -> Vals] /\ \A p \in Pages : p \notin Ram => disk'[p] = disk[p]
  BY <1>2, <1>3
<1>5. /\ crc' = [r \in Regions |-> crc'[r]]
      /\ \A r \in Regions : crc'[r] = IF r \in {Ram} THEN None ELSE crc[r]
  BY <1>1, <1>3
<1>6. {Ram} \in SUBSET Regions
  BY DEF Regions
<1>7. \A r \in Regions \ {Ram} : \A p \in r : disk'[p] = disk[p]
  BY <1>4, UarmAssumption DEF Regions, Pages
<1>8. /\ \A r \in Regions : crc'[r] = None \/ crc'[r] \in [r -> Vals]
      /\ MaxWaiting <= 1 => \A r \in Regions : r \subseteq Reliable => ChecksumValid(r)'
  BY <1>5, <1>6, <1>7, ChecksumsReplaced
<1>9. Reliable \ Ram = {}
  BY <1>1, SessionReliable
<1> QED
  BY <1>1, <1>3, <1>4, <1>5, <1>8, <1>9, RestartStep

LEMMA CallFailsStep == IInv /\ CallFails => IInv'
<1> SUFFICES ASSUME IInv, CallFails PROVE IInv'
  OBVIOUS
<1>1. /\ txq # <<>> /\ Head(txq).op = "call"
      /\ UNCHANGED <<what, seen, held, hidden, disk, crc, stuck>>
  BY DEF CallFails
<1>2. CASE what = "session" /\ op \in {"put", "put2", "put3"}
  <2>1. Restart /\ (file' = file \/ file' \in Uploaded(what))
    BY <1>2 DEF CallFails
  <2>2. /\ disk' \in [Pages -> Vals] /\ file' \in [Nand \cup Sd -> Vals]
        /\ crc' = [r \in Regions |-> crc'[r]]
    BY <1>1, <2>1, UploadedType DEF IInv, Scalars, Shapes
  <2>3. /\ \A r \in Regions : crc'[r] = None \/ crc'[r] \in [r -> Vals]
        /\ MaxWaiting <= 1 => \A r \in Regions : r \subseteq Reliable => ChecksumValid(r)'
    BY <1>1 DEF IInv, Shapes, Checksums, ChecksumValid, Checksum
  <2>4. Reliable \ Ram = {}
    BY <1>2, SessionReliable
  <2> QED
    BY <1>1, <1>2, <2>1, <2>2, <2>3, <2>4, RestartStep
<1>3. CASE ~(what = "session" /\ op \in {"put", "put2", "put3"})
  <2> USE DEF IInv
  <2>1. /\ op' = "idle" /\ txq' = Tail(txq)
        /\ UNCHANGED <<mem, dirty, scheduled, loop, pending, stopPending, dead, alive, inbox, outbox,
                       stopper, waiting, file>>
    BY <1>3 DEF CallFails, worker
  <2>2. /\ txq' \in Seq(Txs) /\ AtMostOne(txq', Calls) /\ ~Some(txq', Calls)
        /\ stopper # "user" /\ ~Some(waiting, Users)
        /\ \A S \in SUBSET SnapTxs : Some(txq', S) <=> Some(txq, S)
        /\ AtMostOne(txq, SnapTxs) => AtMostOne(txq', SnapTxs)
        /\ op \in {"ram", "nand", "put", "put2", "put3", "restart"}
    BY <1>1, <2>1, CallNext
  <2>3. alive => op \in Untouched
    BY <1>3, <2>2 DEF CallFlow, Untouched
  <2>4. Scalars'
    BY <1>1, <2>1 DEF Scalars, Places
  <2>5. Shapes'
    BY <1>1, <2>1, <2>2 DEF Shapes
  <2>6. CallFlow'
    <3>1. ~alive => ~Some(txq', LiveTxs)
      BY <2>2, Kinds DEF CallFlow
    <3>2. ~Behind(txq', Calls, SnapTxs)
      BY <2>2, BehindNothing
    <3> QED
      BY <1>1, <2>1, <2>2, <3>1, <3>2 DEF CallFlow
  <2>7. Flight'
    BY <2>1, <2>2, FlightKept
  <2>8. Kept'
    BY <1>1, <2>1, <2>3 DEF Kept, Untouched
  <2>9. ASSUME MaxWaiting <= 1 PROVE Stops' /\ Quiet' /\ Checksums'
    <3>1. Stops'
      BY <1>1, <2>1, <2>9 DEF Stops
    <3>2. Quiet'
      BY <2>1, <2>2, <2>9 DEF Quiet
    <3> QED
      BY <1>1, <2>1, <2>2, <2>9, <3>1, <3>2, ChecksumsKept
  <2> QED
    BY <2>4, <2>5, <2>6, <2>7, <2>8, <2>9
<1> QED
  BY <1>2, <1>3

\* A worker that has just been created: nothing is on its way from or to it but a start.
LEMMA FreshWorker ==
    ASSUME NEW q, q = <<>> \/ q = <<Posts("start")>>
    PROVE  /\ q \in Seq(ToWorker)
           /\ ~Some(q, DoneMsgs) /\ ~Some(q, SavedMsgs) /\ ~Some(q, StopMsgs)
           /\ AtMostOne(q, DoneMsgs) /\ AtMostOne(q, StopMsgs)
<1>1. Posts("start") \in ToWorker /\ Posts("start") \notin DoneMsgs
      /\ Posts("start") \notin StopMsgs /\ Posts("start") \notin SavedMsgs
  BY Kinds
<1>2. CASE q = <<>>
  BY <1>2, QueueEmpty
<1>3. CASE q = <<Posts("start")>>
  <2>1. q \in Seq(ToWorker) /\ Len(q) = 1 /\ q[1] = Posts("start")
    BY <1>1, <1>3
  <2>2. \A i \in 1 .. Len(q) : q[i] = Posts("start")
    BY <2>1
  <2> QED
    BY <1>1, <2>1, <2>2 DEF Some, AtMostOne
<1> QED
  BY <1>2, <1>3

LEMMA RestartedStep == IInv /\ Restarted => IInv'
<1> SUFFICES ASSUME IInv, Restarted PROVE IInv'
  OBVIOUS
<1> USE DEF IInv
<1>1. /\ txq # <<>> /\ Head(txq).op = "call" /\ op = "restart" /\ txq' = Tail(txq)
      /\ mem' = Handed /\ dirty' = {} /\ scheduled' = {} /\ loop' = FALSE /\ pending' = FALSE
      /\ stopPending' = FALSE /\ dead' = FALSE /\ alive' = TRUE /\ op' = "idle" /\ held' = FALSE
      /\ UNCHANGED <<outbox, stopper, waiting, what, seen, hidden, file, disk, crc, stuck>>
  BY DEF Restarted, CallAt, Resume
<1>2. inbox' = <<>> \/ inbox' = <<Posts("start")>>
  BY DEF Restarted, Resume
<1>3. /\ inbox' \in Seq(ToWorker)
      /\ ~Some(inbox', DoneMsgs) /\ ~Some(inbox', SavedMsgs) /\ ~Some(inbox', StopMsgs)
      /\ AtMostOne(inbox', DoneMsgs) /\ AtMostOne(inbox', StopMsgs)
  BY <1>2, FreshWorker
<1>4. ~alive /\ outbox = <<>> /\ stopper # "user" /\ ~Some(waiting, Users)
      /\ ~Behind(txq, Calls, SnapTxs)
  BY <1>1 DEF CallFlow
<1>5. /\ txq' \in Seq(Txs) /\ AtMostOne(txq', Calls) /\ ~Some(txq', Calls)
      /\ Head(txq) \in Calls /\ (AtMostOne(txq, SnapTxs) => AtMostOne(txq', SnapTxs))
  BY <1>1, CallNext
<1>6. ~Some(txq', SnapTxs)
  BY <1>1, <1>4, <1>5, TxEnds
<1>7. /\ ~Some(outbox', SnapMsgs) /\ ~Some(outbox', StoppedMsgs)
      /\ AtMostOne(outbox', SnapMsgs) /\ AtMostOne(outbox', StoppedMsgs)
  BY <1>1, <1>4, QueueEmpty
<1>8. /\ mem' \in [Pages -> Vals]
      /\ \A p \in Pages : mem'[p] = IF p \in Ram THEN disk[p] ELSE file[p]
  BY <1>1 DEF Handed, Scalars, Pages
<1>9. Scalars'
  BY <1>1, <1>8 DEF Scalars, Places
<1>10. Shapes'
  BY <1>1, <1>3, <1>5 DEF Shapes
<1>11. CallFlow'
  BY <1>1, <1>4, <1>5 DEF CallFlow
<1>12. Flight'
  <2> DEFINE Bad(S) == {m \in S : ~Copies(m)}
  <2>1. ~Some(outbox', Bad(SnapMsgs)') /\ ~Some(txq', Bad(SnapTxs)')
    <3>1. Bad(SnapMsgs)' \subseteq SnapMsgs /\ Bad(SnapTxs)' \subseteq SnapTxs
      OBVIOUS
    <3> HIDE DEF Bad
    <3> QED
      BY <1>6, <1>7, <3>1, QueueSubset
  <2>2. ~Some(txq', SnapTxs \ LiveTxs)
    BY <1>6, QueueSubset
  <2>3. AtMostOne(txq', SnapTxs)
    BY <1>6 DEF Some, AtMostOne
  <2> QED
    BY <1>1, <1>3, <1>6, <1>7, <2>1, <2>2, <2>3 DEF Flight
<1>13. Kept'
  <2>1. \A p \in Reliable : mem'[p] = disk[p]
    BY <1>1, <1>8, ReliablePages DEF Kept
  <2> QED
    BY <1>1, <1>3, <2>1 DEF Kept
<1>14. ASSUME MaxWaiting <= 1 PROVE Stops' /\ Quiet' /\ Checksums'
  <2>1. Stops'
    BY <1>1, <1>3, <1>4, <1>7 DEF Stops
  <2>2. Quiet'
    BY <1>1 DEF Quiet
  <2> DEFINE Partial(S) == {t \in S : ~Complete(t)}
  <2>3. ~Some(outbox', Partial(SnapMsgs)') /\ ~Some(txq', Partial(SnapTxs)')
    <3>1. Partial(SnapMsgs)' \subseteq SnapMsgs /\ Partial(SnapTxs)' \subseteq SnapTxs
      OBVIOUS
    <3> HIDE DEF Partial
    <3> QED
      BY <1>6, <1>7, <3>1, QueueSubset
  <2> QED
    BY <1>1, <1>14, <2>1, <2>2, <2>3 DEF Checksums, ChecksumValid, Checksum
<1> QED
  BY <1>9, <1>10, <1>11, <1>12, <1>13, <1>14

\* The page has just been loaded: the machine is what is on disk.
Loaded ==
    /\ mem = disk /\ file = [p \in Nand \cup Sd |-> disk[p]]
    /\ dirty = {} /\ scheduled = {} /\ loop = FALSE /\ pending = FALSE
    /\ stopPending = FALSE /\ dead = FALSE /\ alive = TRUE
    /\ inbox = <<Posts("start")>> /\ outbox = <<>>
    /\ stopper = None /\ waiting = <<>> /\ op = "idle" /\ what = "export" /\ seen = None
    /\ held = FALSE /\ hidden = FALSE /\ txq = <<>> /\ stuck = FALSE
    /\ disk \in [Pages -> Vals] /\ crc = [r \in Regions |-> crc[r]]
    /\ \A r \in Regions : crc[r] = None \/ crc[r] \in [r -> Vals]

\* A page that has just been loaded satisfies the invariant if its checksums are valid.
LEMMA LoadedInvariant ==
    ASSUME Loaded, MaxWaiting <= 1 => \A r \in Regions : r \subseteq Reliable => ChecksumValid(r)
    PROVE  IInv
<1> USE DEF Loaded
<1>1. /\ inbox \in Seq(ToWorker)
      /\ ~Some(inbox, DoneMsgs) /\ ~Some(inbox, SavedMsgs) /\ ~Some(inbox, StopMsgs)
      /\ AtMostOne(inbox, DoneMsgs) /\ AtMostOne(inbox, StopMsgs)
  BY FreshWorker
<1>2. /\ \A S : ~Some(outbox, S) /\ AtMostOne(outbox, S)
      /\ \A S : ~Some(txq, S) /\ AtMostOne(txq, S)
      /\ \A S : ~Some(waiting, S) /\ AtMostOne(waiting, S)
  BY QueueEmpty
<1>3. Scalars
  <2>1. file \in [Nand \cup Sd -> Vals]
    BY DEF Pages
  <2> QED
    BY <2>1 DEF Scalars, Places
<1>4. Shapes
  BY <1>1, UarmAssumption DEF Shapes
<1>5. CallFlow
  BY <1>2, UarmAssumption DEF CallFlow
<1>6. Flight
  BY <1>1, <1>2 DEF Flight
<1>7. Kept
  BY <1>1, ReliablePages DEF Kept
<1>8. ASSUME MaxWaiting <= 1 PROVE Stops /\ Quiet /\ Checksums
  <2>1. Stops
    BY <1>1, <1>2, UarmAssumption DEF Stops
  <2>2. Quiet
    BY DEF Quiet
  <2> QED
    BY <1>2, <1>8, <2>1, <2>2 DEF Checksums
<1> QED
  BY <1>3, <1>4, <1>5, <1>6, <1>7, <1>8 DEF IInv

LEMMA ReloadStep == IInv /\ Reload => IInv'
<1> SUFFICES ASSUME IInv, Reload PROVE IInv'
  OBVIOUS
<1>1. disk \in [Pages -> Vals] /\ crc = [r \in Regions |-> crc[r]]
      /\ \A r \in Regions : crc[r] = None \/ crc[r] \in [r -> Vals]
  BY DEF IInv, Scalars, Shapes
<1>2. Loaded'
  BY <1>1 DEF Loaded, Reload
<1>3. (MaxWaiting <= 1 => \A r \in Regions : r \subseteq Reliable => ChecksumValid(r))'
  BY DEF Reload, IInv, Checksums, ChecksumValid, Checksum
<1> QED
  BY <1>2, <1>3, LoadedInvariant, PTL

LEMMA InitStep == Init => IInv
<1> SUFFICES ASSUME Init PROVE IInv
  OBVIOUS
<1>1. Loaded
  BY UarmAssumption DEF Init, Loaded, Pages
<1>2. \A r \in Regions : ChecksumValid(r)
  BY DEF Init, ChecksumValid
<1> QED
  BY <1>1, <1>2, LoadedInvariant

-----------------------------------------------------------------------------
(***************************************************************************)
(* The theorems.                                                            *)
(***************************************************************************)

\* Every step preserves the invariant.
LEMMA NextStep == IInv /\ [Next]_vars => IInv'
<1> SUFFICES ASSUME IInv, [Next]_vars PROVE IInv'
  OBVIOUS
<1>1. CASE WorkerStep
  BY <1>1, CycleStep, TriggerSnapshotStep, DieStep, WorkerStartStep, WorkerStopStep,
     WorkerSnapshotDoneStep DEF WorkerStep
<1>2. CASE PageStep
  BY <1>2, MainSnapshotStep, MainStoppedStep, HideStep, ShowStep, ClickStep DEF PageStep
<1>3. CASE SnapCommits \/ SnapFails \/ Hangs
  BY <1>3, SnapCommitsStep, SnapFailsStep, HangsStep
<1>4. CASE CallSucceeds
  BY <1>4, ExportRamStep, ExportNandStep, PutImageStep, PutSessionNorStep, PutSessionNandStep,
     PutSessionRamStep, RestartedStep DEF CallSucceeds
<1>5. CASE CallFails \/ Reload
  BY <1>5, CallFailsStep, ReloadStep
<1>6. CASE UNCHANGED vars
  <2>1. UNCHANGED <<mem, dirty, scheduled, loop, pending, stopPending, dead, alive, inbox, outbox,
          stopper, waiting, op, what, seen, held, hidden, file, disk, crc, txq, stuck>>
    BY <1>6 DEF vars
  <2>2. Scalars' /\ Shapes' /\ CallFlow'
    BY <2>1 DEF IInv, Scalars, Shapes, CallFlow
  <2>3. Flight' /\ Kept'
    BY <2>1 DEF IInv, Flight, Copies, Kept
  <2>4. MaxWaiting <= 1 => Stops' /\ Quiet' /\ Checksums'
    BY <2>1 DEF IInv, Stops, Quiet, Checksums, Complete, ChecksumValid, Checksum
  <2> QED
    BY <2>2, <2>3, <2>4 DEF IInv
<1> QED
  BY <1>1, <1>2, <1>3, <1>4, <1>5, <1>6 DEF Next

\* The invariant holds in every state of the uARM web app: a snapshot, a stop and a call of
\* the page are each in one place only, from worker.js to database.js.
THEOREM Invariant == Spec => []IInv
BY InitStep, NextStep, PTL DEF Spec

\* Every variable keeps its type, and the worker remembers a stop only while a snapshot
\* is being stored.
THEOREM TypeCorrect == Spec => []TypeOK
<1>1. ASSUME IInv PROVE TypeOK
  <2>1. \A i \in 1 .. Len(inbox) : inbox[i].type \in {"start", "stop", "snapshotDone"}
    <3>1. \A m \in ToWorker : m.type \in {"start", "stop", "snapshotDone"}
      BY DEF ToWorker, StartMsgs, StopMsgs, DoneMsgs, Posts
    <3> QED
      BY <1>1, <3>1 DEF IInv, Shapes
  <2>2. \A i \in 1 .. Len(outbox) : outbox[i].type \in {"snapshot", "stopped"}
    <3>1. \A m \in ToPage : m.type \in {"snapshot", "stopped"}
      BY DEF ToPage, StoppedMsgs, SnapMsgs, Posts
    <3> QED
      BY <1>1, <3>1 DEF IInv, Shapes
  <2>3. \A i \in 1 .. Len(txq) : txq[i].op \in {"snap", "call"}
    <3>1. \A m \in Txs : m.op \in {"snap", "call"}
      BY DEF Txs, Calls, Call, SnapTxs
    <3> QED
      BY <1>1, <3>1 DEF IInv, Shapes
  <2>4. \A i \in 1 .. Len(waiting) : waiting[i] \in {"hide", "user"}
    BY <1>1 DEF IInv, Shapes
  <2>5. \A r \in Regions : crc[r] = None \/ crc[r] \in [r -> Vals]
    BY <1>1 DEF IInv, Shapes
  <2>6. {loop, pending, stopPending, dead, alive, held, hidden, stuck} \subseteq BOOLEAN
    BY <1>1 DEF IInv, Scalars
  <2>7. stopPending => pending
    BY <1>1 DEF IInv, Scalars
  <2>8. /\ mem \in [Pages -> Vals] /\ disk \in [Pages -> Vals] /\ file \in [Nand \cup Sd -> Vals]
        /\ dirty \subseteq Pages /\ scheduled \subseteq Pages
        /\ stopper \in {None, "hide", "user"}
        /\ op \in Places /\ what \in {"export"} \cup Uploads
        /\ seen = None \/ seen \in [Ram -> Vals]
    BY <1>1 DEF IInv, Scalars
  <2> QED
    BY <2>1, <2>2, <2>3, <2>4, <2>5, <2>6, <2>7, <2>8 DEF TypeOK
<1> QED
  BY <1>1, Invariant, PTL

\* WritesKept on a part of the pages.
WritesKeptOn(part) ==
    (alive /\ op \in {"idle", "stopping", "ram", "nand"}) =>
        \A p \in part : mem[p] # disk[p] => p \in dirty \cup scheduled

\* No store to RAM is ever lost between worker.js, the snapshots and IndexedDB, whatever is
\* uploaded and however often stop() is called: restart() reads RAM from disk.
THEOREM RamWritesKept == Spec => []WritesKeptOn(Ram)
<1>1. IInv => WritesKeptOn(Ram)
  BY ReliablePages DEF IInv, Kept, WritesKeptOn, Untouched
<1> QED
  BY <1>1, Invariant, PTL

\* No store to any page is lost if restart() hands over what is on disk. The images it takes
\* from variables of index.js are on disk if the region is empty or what every upload
\* replaces, so in particular if nothing is uploaded.
THEOREM AllWritesKept ==
    ASSUME Pages \subseteq Reliable
    PROVE  Spec => []WritesKept
<1>1. IInv => WritesKept
  BY DEF IInv, Kept, WritesKept, Untouched
<1> QED
  BY <1>1, Invariant, PTL

\* When stop() returns to an export or upload, the machine stands still and no snapshot is
\* under way, provided at most one call of stop() waits for an earlier one: emulator.js
\* resolves only the last of several.
THEOREM StopsAreHonoured ==
    ASSUME MaxWaiting <= 1
    PROVE  Spec => []StopHonoured
<1>1. ASSUME IInv PROVE StopHonoured
  <2> SUFFICES ASSUME op \in {"ram", "nand", "put", "put2", "put3"}
               PROVE  ~loop /\ ~pending /\ \A i \in 1 .. Len(txq) : txq[i].op # "snap"
    BY DEF StopHonoured
  <2>1. alive
    BY <1>1 DEF IInv, CallFlow
  <2>2. ~loop /\ ~pending
    BY <1>1, <2>1 DEF IInv, Quiet
  <2>3. ~Some(txq, SnapTxs)
    BY <1>1, <2>1, <2>2, NotPending DEF IInv
  <2>4. \A i \in 1 .. Len(txq) : txq[i] \in Txs /\ txq[i] \notin SnapTxs
    BY <1>1, <2>3 DEF IInv, Shapes, Some
  <2> QED
    BY <2>2, <2>4, TxKinds
<1> QED
  BY <1>1, Invariant, PTL

\* The checksum of RAM in the database is the one of the RAM that is there, although a
\* snapshot stores only the dirty pages (getRam of database.js never reports a mismatch).
THEOREM RamChecksumsFit ==
    ASSUME MaxWaiting <= 1
    PROVE  Spec => []RamChecksumValid
<1>1. IInv => RamChecksumValid
  BY ReliablePages DEF IInv, Checksums, RamChecksumValid, Regions
<1> QED
  BY <1>1, Invariant, PTL

\* The checksum of the NAND in the database fits as well if NAND images are all that is
\* uploaded: then restart() hands over the NAND that is on disk.
THEOREM NandChecksumsFit ==
    ASSUME MaxWaiting <= 1, Uploads \subseteq {"nand"}
    PROVE  Spec => []NandChecksumValid
<1>1. IInv => NandChecksumValid
  BY DEF IInv, Checksums, NandChecksumValid, Regions, Reliable
<1> QED
  BY <1>1, Invariant, PTL
=============================================================================
