---------------------------- MODULE NetworkProof ----------------------------
(***************************************************************************)
(* Theorems about Network, for every number of network sessions, requests  *)
(* and clipboard calls.                                                    *)
(***************************************************************************)
EXTENDS Network, TLAPS

-----------------------------------------------------------------------------
(***************************************************************************)
(* Sequences by what they hold. The queues of operations, requests and     *)
(* events grow at the end and shrink at the head; the invariant only asks  *)
(* which elements they have.                                               *)
(***************************************************************************)
Elems(q) == {q[k] : k \in 1 .. Len(q)}

\* The empty sequence has no elements.
LEMMA ElemsNil == Elems(<<>>) = {}
BY DEF Elems

\* The empty sequence, and only that one, has no elements.
LEMMA ElemsEmpty ==
    ASSUME NEW S, NEW q \in Seq(S)
    PROVE  /\ Elems(<<>>) = {}
           /\ q # <<>> => Head(q) \in Elems(q)
           /\ Elems(q) \subseteq S
           /\ Elems(q) = {} => q = <<>>
BY DEF Elems

\* Append adds its element.
LEMMA ElemsAppend ==
    ASSUME NEW S, NEW q \in Seq(S), NEW x \in S
    PROVE  /\ Append(q, x) \in Seq(S) /\ Append(q, x) # <<>>
           /\ Elems(Append(q, x)) = Elems(q) \cup {x}
           /\ Len(Append(q, x)) = Len(q) + 1
           /\ q = <<>> => Tail(Append(q, x)) = <<>> /\ Head(Append(q, x)) = x
           /\ q # <<>> => /\ Tail(Append(q, x)) = Append(Tail(q), x)
                          /\ Head(Append(q, x)) = Head(q)
<1>1. Append(q, x) \in Seq(S) /\ Len(Append(q, x)) = Len(q) + 1
  OBVIOUS
<1>5. Append(q, x) # <<>>
  <2>1. Len(Append(q, x)) # 0 /\ Len(<<>>) = 0
    BY <1>1
  <2> QED
    BY <2>1, Zenon
<1>2. Elems(Append(q, x)) = Elems(q) \cup {x}
  BY DEF Elems
<1>3. q = <<>> => Tail(Append(q, x)) = <<>> /\ Head(Append(q, x)) = x
  OBVIOUS
<1>4. q # <<>> => /\ Tail(Append(q, x)) = Append(Tail(q), x)
                  /\ Head(Append(q, x)) = Head(q)
  OBVIOUS
<1> QED
  BY <1>1, <1>2, <1>3, <1>4, <1>5

\* Tail removes the head, and nothing that is not equal to it.
LEMMA ElemsTail ==
    ASSUME NEW S, NEW q \in Seq(S), q # <<>>
    PROVE  /\ Tail(q) \in Seq(S) /\ Head(q) \in S
           /\ Elems(q) = {Head(q)} \cup Elems(Tail(q))
           /\ Len(q) <= 1 => Tail(q) = <<>>
<1>1. Tail(q) \in Seq(S) /\ Head(q) \in S /\ Len(Tail(q)) = Len(q) - 1
  OBVIOUS
<1>2. ASSUME NEW k \in 1 .. Len(q) PROVE q[k] \in {Head(q)} \cup Elems(Tail(q))
  <2>1. CASE k = 1
    BY <2>1
  <2>2. CASE k # 1
    <3>1. k - 1 \in 1 .. Len(Tail(q)) /\ Tail(q)[k - 1] = q[k]
      BY <2>2
    <3> QED
      BY <3>1 DEF Elems
  <2> QED
    BY <2>1, <2>2
<1>3. ASSUME NEW k \in 1 .. Len(Tail(q)) PROVE Tail(q)[k] \in Elems(q)
  <2>1. k + 1 \in 1 .. Len(q) /\ Tail(q)[k] = q[k + 1]
    OBVIOUS
  <2> QED
    BY <2>1 DEF Elems
<1>4. Head(q) \in Elems(q)
  BY ElemsEmpty
<1>5. Elems(q) = {Head(q)} \cup Elems(Tail(q))
  BY <1>2, <1>3, <1>4 DEF Elems
<1>6. Len(q) <= 1 => Tail(q) = <<>>
  BY <1>1
<1> QED
  BY <1>1, <1>5, <1>6

-----------------------------------------------------------------------------
(***************************************************************************)
(* The inductive invariant.                                                *)
(***************************************************************************)

\* Only the current session is live, and one that was never created holds nothing.
Lives ==
    /\ session # NoSession => life[session] = "live"
    /\ \A s \in Sessions :
         /\ life[s] = "live" => s = session
         /\ life[s] = "unborn" => queue[s] = <<>> /\ socket[s] = "none"

\* What the mutex of a session still lets through: connecting comes first, the current
\* session has no disconnect ahead, and one that is not current disconnects whatever it
\* has or is about to get. A session without a connection has nothing under way, and a
\* close event is on its way only after the connection was lost.
QueueOK(s) ==
    /\ queue[s] # <<>> => "connect" \notin Elems(Tail(queue[s]))
    /\ s = session => "disconnect" \notin Elems(queue[s])
    /\ s = session /\ "connect" \in Elems(queue[s]) => openCount = 0
    /\ s # session /\ (socket[s] # "none" \/ "connect" \in Elems(queue[s])) =>
         "disconnect" \in Elems(queue[s])
    /\ socket[s] = "none" => up[s] = <<>> /\ down[s] = <<>>
    /\ socket[s] = "open" => Close \notin Elems(down[s])
    /\ "connect" \in Elems(queue[s]) => socket[s] = "none"

Queues == \A s \in Sessions : QueueOK(s)

\* A machine waits for a connection only while the library is closed, and for a
\* response only while it is open; a clipboard call is the one it waits for.
Suspension ==
    /\ ctx.kind = "rpc" => openCount > 0
    /\ ctx.kind = "connect" => openCount = 0
    /\ ~interrupted => \A i \in pending : ctx = ClipCtx(i)

\* The request of a machine is in one place only: it waits for the mutex, or is on its
\* way to the server, or its response is on the way back.
RequestOK ==
    /\ Len(queue[session]) <= 1
    /\ "rpc" \in Elems(queue[session]) =>
         ctx.kind = "rpc" /\ up[session] = <<>> /\ Elems(down[session]) \subseteq {Close}
    /\ up[session] # <<>> =>
         Len(up[session]) <= 1 /\ Elems(down[session]) \subseteq {Close}
    /\ down[session] # <<>> => Elems(Tail(down[session])) \subseteq {Close}
    /\ \A id \in Elems(up[session]) : ctx = RpcCtx(id)
    /\ \A e \in Elems(down[session]) : e # Close => ctx = RpcCtx(e.id)

OneRequest == ~interrupted /\ session # NoSession => RequestOK

IInv == TypeOK /\ Lives /\ Queues /\ Suspension /\ OneRequest

-----------------------------------------------------------------------------
(***************************************************************************)
(* The operators the actions are built from.                               *)
(***************************************************************************)

\* NoSession is no session.
LEMMA NoSessionNew == NoSession \notin Sessions
BY NetworkAssumption DEF NoSession, Sessions

\* What a context of each kind looks like.
LEMMA ContextKind ==
    ASSUME TypeOK
    PROVE  /\ ctx.kind = "rpc" => ctx = RpcCtx(ctx.id) /\ ctx.id \in 1 .. MaxRequests
           /\ ctx.kind = "connect" => ctx = ConnectCtx
           /\ \A i : ClipCtx(i).kind = "clipboard" /\ RpcCtx(i).kind = "rpc"
           /\ NoCtx.kind = "none" /\ ConnectCtx.kind = "connect"
           /\ \A i, j : ClipCtx(i) = ClipCtx(j) => i = j
BY DEF TypeOK, Context, NoCtx, ConnectCtx, RpcCtx, ClipCtx

\* An operation is queued behind those that hold or await the mutex.
LEMMA EnqueueQueue ==
    ASSUME NEW q \in [Sessions -> Seq(Operations)], NEW s \in Sessions, NEW op \in Operations
    PROVE  /\ Enqueue(q, s, op) \in [Sessions -> Seq(Operations)]
           /\ \A i \in Sessions : i # s => Enqueue(q, s, op)[i] = q[i]
           /\ Enqueue(q, s, op)[s] = Append(q[s], op)
           /\ Elems(Enqueue(q, s, op)[s]) = Elems(q[s]) \cup {op}
           /\ Enqueue(q, s, op)[s] # <<>>
           /\ op # "connect" /\ (q[s] # <<>> => "connect" \notin Elems(Tail(q[s]))) =>
                "connect" \notin Elems(Tail(Enqueue(q, s, op)[s]))
<1>1. q[s] \in Seq(Operations)
  OBVIOUS
<1>2. /\ Append(q[s], op) \in Seq(Operations) /\ Append(q[s], op) # <<>>
      /\ Elems(Append(q[s], op)) = Elems(q[s]) \cup {op}
  BY <1>1, ElemsAppend
<1>3. /\ Enqueue(q, s, op) \in [Sessions -> Seq(Operations)]
      /\ \A i \in Sessions : i # s => Enqueue(q, s, op)[i] = q[i]
      /\ Enqueue(q, s, op)[s] = Append(q[s], op)
  BY <1>2 DEF Enqueue
<1>4. ASSUME op # "connect", q[s] # <<>> => "connect" \notin Elems(Tail(q[s]))
      PROVE  "connect" \notin Elems(Tail(Append(q[s], op)))
  <2>1. CASE q[s] = <<>>
    <3>1. Tail(Append(q[s], op)) = <<>>
      BY <1>1, <2>1, ElemsAppend
    <3> QED
      BY <1>1, <3>1, ElemsEmpty
  <2>2. CASE q[s] # <<>>
    <3>1. Tail(Append(q[s], op)) = Append(Tail(q[s]), op) /\ Tail(q[s]) \in Seq(Operations)
      BY <1>1, <2>2, ElemsAppend, ElemsTail
    <3>2. Elems(Append(Tail(q[s]), op)) = Elems(Tail(q[s])) \cup {op}
      <4> DEFINE r == Tail(q[s])
      <4>1. r \in Seq(Operations)
        BY <3>1
      <4> HIDE DEF r
      <4>2. Elems(Append(r, op)) = Elems(r) \cup {op}
        BY <4>1, ElemsAppend
      <4> QED
        BY <4>2 DEF r
    <3>3. "connect" \notin Elems(Tail(q[s])) \cup {op}
      BY <2>2, <1>4
    <3> QED
      BY <3>1, <3>2, <3>3, Zenon
  <2> QED
    BY <2>1, <2>2
<1> QED
  BY <1>2, <1>3, <1>4

\* The operation at the head of a queue leaves it.
LEMMA PopQueue ==
    ASSUME TypeOK, Queues, NEW s \in Sessions, NEW op \in Operations, Runs(s, op)
    PROVE  /\ Pop(s) \in [Sessions -> Seq(Operations)]
           /\ \A i \in Sessions : i # s => Pop(s)[i] = queue[i]
           /\ Elems(queue[s]) = {op} \cup Elems(Pop(s)[s])
           /\ Len(queue[s]) <= 1 => Pop(s)[s] = <<>>
           /\ "connect" \notin Elems(Pop(s)[s])
           /\ Pop(s)[s] # <<>> => "connect" \notin Elems(Tail(Pop(s)[s]))
<1>1. queue[s] \in Seq(Operations) /\ queue[s] # <<>> /\ Head(queue[s]) = op
  BY DEF TypeOK, Runs
<1>2. /\ Tail(queue[s]) \in Seq(Operations)
      /\ Elems(queue[s]) = {op} \cup Elems(Tail(queue[s]))
      /\ Len(queue[s]) <= 1 => Tail(queue[s]) = <<>>
  BY <1>1, ElemsTail
<1>3. /\ Pop(s) \in [Sessions -> Seq(Operations)]
      /\ \A i \in Sessions : i # s => Pop(s)[i] = queue[i]
      /\ Pop(s)[s] = Tail(queue[s])
  BY <1>2 DEF Pop, TypeOK
<1>4. "connect" \notin Elems(Tail(queue[s]))
  BY <1>1 DEF Queues, QueueOK
<1>5. ASSUME Tail(queue[s]) # <<>> PROVE "connect" \notin Elems(Tail(Tail(queue[s])))
  BY <1>2, <1>4, <1>5, ElemsTail
<1> QED
  BY <1>2, <1>3, <1>4, <1>5

\* NetworkService.reset: the session that goes is queued to disconnect.
LEMMA ResetKeeps ==
    ASSUME TypeOK, Lives, Queues, Reset, UNCHANGED <<socket, up, down>>
    PROVE  /\ session' = NoSession
           /\ life' \in [Sessions -> {"unborn", "live", "terminated"}]
           /\ queue' \in [Sessions -> Seq(Operations)]
           /\ Lives' /\ Queues' /\ OneRequest'
<1>1. session' = NoSession
  BY DEF Reset
<1>2. CASE session = NoSession
  <2>1. life' = life /\ queue' = queue /\ session' = session
    BY <1>2 DEF Reset
  <2>2. Lives'
    BY <2>1 DEF Lives
  <2>3. Queues'
    BY <1>2, <2>1, NoSessionNew DEF Queues, QueueOK
  <2> QED
    BY <1>1, <2>1, <2>2, <2>3 DEF TypeOK, OneRequest, RequestOK
<1>3. CASE session # NoSession
  <2>1. session \in Sessions
    BY <1>3 DEF TypeOK
  <2>2. life' = [life EXCEPT ![session] = "terminated"]
        /\ queue' = Enqueue(queue, session, "disconnect")
    BY <1>3 DEF Reset
  <2>3. /\ queue' \in [Sessions -> Seq(Operations)]
        /\ \A i \in Sessions : i # session => queue'[i] = queue[i]
        /\ queue'[session] # <<>>
        /\ Elems(queue'[session]) = Elems(queue[session]) \cup {"disconnect"}
        /\ "connect" \notin Elems(Tail(queue'[session]))
    <3>1. /\ queue \in [Sessions -> Seq(Operations)]
          /\ "disconnect" \in Operations /\ "disconnect" # "connect"
          /\ queue[session] # <<>> => "connect" \notin Elems(Tail(queue[session]))
      BY <2>1 DEF TypeOK, Operations, Queues, QueueOK
    <3>2. Elems(queue'[session]) = Elems(queue[session]) \cup {"disconnect"}
      BY <2>1, <2>2, <3>1, EnqueueQueue DEF Enqueue
    <3> QED
      BY <2>1, <2>2, <3>1, <3>2, EnqueueQueue DEF Enqueue
  <2>4. life' \in [Sessions -> {"unborn", "live", "terminated"}]
    BY <2>2 DEF TypeOK
  <2>5. Lives'
    BY <1>1, <2>1, <2>2, <2>3 DEF Lives, TypeOK
  <2>6. Queues'
    BY <1>1, <2>1, <2>3, NoSessionNew DEF Queues, QueueOK
  <2> QED
    BY <1>1, <2>3, <2>4, <2>5, <2>6 DEF OneRequest, RequestOK
<1> QED
  BY <1>2, <1>3

\* NetworkBackendProxy.disconnect leaves nothing under way.
LEMMA CloseSocketType ==
    ASSUME TypeOK, NEW s \in Sessions, CloseSocket(s)
    PROVE  /\ socket' \in [Sessions -> {"none", "open", "lost"}]
           /\ up' \in [Sessions -> Seq(1 .. MaxRequests)]
           /\ down' \in [Sessions -> Seq(Events)]
           /\ socket'[s] = "none" /\ up'[s] = <<>> /\ down'[s] = <<>>
           /\ \A i \in Sessions : i # s =>
                socket'[i] = socket[i] /\ up'[i] = up[i] /\ down'[i] = down[i]
BY DEF CloseSocket, TypeOK

-----------------------------------------------------------------------------
(***************************************************************************)
(* The steps.                                                              *)
(***************************************************************************)

\* NetLibOpen: the session that is created had nothing, the one it replaces is queued
\* to disconnect.
LEMMA OpenStep ==
    ASSUME IInv, Open
    PROVE  IInv'
<1> USE DEF IInv
<1>1. PICK s \in Sessions : life[s] = "unborn" /\ CreateNewSession(s) /\ ctx' = ConnectCtx
  BY DEF Open
<1>2. /\ ctx = NoCtx /\ openCount = 0
      /\ UNCHANGED <<openCount, currentId, socket, up, down, hostVars>>
  BY DEF Open
<1>3. s # session /\ session' = s /\ s # NoSession
  BY <1>1, NoSessionNew DEF Lives, CreateNewSession
<1>4. queue[s] = <<>> /\ socket[s] = "none" /\ up[s] = <<>> /\ down[s] = <<>>
  BY <1>1 DEF Lives, Queues, QueueOK
<1> DEFINE old == IF session = NoSession THEN queue ELSE Enqueue(queue, session, "disconnect")
<1>5. /\ old \in [Sessions -> Seq(Operations)] /\ old[s] = <<>>
      /\ \A i \in Sessions : i # session => old[i] = queue[i]
      /\ session # NoSession => /\ old[session] # <<>>
                                /\ Elems(old[session]) = Elems(queue[session]) \cup {"disconnect"}
                                /\ "connect" \notin Elems(Tail(old[session]))
  <2>1. CASE session = NoSession
    BY <1>4, <2>1 DEF TypeOK
  <2>2. CASE session # NoSession
    <3>1. /\ session \in Sessions /\ queue \in [Sessions -> Seq(Operations)]
          /\ "disconnect" \in Operations /\ "disconnect" # "connect"
          /\ queue[session] # <<>> => "connect" \notin Elems(Tail(queue[session]))
      BY <2>2 DEF TypeOK, Operations, Queues, QueueOK
    <3>2. old = [queue EXCEPT ![session] = Append(@, "disconnect")]
      BY <2>2 DEF Enqueue
    <3> HIDE DEF old
    <3>3. /\ old \in [Sessions -> Seq(Operations)]
          /\ \A i \in Sessions : i # session => old[i] = queue[i]
          /\ old[session] # <<>>
          /\ Elems(old[session]) = Elems(queue[session]) \cup {"disconnect"}
          /\ "connect" \notin Elems(Tail(old[session]))
      BY <3>1, <3>2, EnqueueQueue DEF Enqueue
    <3> QED
      BY <1>3, <1>4, <3>3
  <2> QED
    BY <2>1, <2>2
<1>6. queue' = [old EXCEPT ![s] = Append(@, "connect")]
  BY <1>1 DEF CreateNewSession, Enqueue
<1> HIDE DEF old
<1>7. /\ queue' \in [Sessions -> Seq(Operations)]
      /\ \A i \in Sessions : i # s => queue'[i] = old[i]
      /\ queue'[s] = <<"connect">>
  BY <1>5, <1>6 DEF Operations
<1>8. Elems(queue'[s]) = {"connect"} /\ Len(queue'[s]) <= 1 /\ Elems(Tail(queue'[s])) = {}
  BY <1>7 DEF Elems
<1>9. /\ life' \in [Sessions -> {"unborn", "live", "terminated"}]
      /\ life'[s] = "live"
      /\ \A i \in Sessions \ {s} :
           life'[i] = IF i = session THEN "terminated" ELSE life[i]
  BY <1>1 DEF CreateNewSession, TypeOK
<1>10. TypeOK'
  BY <1>1, <1>2, <1>3, <1>7, <1>9 DEF TypeOK, Context, hostVars
<1>11. Lives'
  BY <1>1, <1>2, <1>3, <1>5, <1>7, <1>9 DEF Lives
<1>12. Queues'
  <2> SUFFICES ASSUME NEW i \in Sessions PROVE QueueOK(i)'
    BY DEF Queues
  <2>1. CASE i = s
    <3>1. QueueOK(s)'
      BY <1>2, <1>3, <1>4, <1>8, ElemsNil DEF QueueOK
    <3> QED
      BY <2>1, <3>1
  <2>2. CASE i # s /\ i = session
    <3>1. /\ queue'[i] # <<>> /\ "connect" \notin Elems(Tail(queue'[i]))
          /\ Elems(queue'[i]) = Elems(queue[i]) \cup {"disconnect"}
      BY <1>5, <1>7, <2>2, NoSessionNew
    <3>2. QueueOK(i) /\ "connect" # "disconnect"
      BY DEF Queues
    <3> QED
      BY <1>2, <1>3, <2>2, <3>1, <3>2 DEF QueueOK
  <2>3. CASE i # s /\ i # session
    BY <1>2, <1>3, <1>5, <1>7, <2>3 DEF Queues, QueueOK
  <2> QED
    BY <2>1, <2>2, <2>3
<1>13. Suspension'
  BY <1>1, <1>2, ContextKind DEF Suspension, hostVars
<1>14. OneRequest'
  BY <1>2, <1>3, <1>4, <1>8, ElemsNil DEF OneRequest, RequestOK
<1> QED
  BY <1>10, <1>11, <1>12, <1>13, <1>14

\* The session is dropped. A machine that was waiting for it is not woken unless the
\* context goes too.
LEMMA DropSessionStep ==
    ASSUME IInv, OpenWithoutBackend \/ CloseLibrary \/ SwitchSession \/ ToggleRedirection
    PROVE  IInv'
<1> USE DEF IInv
<1>1. Reset /\ UNCHANGED <<socket, up, down, currentId, clipOn, clips, pending>>
      /\ redirection' \in BOOLEAN
  <2>1. CASE OpenWithoutBackend \/ CloseLibrary
    BY <2>1 DEF OpenWithoutBackend, CloseLibrary, hostVars, TypeOK
  <2>2. CASE SwitchSession
    BY <2>2 DEF SwitchSession, ResetContext, TypeOK
  <2>3. CASE ToggleRedirection
    BY <2>3 DEF ToggleRedirection
  <2> QED
    BY <2>1, <2>2, <2>3
<1>2. /\ session' = NoSession
      /\ life' \in [Sessions -> {"unborn", "live", "terminated"}]
      /\ queue' \in [Sessions -> Seq(Operations)]
      /\ Lives' /\ Queues' /\ OneRequest'
  BY <1>1, ResetKeeps
<1>3. /\ openCount' \in {0, openCount} /\ ctx' \in {NoCtx, ctx}
      /\ openCount' # openCount => ctx'.kind # "rpc"
      /\ interrupted' \in BOOLEAN /\ (interrupted => interrupted')
      /\ ctx' # ctx /\ ~interrupted' => pending = {}
  <2>1. CASE SwitchSession
    BY <2>1, ContextKind DEF SwitchSession, ResetContext
  <2>2. CASE OpenWithoutBackend \/ CloseLibrary
    <3>1. UNCHANGED <<ctx, interrupted>> /\ interrupted \in BOOLEAN /\ ctx = NoCtx
      BY <2>2 DEF OpenWithoutBackend, CloseLibrary, hostVars, TypeOK
    <3>2. openCount' = openCount \/ openCount' = 0
      BY <2>2 DEF OpenWithoutBackend, CloseLibrary, TypeOK
    <3> QED
      BY <3>1, <3>2, ContextKind
  <2>3. CASE ToggleRedirection
    <3>1. UNCHANGED interrupted /\ interrupted \in BOOLEAN
      BY <2>3 DEF ToggleRedirection, TypeOK
    <3>2. CASE ctx' = ctx
      <4>1. openCount' = openCount \/ (openCount' = 0 /\ (openCount > 0 => ctx.kind # "rpc"))
        BY <2>3, <3>2, ContextKind DEF ToggleRedirection, CancelCall
      <4>2. openCount' # openCount => openCount > 0
        BY <4>1 DEF TypeOK
      <4> QED
        BY <3>1, <3>2, <4>1, <4>2
    <3>3. CASE ctx' # ctx
      <4>1. openCount' = 0 /\ ctx' = NoCtx /\ ctx.kind \in {"connect", "rpc"}
        BY <2>3, <3>3 DEF ToggleRedirection, CancelCall
      <4>2. ~interrupted => pending = {}
        BY <4>1, ContextKind DEF Suspension
      <4> QED
        BY <3>1, <4>1, <4>2, ContextKind
    <3> QED
      BY <3>2, <3>3
  <2> QED
    BY <2>1, <2>2, <2>3
<1>4. TypeOK'
  BY <1>1, <1>2, <1>3 DEF TypeOK, Context
<1>5. Suspension'
  BY <1>1, <1>3, ContextKind DEF Suspension, TypeOK
<1> QED
  BY <1>2, <1>4, <1>5

\* EmSession::Reset. If the library is closed the session stays, and there is nothing
\* under way on it.
LEMMA ResetMachineStep ==
    ASSUME IInv, ResetMachine
    PROVE  IInv'
<1> USE DEF IInv
<1>1. /\ openCount' = 0 /\ ctx' = NoCtx
      /\ interrupted' = (interrupted \/ pending # {})
      /\ UNCHANGED <<socket, up, down, currentId, redirection, clipOn, clips, pending>>
  BY DEF ResetMachine, ResetProxy, ResetContext
<1>2. CASE openCount > 0
  <2>1. Reset
    BY <1>2 DEF ResetMachine, ResetProxy
  <2>2. /\ session' = NoSession
        /\ life' \in [Sessions -> {"unborn", "live", "terminated"}]
        /\ queue' \in [Sessions -> Seq(Operations)]
        /\ Lives' /\ Queues' /\ OneRequest'
    BY <1>1, <2>1, ResetKeeps
  <2>3. TypeOK'
    BY <1>1, <2>2 DEF TypeOK, Context
  <2>4. Suspension'
    BY <1>1, ContextKind DEF Suspension
  <2> QED
    BY <2>2, <2>3, <2>4
<1>3. CASE ~(openCount > 0)
  <2>1. UNCHANGED <<life, queue, session>>
    BY <1>3 DEF ResetMachine, ResetProxy
  <2>2. TypeOK'
    BY <1>1, <2>1 DEF TypeOK, Context
  <2>3. Lives' /\ Queues'
    BY <1>1, <2>1 DEF Lives, Queues, QueueOK
  <2>4. Suspension'
    BY <1>1, ContextKind DEF Suspension
  <2>5. ctx.kind # "rpc"
    BY <1>3 DEF Suspension
  <2>6. OneRequest'
    BY <1>1, <2>1, <2>5, ContextKind DEF OneRequest, RequestOK
  <2> QED
    BY <2>2, <2>3, <2>4, <2>6
<1> QED
  BY <1>2, <1>3

\* A socket call: as the machine does not wait, nothing of an earlier call is left.
LEMMA RpcStep ==
    ASSUME IInv, Rpc
    PROVE  IInv'
<1> USE DEF IInv
<1>1. /\ ctx = NoCtx /\ currentId' = currentId + 1 /\ currentId' \in 1 .. MaxRequests
      /\ UNCHANGED <<openCount, session, life, socket, up, down, hostVars>>
  BY NetworkAssumption DEF Rpc, TypeOK
<1>2. CASE openCount > 0 /\ session # NoSession
  <2>1. /\ ctx' = RpcCtx(currentId') /\ queue' = Enqueue(queue, session, "rpc")
        /\ session \in Sessions
    BY <1>2 DEF Rpc, TypeOK
  <2>2. /\ queue \in [Sessions -> Seq(Operations)]
        /\ "rpc" \in Operations /\ "rpc" # "connect" /\ "rpc" # "disconnect"
        /\ queue[session] # <<>> => "connect" \notin Elems(Tail(queue[session]))
    BY <2>1 DEF TypeOK, Operations, Queues, QueueOK
  <2>3. /\ queue' \in [Sessions -> Seq(Operations)]
        /\ \A i \in Sessions : i # session => queue'[i] = queue[i]
        /\ queue'[session] = Append(queue[session], "rpc")
        /\ queue'[session] # <<>>
        /\ "connect" \notin Elems(Tail(queue'[session]))
        /\ Elems(queue'[session]) = Elems(queue[session]) \cup {"rpc"}
    BY <2>1, <2>2, EnqueueQueue DEF Enqueue
  <2>4. TypeOK'
    BY <1>1, <2>1, <2>3 DEF TypeOK, Context, hostVars
  <2>5. Lives'
    BY <1>1, <1>2, <2>1, <2>3 DEF Lives
  <2>6. Queues'
    BY <1>1, <2>2, <2>3 DEF Queues, QueueOK
  <2>7. Suspension'
    BY <1>1, <1>2, <2>1, ContextKind DEF Suspension, hostVars
  <2>8. ASSUME ~interrupted
        PROVE  queue[session] = <<>> /\ up[session] = <<>> /\ Elems(down[session]) \subseteq {Close}
    <3>1. "rpc" \notin Elems(queue[session]) /\ "connect" \notin Elems(queue[session])
          /\ "disconnect" \notin Elems(queue[session])
      BY <1>1, <1>2, <2>1, <2>8, ContextKind DEF OneRequest, RequestOK, Queues, QueueOK
    <3>2. queue[session] \in Seq(Operations) /\ up[session] \in Seq(1 .. MaxRequests)
      BY <2>1 DEF TypeOK
    <3>3. Elems(queue[session]) = {}
      BY <3>1, <3>2, ElemsEmpty DEF Operations
    <3>4. Elems(up[session]) = {} /\ Elems(down[session]) \subseteq {Close}
      BY <1>1, <1>2, <2>8, ContextKind DEF OneRequest, RequestOK
    <3> QED
      BY <3>2, <3>3, <3>4, ElemsEmpty
  <2>9. OneRequest'
    <3> SUFFICES ASSUME ~interrupted, session # NoSession PROVE RequestOK'
      BY <1>1 DEF OneRequest, hostVars
    <3> QED
      BY <1>1, <2>1, <2>3, <2>8, ContextKind, ElemsNil DEF OneRequest, RequestOK
  <2> QED
    BY <2>4, <2>5, <2>6, <2>7, <2>9
<1>3. CASE ~(openCount > 0 /\ session # NoSession)
  <2>1. UNCHANGED <<ctx, queue>>
    BY <1>3 DEF Rpc
  <2> QED
    BY <1>1, <2>1 DEF TypeOK, Lives, Queues, QueueOK, Suspension, OneRequest, RequestOK, hostVars
<1> QED
  BY <1>2, <1>3

\* A clipboard call starts or ends, or the integration is switched.
LEMMA ClipboardStep ==
    ASSUME IInv, ClipboardCall \/ ToggleClipboard \/ \E i \in 1 .. MaxClips : ClipboardDone(i)
    PROVE  IInv'
<1> USE DEF IInv
<1>1. UNCHANGED <<openCount, currentId, session, life, queue, socket, up, down, redirection, interrupted>>
  BY DEF ClipboardCall, ClipboardDone, ToggleClipboard
<1>2. Lives' /\ Queues'
  BY <1>1 DEF Lives, Queues, QueueOK
<1>3. TypeOK'
  <2>1. CASE ClipboardCall
    <3>1. clips' = clips + 1 /\ clips' \in 1 .. MaxClips /\ clips \in 0 .. MaxClips
      BY <2>1, NetworkAssumption DEF ClipboardCall, TypeOK
    <3>2. pending' \subseteq 1 .. clips' /\ ctx' \in Context /\ clipOn' = clipOn
      BY <2>1, <3>1 DEF ClipboardCall, TypeOK, Context
    <3> QED
      BY <1>1, <3>1, <3>2 DEF TypeOK
  <2>2. CASE ToggleClipboard
    BY <1>1, <2>2 DEF ToggleClipboard, TypeOK
  <2>3. CASE \E i \in 1 .. MaxClips : ClipboardDone(i)
    BY <1>1, <2>3 DEF ClipboardDone, TypeOK, Context
  <2> QED
    BY <2>1, <2>2, <2>3
<1>4. Suspension'
  BY <1>1, ContextKind DEF Suspension, ClipboardCall, ClipboardDone, ToggleClipboard
<1>5. OneRequest'
  BY <1>1, ContextKind DEF Suspension, OneRequest, RequestOK, ClipboardCall, ClipboardDone, ToggleClipboard
<1> QED
  BY <1>2, <1>3, <1>4, <1>5

\* handleConnect succeeded. Only the current session wakes the machine, and its queue
\* holds no second connect.
LEMMA ConnectedStep ==
    ASSUME IInv, NEW s \in Sessions, Connected(s)
    PROVE  IInv'
<1> USE DEF IInv
<1>1. /\ Runs(s, "connect") /\ queue' = Pop(s) /\ socket' = [socket EXCEPT ![s] = "open"]
      /\ UNCHANGED <<currentId, session, life, up, down, hostVars>>
  BY DEF Connected
<1>2. /\ queue' \in [Sessions -> Seq(Operations)]
      /\ \A i \in Sessions : i # s => queue'[i] = queue[i]
      /\ Elems(queue[s]) = {"connect"} \cup Elems(queue'[s])
      /\ Len(queue[s]) <= 1 => queue'[s] = <<>>
      /\ "connect" \notin Elems(queue'[s])
      /\ queue'[s] # <<>> => "connect" \notin Elems(Tail(queue'[s]))
  BY <1>1, PopQueue DEF Operations
<1>3. life[s] # "unborn"
  BY <1>1 DEF Lives, Runs
<1>4. \/ UNCHANGED <<ctx, openCount>>
      \/ s = session /\ ctx.kind = "connect" /\ ctx' = NoCtx /\ openCount' = openCount + 1
  BY DEF Connected, Waits, Lives
<1>5. TypeOK'
  <2>1. socket' \in [Sessions -> {"none", "open", "lost"}]
    BY <1>1 DEF TypeOK
  <2>2. openCount' \in {0, 1} /\ ctx' \in Context
    BY <1>4 DEF TypeOK, Suspension, Context
  <2> QED
    BY <1>1, <1>2, <2>1, <2>2 DEF TypeOK, hostVars
<1>6. Lives'
  BY <1>1, <1>2, <1>3 DEF Lives, TypeOK
<1>7. Queues'
  <2> SUFFICES ASSUME NEW i \in Sessions PROVE QueueOK(i)'
    BY DEF Queues
  <2>1. CASE i = s
    BY <1>1, <1>2, <2>1, ElemsNil DEF Queues, QueueOK, TypeOK
  <2>2. CASE i # s
    BY <1>1, <1>2, <1>4, <2>2 DEF Queues, QueueOK, TypeOK
  <2> QED
    BY <2>1, <2>2
<1>8. Suspension'
  BY <1>1, <1>4, ContextKind DEF Suspension, hostVars
<1>9. OneRequest'
  <2> SUFFICES ASSUME ~interrupted, session # NoSession PROVE RequestOK'
    BY <1>1 DEF OneRequest, hostVars
  <2>1. session \in Sessions
    BY DEF TypeOK
  <2>2. CASE s = session
    BY <1>1, <1>2, <1>4, <2>2, ElemsNil, ContextKind DEF OneRequest, RequestOK
  <2>3. CASE s # session
    BY <1>1, <1>2, <1>4, <2>1, <2>3 DEF OneRequest, RequestOK
  <2> QED
    BY <2>2, <2>3
<1> QED
  BY <1>5, <1>6, <1>7, <1>8, <1>9

\* handleConnect failed: the session that is current by now is dropped.
LEMMA ConnectFailsStep ==
    ASSUME IInv, NEW s \in Sessions, ConnectFails(s)
    PROVE  IInv'
<1> USE DEF IInv
<1>1. /\ Runs(s, "connect") /\ session' = NoSession
      /\ UNCHANGED <<openCount, currentId, socket, up, down, hostVars>>
  BY DEF ConnectFails
<1> DEFINE rest == Pop(s)
<1>2. /\ rest \in [Sessions -> Seq(Operations)]
      /\ \A i \in Sessions : i # s => rest[i] = queue[i]
      /\ Elems(queue[s]) = {"connect"} \cup Elems(rest[s])
      /\ "connect" \notin Elems(rest[s])
      /\ rest[s] # <<>> => "connect" \notin Elems(Tail(rest[s]))
  BY <1>1, PopQueue DEF Operations
<1>3. life[s] # "unborn"
  BY <1>1 DEF Lives, Runs
<1>4. /\ session = NoSession => life' = life /\ queue' = rest
      /\ session # NoSession => /\ life' = [life EXCEPT ![session] = "terminated"]
                                /\ queue' = [rest EXCEPT ![session] = Append(@, "disconnect")]
  BY DEF ConnectFails, Enqueue
<1>5. ctx' = ctx \/ (ctx.kind = "connect" /\ ctx' = NoCtx)
  BY DEF ConnectFails, Waits
<1> HIDE DEF rest
<1>6. \A i \in Sessions : rest[i] # <<>> => "connect" \notin Elems(Tail(rest[i]))
  BY <1>2 DEF Queues, QueueOK
<1>7. /\ queue' \in [Sessions -> Seq(Operations)]
      /\ \A i \in Sessions : i # session => queue'[i] = rest[i]
      /\ session # NoSession => /\ queue'[session] # <<>>
                                /\ Elems(queue'[session]) = Elems(rest[session]) \cup {"disconnect"}
                                /\ "connect" \notin Elems(Tail(queue'[session]))
  <2>1. CASE session = NoSession
    BY <1>2, <1>4, <2>1
  <2>2. CASE session # NoSession
    <3>1. /\ session \in Sessions
          /\ "disconnect" \in Operations /\ "disconnect" # "connect"
          /\ rest[session] # <<>> => "connect" \notin Elems(Tail(rest[session]))
      BY <1>6, <2>2 DEF TypeOK, Operations
    <3>2. /\ queue' \in [Sessions -> Seq(Operations)]
          /\ \A i \in Sessions : i # session => queue'[i] = rest[i]
          /\ queue'[session] # <<>>
          /\ Elems(queue'[session]) = Elems(rest[session]) \cup {"disconnect"}
          /\ "connect" \notin Elems(Tail(queue'[session]))
      <4>1. PICK r \in [Sessions -> Seq(Operations)] :
              r = rest /\ queue' = [r EXCEPT ![session] = Append(@, "disconnect")]
        BY <1>2, <1>4, <2>2
      <4>2. r[session] # <<>> => "connect" \notin Elems(Tail(r[session]))
        BY <3>1, <4>1
      <4>3. /\ queue' \in [Sessions -> Seq(Operations)]
            /\ \A i \in Sessions : i # session => queue'[i] = r[i]
            /\ queue'[session] # <<>>
            /\ Elems(queue'[session]) = Elems(r[session]) \cup {"disconnect"}
            /\ "connect" \notin Elems(Tail(queue'[session]))
        BY <3>1, <4>1, <4>2, EnqueueQueue DEF Enqueue
      <4> QED
        BY <4>1, <4>3
    <3> QED
      BY <3>2
  <2> QED
    BY <2>1, <2>2
<1>8. TypeOK'
  <2>1. life' \in [Sessions -> {"unborn", "live", "terminated"}] /\ ctx' \in Context
    BY <1>4, <1>5 DEF TypeOK, Context
  <2> QED
    BY <1>1, <1>7, <2>1 DEF TypeOK, hostVars
<1>9. Lives'
  <2> SUFFICES ASSUME NEW i \in Sessions
               PROVE  /\ life'[i] # "live"
                      /\ life'[i] = "unborn" => queue'[i] = <<>> /\ socket[i] = "none"
    BY <1>1, NoSessionNew DEF Lives
  <2>1. CASE i = session
    BY <1>4, <2>1, NoSessionNew DEF TypeOK
  <2>2. CASE i # session
    <3>1. life'[i] = life[i]
      BY <1>4, <2>2 DEF TypeOK
    <3> QED
      BY <1>2, <1>3, <1>7, <2>2, <3>1 DEF Lives
  <2> QED
    BY <2>1, <2>2
<1>10. Queues'
  <2> SUFFICES ASSUME NEW i \in Sessions PROVE QueueOK(i)'
    BY DEF Queues
  <2>1. CASE i = session
    BY <1>1, <1>2, <1>7, <2>1, NoSessionNew DEF Queues, QueueOK
  <2>2. CASE i # session
    BY <1>1, <1>2, <1>6, <1>7, <2>2, NoSessionNew DEF Queues, QueueOK
  <2> QED
    BY <2>1, <2>2
<1>11. Suspension'
  BY <1>1, <1>5, ContextKind DEF Suspension, hostVars
<1>12. OneRequest'
  BY <1>1 DEF OneRequest, RequestOK
<1> QED
  BY <1>8, <1>9, <1>10, <1>11, <1>12

\* An operation other than connect leaves the queue of a session; the connection and
\* what is under way on it are accounted for by the caller.
LEMMA PopKeeps ==
    ASSUME TypeOK, Lives, Queues, NEW s \in Sessions, NEW op \in {"rpc", "disconnect"},
           Runs(s, op), queue' = Pop(s), UNCHANGED <<openCount, session, life>>,
           socket' = [socket EXCEPT ![s] = IF op = "disconnect" THEN "none" ELSE @],
           \A i \in Sessions : /\ socket'[i] = "none" => up'[i] = <<>> /\ down'[i] = <<>>
                               /\ socket'[i] = "open" => Close \notin Elems(down'[i])
    PROVE  /\ queue' \in [Sessions -> Seq(Operations)]
           /\ \A i \in Sessions : i # s => queue'[i] = queue[i]
           /\ Elems(queue[s]) = {op} \cup Elems(queue'[s])
           /\ Len(queue[s]) <= 1 => queue'[s] = <<>>
           /\ Lives' /\ Queues'
<1>1. /\ queue' \in [Sessions -> Seq(Operations)]
      /\ \A i \in Sessions : i # s => queue'[i] = queue[i]
      /\ Elems(queue[s]) = {op} \cup Elems(queue'[s])
      /\ Len(queue[s]) <= 1 => queue'[s] = <<>>
      /\ "connect" \notin Elems(queue'[s])
      /\ queue'[s] # <<>> => "connect" \notin Elems(Tail(queue'[s]))
  BY PopQueue DEF Operations
<1>2. life[s] # "unborn"
  BY DEF Lives, Runs
<1>3. Lives'
  BY <1>1, <1>2 DEF Lives, TypeOK
<1>4. Queues'
  <2> SUFFICES ASSUME NEW i \in Sessions PROVE QueueOK(i)'
    BY DEF Queues
  <2>1. CASE i = s
    BY <1>1, <2>1 DEF Queues, QueueOK, TypeOK
  <2>2. CASE i # s
    BY <1>1, <2>2 DEF Queues, QueueOK, TypeOK
  <2> QED
    BY <2>1, <2>2
<1> QED
  BY <1>1, <1>3, <1>4

\* handleRpc: the request leaves the queue and is sent, or the machine is woken.
LEMMA HandleRpcStep ==
    ASSUME IInv, NEW s \in Sessions, HandleRpc(s) \/ HandleRpcFails(s)
    PROVE  IInv'
<1> USE DEF IInv
<1>1. /\ Runs(s, "rpc") /\ queue' = Pop(s)
      /\ UNCHANGED <<openCount, currentId, session, life, socket, down, hostVars>>
  BY DEF HandleRpc, HandleRpcFails
<1>2. /\ up' = up \/ (/\ s = session /\ ctx.kind = "rpc" /\ socket[s] = "open" /\ ctx' = ctx
                      /\ up' = [up EXCEPT ![s] = Append(@, ctx.id)])
      /\ ctx' = ctx \/ (s = session /\ ctx.kind = "rpc" /\ ctx' = NoCtx /\ up' = up)
  BY DEF HandleRpc, HandleRpcFails, Waits, Lives
<1>3. up' \in [Sessions -> Seq(1 .. MaxRequests)] /\ ctx' \in Context
  <2>1. CASE up' = up
    BY <1>2, <2>1 DEF TypeOK, Context
  <2>2. CASE up' # up
    <3>1. ctx.id \in 1 .. MaxRequests /\ up[s] \in Seq(1 .. MaxRequests)
      BY <1>2, <2>2, ContextKind DEF TypeOK
    <3>2. Append(up[s], ctx.id) \in Seq(1 .. MaxRequests)
      BY <3>1
    <3> QED
      BY <1>2, <2>2, <3>2 DEF TypeOK
  <2> QED
    BY <2>1, <2>2
<1>4. \A i \in Sessions : /\ socket'[i] = "none" => up'[i] = <<>> /\ down'[i] = <<>>
                          /\ socket'[i] = "open" => Close \notin Elems(down'[i])
  BY <1>1, <1>2 DEF Queues, QueueOK, TypeOK
<1>5. socket' = [socket EXCEPT ![s] = IF "rpc" = "disconnect" THEN "none" ELSE @]
  BY <1>1 DEF TypeOK
<1>6. /\ queue' \in [Sessions -> Seq(Operations)]
      /\ \A i \in Sessions : i # s => queue'[i] = queue[i]
      /\ Elems(queue[s]) = {"rpc"} \cup Elems(queue'[s])
      /\ Len(queue[s]) <= 1 => queue'[s] = <<>>
      /\ Lives' /\ Queues'
  BY <1>1, <1>4, <1>5, PopKeeps
<1>7. TypeOK'
  BY <1>1, <1>3, <1>6 DEF TypeOK, hostVars
<1>8. Suspension'
  BY <1>1, <1>2, ContextKind DEF Suspension, hostVars
<1>9. OneRequest'
  <2> SUFFICES ASSUME ~interrupted, session # NoSession PROVE RequestOK'
    BY <1>1 DEF OneRequest, hostVars
  <2>1. session \in Sessions
    BY DEF TypeOK
  <2>2. CASE s = session
    <3>1. queue'[session] = <<>> /\ up[session] = <<>> /\ Elems(down[session]) \subseteq {Close}
      BY <1>6, <2>2 DEF OneRequest, RequestOK
    <3>2. up' = up => Elems(up'[session]) = {}
      BY <3>1, ElemsNil
    <3>3. up' # up => /\ Elems(up'[session]) = {ctx.id} /\ ctx' = RpcCtx(ctx.id)
                      /\ Len(up'[session]) <= 1
      <4> SUFFICES ASSUME up' # up
                   PROVE  /\ Elems(up'[session]) = {ctx.id} /\ ctx' = RpcCtx(ctx.id)
                          /\ Len(up'[session]) <= 1
        OBVIOUS
      <4>1. /\ up'[session] = Append(up[session], ctx.id) /\ ctx' = RpcCtx(ctx.id)
            /\ ctx.id \in 1 .. MaxRequests /\ up[session] \in Seq(1 .. MaxRequests)
        BY <1>2, <2>1, <2>2, ContextKind DEF TypeOK
      <4>2. /\ Elems(up'[session]) = Elems(up[session]) \cup {ctx.id}
            /\ Len(up'[session]) = Len(up[session]) + 1
        <5> DEFINE Ids == 1 .. MaxRequests
        <5>1. ctx.id \in Ids /\ up[session] \in Seq(Ids)
          BY <4>1
        <5> HIDE DEF Ids
        <5> QED
          BY <4>1, <5>1, ElemsAppend
      <4> QED
        BY <3>1, <4>1, <4>2, ElemsNil
    <3> QED
      BY <1>1, <3>1, <3>2, <3>3, ElemsNil DEF OneRequest, RequestOK
  <2>3. CASE s # session
    BY <1>1, <1>2, <1>6, <2>1, <2>3 DEF OneRequest, RequestOK
  <2> QED
    BY <2>2, <2>3
<1> QED
  BY <1>6, <1>7, <1>8, <1>9

\* A queued disconnect is never one of the current session.
LEMMA DisconnectStep ==
    ASSUME IInv, NEW s \in Sessions, Disconnect(s)
    PROVE  IInv'
<1> USE DEF IInv
<1>1. /\ Runs(s, "disconnect") /\ queue' = Pop(s) /\ CloseSocket(s)
      /\ UNCHANGED <<openCount, currentId, ctx, session, life, hostVars>>
  BY DEF Disconnect
<1>2. /\ socket' \in [Sessions -> {"none", "open", "lost"}]
      /\ up' \in [Sessions -> Seq(1 .. MaxRequests)]
      /\ down' \in [Sessions -> Seq(Events)]
      /\ socket'[s] = "none" /\ up'[s] = <<>> /\ down'[s] = <<>>
      /\ \A i \in Sessions : i # s =>
           socket'[i] = socket[i] /\ up'[i] = up[i] /\ down'[i] = down[i]
  BY <1>1, CloseSocketType
<1>3. \A i \in Sessions : /\ socket'[i] = "none" => up'[i] = <<>> /\ down'[i] = <<>>
                          /\ socket'[i] = "open" => Close \notin Elems(down'[i])
  BY <1>2 DEF Queues, QueueOK
<1>4. socket' = [socket EXCEPT ![s] = IF "disconnect" = "disconnect" THEN "none" ELSE @]
  BY <1>1 DEF CloseSocket
<1>5. /\ queue' \in [Sessions -> Seq(Operations)]
      /\ \A i \in Sessions : i # s => queue'[i] = queue[i]
      /\ Elems(queue[s]) = {"disconnect"} \cup Elems(queue'[s])
      /\ Lives' /\ Queues'
  BY <1>1, <1>3, <1>4, PopKeeps
<1>6. s # session
  BY <1>5 DEF Queues, QueueOK
<1>7. TypeOK' /\ Suspension'
  BY <1>1, <1>2, <1>5 DEF TypeOK, Suspension, hostVars
<1>8. OneRequest'
  BY <1>1, <1>2, <1>5, <1>6 DEF OneRequest, RequestOK, TypeOK, hostVars
<1> QED
  BY <1>5, <1>7, <1>8

\* onRpcResult: the response found the machine waiting for it, or the session is not
\* the current one.
LEMMA OnRpcResultStep ==
    ASSUME IInv, NEW s \in Sessions, OnRpcResult(s)
    PROVE  IInv'
<1> USE DEF IInv
<1>1. /\ down[s] # <<>> /\ Head(down[s]) # Close
      /\ down' = [down EXCEPT ![s] = Tail(@)]
      /\ UNCHANGED <<openCount, currentId, session, life, queue, socket, up, hostVars>>
  BY DEF OnRpcResult
<1>2. ctx' = ctx \/ (s = session /\ ctx.kind = "rpc" /\ ctx' = NoCtx)
  BY DEF OnRpcResult, Waits, Lives
<1>3. s = session /\ ctx.kind = "rpc" => ctx' = NoCtx \/ life[s] # "live"
  BY DEF OnRpcResult, Waits
<1>4. down[s] \in Seq(Events)
  BY DEF TypeOK
<1>5. /\ Tail(down[s]) \in Seq(Events)
      /\ Elems(down[s]) = {Head(down[s])} \cup Elems(Tail(down[s]))
  BY <1>1, <1>4, ElemsTail
<1>6. down' \in [Sessions -> Seq(Events)] /\ down'[s] = Tail(down[s])
      /\ \A i \in Sessions : i # s => down'[i] = down[i]
  BY <1>1, <1>5 DEF TypeOK
<1>7. TypeOK'
  BY <1>1, <1>2, <1>6 DEF TypeOK, Context, hostVars
<1>8. Lives'
  BY <1>1 DEF Lives
<1>9. Queues'
  <2> SUFFICES ASSUME NEW i \in Sessions PROVE QueueOK(i)'
    BY DEF Queues
  <2>1. QueueOK(i) /\ (socket[i] = "none" => down'[i] = <<>>) /\ Elems(down'[i]) \subseteq Elems(down[i])
    BY <1>1, <1>5, <1>6 DEF Queues, QueueOK
  <2> QED
    BY <1>1, <2>1 DEF QueueOK
<1>10. Suspension'
  BY <1>1, <1>2, ContextKind DEF Suspension, hostVars
<1>11. OneRequest'
  <2> SUFFICES ASSUME ~interrupted, session # NoSession PROVE RequestOK'
    BY <1>1 DEF OneRequest, hostVars
  <2>1. session \in Sessions /\ RequestOK
    BY DEF TypeOK, OneRequest
  <2>2. CASE s = session
    <3>1. ctx.kind = "rpc"
      BY <1>1, <1>5, <2>1, <2>2, ContextKind DEF RequestOK
    <3>2. ctx' = NoCtx
      BY <1>3, <2>2, <3>1 DEF Lives
    <3>3. Elems(down'[session]) \subseteq {Close}
      BY <1>1, <1>6, <2>1, <2>2 DEF RequestOK
    <3>4. up[session] = <<>> /\ "rpc" \notin Elems(queue[session])
      BY <1>1, <1>5, <2>1, <2>2 DEF RequestOK
    <3>5. down'[session] # <<>> => Elems(Tail(down'[session])) \subseteq {Close}
      BY <1>6, <2>1, <2>2, <3>3, ElemsTail
    <3> QED
      BY <1>1, <2>1, <3>2, <3>3, <3>4, <3>5, ElemsNil DEF RequestOK
  <2>3. CASE s # session
    BY <1>1, <1>2, <1>6, <2>1, <2>3 DEF RequestOK
  <2> QED
    BY <2>2, <2>3
<1> QED
  BY <1>7, <1>8, <1>9, <1>10, <1>11

\* onSocketClose: the backend disconnects, and the service drops the session if it is
\* the current one.
LEMMA OnSocketCloseStep ==
    ASSUME IInv, NEW s \in Sessions, OnSocketClose(s)
    PROVE  IInv'
<1> USE DEF IInv
<1>1. CloseSocket(s) /\ UNCHANGED <<openCount, currentId, ctx, hostVars>>
  BY DEF OnSocketClose
<1>2. /\ socket' \in [Sessions -> {"none", "open", "lost"}]
      /\ up' \in [Sessions -> Seq(1 .. MaxRequests)]
      /\ down' \in [Sessions -> Seq(Events)]
      /\ socket'[s] = "none" /\ up'[s] = <<>> /\ down'[s] = <<>>
      /\ \A i \in Sessions : i # s =>
           socket'[i] = socket[i] /\ up'[i] = up[i] /\ down'[i] = down[i]
  BY <1>1, CloseSocketType
<1>3. Suspension'
  BY <1>1 DEF Suspension, hostVars
<1>4. CASE s = session
  <2>1. session # NoSession /\ session \in Sessions
    BY <1>4, NoSessionNew
  <2>2. /\ session' = NoSession
        /\ life' = [life EXCEPT ![session] = "terminated"]
        /\ queue' = [queue EXCEPT ![session] = Append(@, "disconnect")]
    BY <1>4, <2>1 DEF OnSocketClose, Reset, Enqueue
  <2>3. /\ queue' \in [Sessions -> Seq(Operations)]
        /\ \A i \in Sessions : i # session => queue'[i] = queue[i]
        /\ queue'[session] # <<>>
        /\ Elems(queue'[session]) = Elems(queue[session]) \cup {"disconnect"}
        /\ "connect" \notin Elems(Tail(queue'[session]))
    <3>1. /\ queue \in [Sessions -> Seq(Operations)]
          /\ "disconnect" \in Operations /\ "disconnect" # "connect"
          /\ queue[session] # <<>> => "connect" \notin Elems(Tail(queue[session]))
      BY <2>1 DEF TypeOK, Operations, Queues, QueueOK
    <3> QED
      BY <2>1, <2>2, <3>1, EnqueueQueue DEF Enqueue
  <2>4. TypeOK'
    <3>1. life' \in [Sessions -> {"unborn", "live", "terminated"}]
      BY <2>2 DEF TypeOK
    <3> QED
      BY <1>1, <1>2, <2>2, <2>3, <3>1 DEF TypeOK, hostVars
  <2>5. Lives'
    BY <1>2, <1>4, <2>1, <2>2, <2>3 DEF Lives, TypeOK
  <2>6. Queues'
    <3> SUFFICES ASSUME NEW i \in Sessions PROVE QueueOK(i)'
      BY DEF Queues
    <3>1. QueueOK(i) /\ "connect" # "disconnect" /\ i # session'
      BY <2>2, NoSessionNew DEF Queues
    <3>2. CASE i = session
      BY <1>2, <1>4, <2>3, <3>1, <3>2, ElemsNil DEF QueueOK
    <3>3. CASE i # session
      BY <1>2, <1>4, <2>3, <3>1, <3>3 DEF QueueOK
    <3> QED
      BY <3>2, <3>3
  <2> QED
    BY <1>3, <2>2, <2>4, <2>5, <2>6 DEF OneRequest
<1>5. CASE s # session
  <2>1. UNCHANGED <<life, queue, session>>
    BY <1>5 DEF OnSocketClose
  <2>2. TypeOK' /\ Lives'
    BY <1>1, <1>2, <2>1 DEF TypeOK, Lives, hostVars
  <2>3. Queues'
    BY <1>1, <1>2, <2>1, ElemsNil DEF Queues, QueueOK
  <2>4. OneRequest'
    BY <1>1, <1>2, <1>5, <2>1 DEF OneRequest, RequestOK, TypeOK, hostVars
  <2> QED
    BY <1>3, <2>2, <2>3, <2>4
<1> QED
  BY <1>4, <1>5

\* The server answers the one request that is under way.
LEMMA ServeStep ==
    ASSUME IInv, NEW s \in Sessions, Serve(s)
    PROVE  IInv'
<1> USE DEF IInv
<1>1. /\ socket[s] = "open" /\ up[s] # <<>>
      /\ up' = [up EXCEPT ![s] = Tail(@)]
      /\ down' = [down EXCEPT ![s] = Append(@, Response(Head(up[s])))]
      /\ UNCHANGED <<openCount, currentId, ctx, session, life, queue, socket, hostVars>>
  BY DEF Serve
<1>2. up[s] \in Seq(1 .. MaxRequests) /\ down[s] \in Seq(Events)
  BY DEF TypeOK
<1> DEFINE id == Head(up[s])
<1>3. /\ Tail(up[s]) \in Seq(1 .. MaxRequests) /\ id \in 1 .. MaxRequests
      /\ Elems(up[s]) = {id} \cup Elems(Tail(up[s]))
      /\ Len(up[s]) <= 1 => Tail(up[s]) = <<>>
  BY <1>1, <1>2, ElemsTail
<1>4. Response(id) \in Events /\ Response(id) # Close /\ Response(id).id = id
  BY <1>3 DEF Events, Response, Close
<1> DEFINE longer == Append(down[s], Response(id))
<1> HIDE DEF id
<1>5. /\ longer \in Seq(Events) /\ longer # <<>>
      /\ Elems(longer) = Elems(down[s]) \cup {Response(id)}
      /\ down[s] = <<>> => Tail(longer) = <<>>
  BY <1>2, <1>4, ElemsAppend
<1>6. /\ up' \in [Sessions -> Seq(1 .. MaxRequests)] /\ down' \in [Sessions -> Seq(Events)]
      /\ up'[s] = Tail(up[s]) /\ down'[s] = longer
      /\ \A i \in Sessions : i # s => up'[i] = up[i] /\ down'[i] = down[i]
  BY <1>1, <1>3, <1>5 DEF TypeOK, id
<1> HIDE DEF longer
<1>7. TypeOK' /\ Lives' /\ Suspension'
  BY <1>1, <1>6 DEF TypeOK, Lives, Suspension, hostVars
<1>8. Queues'
  <2> SUFFICES ASSUME NEW i \in Sessions PROVE QueueOK(i)'
    BY DEF Queues
  <2>1. QueueOK(i)
    BY DEF Queues
  <2>2. CASE i = s
    BY <1>1, <1>4, <1>5, <1>6, <2>1, <2>2 DEF QueueOK
  <2>3. CASE i # s
    BY <1>1, <1>6, <2>1, <2>3 DEF QueueOK
  <2> QED
    BY <2>2, <2>3
<1>9. OneRequest'
  <2> SUFFICES ASSUME ~interrupted, session # NoSession PROVE RequestOK'
    BY <1>1 DEF OneRequest, hostVars
  <2>1. session \in Sessions /\ RequestOK
    BY DEF TypeOK, OneRequest
  <2>2. CASE s = session
    <3>1. down[s] = <<>>
      <4>1. Elems(down[s]) = {}
        BY <1>1, <2>1, <2>2 DEF RequestOK, Queues, QueueOK
      <4> QED
        BY <1>2, <4>1, ElemsEmpty
    <3>2. up'[s] = <<>> /\ "rpc" \notin Elems(queue[s]) /\ ctx = RpcCtx(id)
      BY <1>1, <1>3, <1>6, <2>1, <2>2 DEF RequestOK
    <3>3. Elems(down'[s]) = {Response(id)} /\ Tail(down'[s]) = <<>>
      BY <1>5, <1>6, <3>1, ElemsNil
    <3> QED
      BY <1>1, <1>4, <2>1, <2>2, <3>2, <3>3, ElemsNil DEF RequestOK
  <2>3. CASE s # session
    BY <1>1, <1>6, <2>1, <2>3 DEF RequestOK
  <2> QED
    BY <2>2, <2>3
<1> QED
  BY <1>7, <1>8, <1>9

\* The connection is lost, with everything that is on its way to the server.
LEMMA DropStep ==
    ASSUME IInv, NEW s \in Sessions, Drop(s)
    PROVE  IInv'
<1> USE DEF IInv
<1>1. /\ socket[s] = "open" /\ socket' = [socket EXCEPT ![s] = "lost"]
      /\ up' = [up EXCEPT ![s] = <<>>]
      /\ down' = [down EXCEPT ![s] = Append(@, Close)]
      /\ UNCHANGED <<openCount, currentId, ctx, session, life, queue, hostVars>>
  BY DEF Drop
<1>2. down[s] \in Seq(Events) /\ Close \in Events
  BY DEF TypeOK, Events
<1> DEFINE longer == Append(down[s], Close)
<1>3. /\ longer \in Seq(Events) /\ longer # <<>>
      /\ Elems(longer) = Elems(down[s]) \cup {Close}
      /\ down[s] = <<>> => Elems(Tail(longer)) = {}
      /\ down[s] # <<>> => Elems(Tail(longer)) = Elems(Tail(down[s])) \cup {Close}
  <2>1. /\ longer \in Seq(Events) /\ longer # <<>>
        /\ Elems(longer) = Elems(down[s]) \cup {Close}
        /\ down[s] = <<>> => Tail(longer) = <<>>
        /\ down[s] # <<>> => Tail(longer) = Append(Tail(down[s]), Close)
    BY <1>2, ElemsAppend
  <2>2. ASSUME down[s] # <<>>
        PROVE  Elems(Append(Tail(down[s]), Close)) = Elems(Tail(down[s])) \cup {Close}
    <3> DEFINE r == Tail(down[s])
    <3>1. r \in Seq(Events)
      BY <1>2, <2>2
    <3> HIDE DEF r
    <3>2. Elems(Append(r, Close)) = Elems(r) \cup {Close}
      BY <1>2, <3>1, ElemsAppend
    <3> QED
      BY <3>2 DEF r
  <2> QED
    BY <2>1, <2>2, ElemsNil
<1>4. /\ socket' \in [Sessions -> {"none", "open", "lost"}] /\ socket'[s] = "lost"
      /\ up' \in [Sessions -> Seq(1 .. MaxRequests)] /\ up'[s] = <<>>
      /\ down' \in [Sessions -> Seq(Events)] /\ down'[s] = longer
      /\ \A i \in Sessions : i # s =>
           socket'[i] = socket[i] /\ up'[i] = up[i] /\ down'[i] = down[i]
  BY <1>1, <1>3 DEF TypeOK
<1> HIDE DEF longer
<1>5. TypeOK' /\ Suspension'
  BY <1>1, <1>4 DEF TypeOK, Suspension, hostVars
<1>6. Lives'
  BY <1>1, <1>4 DEF Lives
<1>7. Queues'
  <2> SUFFICES ASSUME NEW i \in Sessions PROVE QueueOK(i)'
    BY DEF Queues
  <2>1. QueueOK(i)
    BY DEF Queues
  <2>2. CASE i = s
    BY <1>1, <1>4, <2>1, <2>2 DEF QueueOK
  <2>3. CASE i # s
    BY <1>1, <1>4, <2>1, <2>3 DEF QueueOK
  <2> QED
    BY <2>2, <2>3
<1>8. OneRequest'
  <2> SUFFICES ASSUME ~interrupted, session # NoSession PROVE RequestOK'
    BY <1>1 DEF OneRequest, hostVars
  <2>1. session \in Sessions /\ RequestOK
    BY DEF TypeOK, OneRequest
  <2>2. CASE s = session
    BY <1>1, <1>3, <1>4, <2>1, <2>2, ElemsNil DEF RequestOK
  <2>3. CASE s # session
    BY <1>1, <1>4, <2>1, <2>3 DEF RequestOK
  <2> QED
    BY <2>2, <2>3
<1> QED
  BY <1>5, <1>6, <1>7, <1>8

-----------------------------------------------------------------------------
(***************************************************************************)
(* The theorems.                                                           *)
(***************************************************************************)

\* A page that starts has no session.
LEMMA IInvInit == Init => IInv
<1> SUFFICES ASSUME Init PROVE IInv
  OBVIOUS
<1> USE DEF Init
<1>1. TypeOK
  <2>1. /\ queue \in [Sessions -> Seq(Operations)]
        /\ up \in [Sessions -> Seq(1 .. MaxRequests)] /\ down \in [Sessions -> Seq(Events)]
    OBVIOUS
  <2>2. /\ currentId \in 0 .. MaxRequests /\ clips \in 0 .. MaxClips /\ pending \subseteq 1 .. clips
        /\ ctx \in Context /\ session \in Sessions \cup {NoSession}
    BY NetworkAssumption DEF Context
  <2> QED
    BY <2>1, <2>2 DEF TypeOK
<1>2. Lives
  BY NoSessionNew DEF Lives
<1>3. Queues
  BY NoSessionNew, ElemsNil DEF Queues, QueueOK
<1>4. Suspension
  BY DEF Suspension, NoCtx
<1> QED
  BY <1>1, <1>2, <1>3, <1>4 DEF IInv, OneRequest

\* Every step keeps the invariant.
LEMMA IInvStep ==
    ASSUME IInv, [Next]_vars
    PROVE  IInv'
<1>1. CASE Open
  BY <1>1, OpenStep
<1>2. CASE OpenWithoutBackend \/ CloseLibrary \/ SwitchSession \/ ToggleRedirection
  BY <1>2, DropSessionStep
<1>3. CASE Rpc
  BY <1>3, RpcStep
<1>4. CASE ResetMachine
  BY <1>4, ResetMachineStep
<1>5. CASE ClipboardCall \/ ToggleClipboard \/ \E i \in 1 .. MaxClips : ClipboardDone(i)
  BY <1>5, ClipboardStep
<1>6. ASSUME NEW s \in Sessions, Connected(s) PROVE IInv'
  BY <1>6, ConnectedStep
<1>7. ASSUME NEW s \in Sessions, ConnectFails(s) PROVE IInv'
  BY <1>7, ConnectFailsStep
<1>8. ASSUME NEW s \in Sessions, HandleRpc(s) \/ HandleRpcFails(s) PROVE IInv'
  BY <1>8, HandleRpcStep
<1>9. ASSUME NEW s \in Sessions, Disconnect(s) PROVE IInv'
  BY <1>9, DisconnectStep
<1>10. ASSUME NEW s \in Sessions, OnRpcResult(s) PROVE IInv'
  BY <1>10, OnRpcResultStep
<1>11. ASSUME NEW s \in Sessions, OnSocketClose(s) PROVE IInv'
  BY <1>11, OnSocketCloseStep
<1>12. ASSUME NEW s \in Sessions, Serve(s) PROVE IInv'
  BY <1>12, ServeStep
<1>13. ASSUME NEW s \in Sessions, Drop(s) PROVE IInv'
  BY <1>13, DropStep
<1>14. CASE UNCHANGED vars
  BY <1>14 DEF vars, IInv, TypeOK, Lives, Queues, QueueOK, Suspension, OneRequest, RequestOK
<1> QED
  BY <1>1, <1>2, <1>3, <1>4, <1>5, <1>6, <1>7, <1>8, <1>9, <1>10, <1>11, <1>12, <1>13, <1>14
     DEF Next

\* The invariant holds in every state the system reaches.
THEOREM Invariant == Spec => []IInv
<1>1. IInv /\ [Next]_vars => IInv'
  BY IInvStep
<1> QED
  BY IInvInit, <1>1, PTL DEF Spec

\* Every variable keeps its type: in particular the library is never open twice.
THEOREM TypeCorrect == Spec => []TypeOK
<1>1. IInv => TypeOK
  BY DEF IInv
<1> QED
  BY Invariant, <1>1, PTL

\* No response is out of order or arrives at a machine that does not wait for it.
THEOREM ResponsesMatch == Spec => []NoStrayResponse
<1>1. IInv => NoStrayResponse
  BY DEF IInv, OneRequest, RequestOK, NoStrayResponse, Elems
<1> QED
  BY Invariant, <1>1, PTL

\* No session and no connection is forgotten.
THEOREM NothingLeaks == Spec => []NoLeak
<1>1. IInv => NoLeak
  <2> SUFFICES ASSUME IInv, NEW s \in Sessions, s # session
               PROVE  /\ life[s] # "live"
                      /\ socket[s] # "none" \/ Runs(s, "connect") =>
                           "disconnect" \in Elems(queue[s])
    BY DEF NoLeak, Elems
  <2>1. Runs(s, "connect") => "connect" \in Elems(queue[s])
    BY ElemsEmpty DEF IInv, TypeOK, Runs
  <2> QED
    BY <2>1 DEF IInv, Lives, Queues, QueueOK
<1> QED
  BY Invariant, <1>1, PTL

\* While redirection is off, the library is closed and the service has no session.
Redirected == redirection \/ (session = NoSession /\ openCount = 0)

LEMMA RedirectedStep ==
    ASSUME IInv, Redirected, [Next]_vars
    PROVE  Redirected'
<1>1. CASE Open \/ OpenWithoutBackend \/ CloseLibrary \/ Rpc
  BY <1>1 DEF Open, OpenWithoutBackend, CloseLibrary, Rpc, hostVars, Redirected
<1>2. CASE ResetMachine \/ SwitchSession
  BY <1>2 DEF ResetMachine, ResetProxy, SwitchSession, Reset, ResetContext, Redirected
<1>3. CASE ToggleRedirection
  <2>1. redirection \in BOOLEAN /\ redirection' = ~redirection /\ session' = NoSession
    BY <1>3 DEF IInv, TypeOK, ToggleRedirection, Reset
  <2>2. redirection => openCount' = 0
    BY <1>3 DEF ToggleRedirection
  <2> QED
    BY <2>1, <2>2 DEF Redirected
<1>4. CASE ClipboardCall \/ ToggleClipboard \/ \E i \in 1 .. MaxClips : ClipboardDone(i)
  BY <1>4 DEF ClipboardCall, ToggleClipboard, ClipboardDone, Redirected
<1>5. ASSUME NEW s \in Sessions, Connected(s) PROVE Redirected'
  <2>1. UNCHANGED <<redirection, session>> /\ (openCount' = openCount \/ life[s] = "live")
    BY <1>5 DEF Connected, Waits, hostVars
  <2>2. life[s] = "live" => session # NoSession
    BY NoSessionNew DEF IInv, Lives
  <2> QED
    BY <2>1, <2>2 DEF Redirected
<1>6. ASSUME NEW s \in Sessions, ConnectFails(s) \/ HandleRpc(s) \/ HandleRpcFails(s) \/ Disconnect(s)
                                  \/ OnRpcResult(s) \/ OnSocketClose(s) \/ Serve(s) \/ Drop(s)
      PROVE  Redirected'
  BY <1>6 DEF ConnectFails, HandleRpc, HandleRpcFails, Disconnect, OnRpcResult, OnSocketClose, Reset, Serve,
              Drop, hostVars, Redirected
<1>7. CASE UNCHANGED vars
  BY <1>7 DEF vars, Redirected
<1> QED
  BY <1>1, <1>2, <1>3, <1>4, <1>5, <1>6, <1>7 DEF Next

\* With redirection off nothing is left of the network: the library is closed and the
\* service has no session, whichever way either came about.
THEOREM OffMeansClosed == Spec => []Redirected
<1>1. Init => Redirected
  BY DEF Init, Redirected
<1>2. IInv /\ Redirected /\ [Next]_vars => Redirected'
  BY RedirectedStep
<1> QED
  BY Invariant, <1>1, <1>2, PTL DEF Spec

\* The machine is left waiting for a session that is gone in the three known cases only:
\* a lost connection, an earlier attempt that fails late, and redirection switched off
\* before the connection is made. With the library open, the switch wakes the machine.
THEOREM StrandedOnly == Spec => StrandedOnlyBy
<1> DEFINE Known == \/ ToggleRedirection /\ redirection /\ ctx = ConnectCtx
                    \/ \E s \in Sessions : OnSocketClose(s) \/ (ConnectFails(s) /\ s # session)
<1>1. IInv /\ Redirected /\ [Next]_vars => [~Stranded /\ Stranded' => Known]_vars
  <2> SUFFICES ASSUME IInv, Redirected, Next, ~Stranded, Stranded' PROVE Known
    BY DEF vars
  <2>1. ~(Open \/ OpenWithoutBackend \/ CloseLibrary \/ Rpc \/ ResetMachine \/ SwitchSession
            \/ ClipboardCall \/ ToggleClipboard \/ \E i \in 1 .. MaxClips : ClipboardDone(i))
    BY ContextKind, NoSessionNew
       DEF IInv, Stranded, Open, CreateNewSession, OpenWithoutBackend, CloseLibrary, Rpc,
           ResetMachine, SwitchSession, ResetContext, ClipboardCall, ToggleClipboard, ClipboardDone
  <2>2. ASSUME NEW s \in Sessions
        PROVE  ~(Connected(s) \/ HandleRpc(s) \/ HandleRpcFails(s) \/ Disconnect(s)
                   \/ OnRpcResult(s) \/ Serve(s) \/ Drop(s))
    BY ContextKind
       DEF IInv, Stranded, Connected, HandleRpc, HandleRpcFails, Disconnect, OnRpcResult, Serve, Drop
  <2>3. ASSUME NEW s \in Sessions, ConnectFails(s) PROVE s # session
    <3> SUFFICES ASSUME s = session PROVE FALSE
      OBVIOUS
    <3>1. "connect" \in Elems(queue[s])
      BY <2>3, ElemsEmpty DEF ConnectFails, Runs, IInv, TypeOK
    <3>2. openCount = 0 /\ life[s] = "live" /\ ctx.kind # "rpc"
      BY <3>1, NoSessionNew DEF IInv, Queues, QueueOK, Lives, Suspension
    <3> QED
      BY <2>3, <3>2, ContextKind DEF ConnectFails, Waits, Stranded, IInv
  <2>4. ASSUME ToggleRedirection PROVE redirection /\ ctx = ConnectCtx
    <3>1. CASE ~redirection
      <4>1. session = NoSession /\ ctx' = ctx
        BY <2>4, <3>1 DEF ToggleRedirection, Redirected
      <4> QED
        BY <4>1 DEF Stranded
    <3>2. CASE redirection
      <4>1. ctx' = CancelCall /\ ctx'.kind \in {"connect", "rpc"}
        BY <2>4, <3>2 DEF ToggleRedirection, Stranded
      <4>2. ctx' = ctx /\ ~(openCount > 0)
        BY <4>1, ContextKind DEF CancelCall, IInv
      <4> QED
        BY <3>2, <4>1, <4>2, ContextKind DEF IInv, Suspension
    <3> QED
      BY <3>1, <3>2
  <2> QED
    BY <2>1, <2>2, <2>3, <2>4 DEF Next
<1> QED
  BY Invariant, OffMeansClosed, <1>1, PTL DEF Spec, StrandedOnlyBy

\* The end of a clipboard operation wakes the call it was started for.
THEOREM ClipboardWakes == Spec => ClipboardWakesItsCall
<1>1. IInv /\ [Next]_vars =>
        [\A i \in pending : i \notin pending' => interrupted \/ ctx = ClipCtx(i)]_vars
  BY DEF IInv, Suspension
<1> QED
  BY Invariant, <1>1, PTL DEF Spec, ClipboardWakesItsCall
=============================================================================
