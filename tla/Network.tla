------------------------------ MODULE Network ------------------------------
(***************************************************************************)
(* How the machine uses the network: a call of the PalmOS net library      *)
(* suspends the machine (NetworkProxy, SuspendManager), the page connects  *)
(* or passes the request to a proxy server (NetworkService, NetworkSession *)
(* and a backend), and the answer resumes the machine. A clipboard call    *)
(* suspends it likewise until the host's clipboard has been read or        *)
(* written (ClipboardService). The user may reset the machine, switch      *)
(* sessions or change the settings at any time, and a connection may fail  *)
(* or drop at any time.                                                    *)
(*                                                                         *)
(* A NetworkSession serialises its operations by a mutex; a session that   *)
(* was terminated still works off the operations it has queued.            *)
(***************************************************************************)
EXTENDS Naturals, Sequences

CONSTANTS
    MaxSessions,  \* bound: network sessions created
    MaxRequests,  \* bound: requests sent
    MaxClips      \* bound: clipboard calls

ASSUME NetworkAssumption ==
    MaxSessions \in Nat \ {0} /\ MaxRequests \in Nat /\ MaxClips \in Nat

VARIABLES
    openCount,  \* NetworkProxy.openCount
    currentId,  \* NetworkProxy.currentId, counted from its first increment
    ctx,        \* SuspendManager.context
    session,    \* NetworkService.session
    life,       \* NetworkSession: live until terminate clears its cloudpilot
    queue,      \* NetworkSession.mutex: the operations that hold or await it
    socket,     \* backend: the connection
    up,         \* requests on their way to the server
    down,       \* events of the connection that are not dispatched yet
    redirection, \* Feature::networkRedirection: the patched calls use the proxy
    clipOn,     \* Feature::clipboardIntegration
    clips,      \* clipboard calls made so far
    pending,    \* the calls among them that handleCopy, handlePaste still work on
    interrupted \* history: the machine was reset during a clipboard call

hostVars == <<redirection, clipOn, clips, pending, interrupted>>
vars == <<openCount, currentId, ctx, session, life, queue, socket, up, down,
          redirection, clipOn, clips, pending, interrupted>>

-----------------------------------------------------------------------------
Sessions == 1 .. MaxSessions
NoSession == 0

\* The context of a suspended machine holds the request it has made.
NoCtx == [kind |-> "none"]
ConnectCtx == [kind |-> "connect"]
RpcCtx(id) == [kind |-> "rpc", id |-> id]
ClipCtx(i) == [kind |-> "clipboard", id |-> i]
Context == {NoCtx, ConnectCtx} \cup {RpcCtx(id) : id \in 1 .. MaxRequests}
                               \cup {ClipCtx(i) : i \in 1 .. MaxClips}

Operations == {"connect", "rpc", "disconnect"}
Response(id) == [type |-> "response", id |-> id]
Close == [type |-> "close"]
Events == {Response(id) : id \in 1 .. MaxRequests} \cup {Close}

TypeOK ==
    /\ openCount \in {0, 1}
    /\ currentId \in 0 .. MaxRequests
    /\ ctx \in Context
    /\ session \in Sessions \cup {NoSession}
    /\ life \in [Sessions -> {"unborn", "live", "terminated"}]
    /\ queue \in [Sessions -> Seq(Operations)]
    /\ socket \in [Sessions -> {"none", "open", "lost"}]
    /\ up \in [Sessions -> Seq(1 .. MaxRequests)]
    /\ down \in [Sessions -> Seq(Events)]
    /\ {redirection, clipOn, interrupted} \subseteq BOOLEAN
    /\ clips \in 0 .. MaxClips /\ pending \subseteq 1 .. clips

Init ==
    /\ openCount = 0 /\ currentId = 0 /\ ctx = NoCtx /\ session = NoSession
    /\ life = [s \in Sessions |-> "unborn"]
    /\ queue = [s \in Sessions |-> <<>>]
    /\ socket = [s \in Sessions |-> "none"]
    /\ up = [s \in Sessions |-> <<>>] /\ down = [s \in Sessions |-> <<>>]
    /\ redirection \in BOOLEAN /\ clipOn \in BOOLEAN /\ clips = 0 /\ pending = {} /\ interrupted = FALSE

Enqueue(q, s, op) == [q EXCEPT ![s] = Append(@, op)]

\* Fault: a session that is dropped does not disconnect its backend.
ResetWithoutDisconnect ==
    /\ life' = IF session = NoSession THEN life ELSE [life EXCEPT ![session] = "terminated"]
    /\ queue' = queue
    /\ session' = NoSession

\* NetworkService.reset: the current session, if any, is terminated; its
\* disconnect waits for the operations before it.
Reset ==
    /\ life' = IF session = NoSession THEN life ELSE [life EXCEPT ![session] = "terminated"]
    /\ queue' = IF session = NoSession THEN queue ELSE Enqueue(queue, session, "disconnect")
    /\ session' = NoSession

\* NetworkBackendProxy.disconnect: the listeners are removed and the socket closed.
CloseSocket(s) ==
    /\ socket' = [socket EXCEPT ![s] = "none"]
    /\ up' = [up EXCEPT ![s] = <<>>]
    /\ down' = [down EXCEPT ![s] = <<>>]

-----------------------------------------------------------------------------
(***************************************************************************)
(* The machine. A call that suspends it and handleSuspend are one step:    *)
(* advanceEmulation calls handleSuspend before it returns.                 *)
(***************************************************************************)

\* Fault: the session of an earlier connection is not reset.
LeakingCreateNewSession(s) ==
    /\ life' = [life EXCEPT ![s] = "live"]
    /\ queue' = Enqueue(queue, s, "connect")
    /\ session' = s

\* createNewSession and the start of handleConnect.
CreateNewSession(s) ==
    LET old == IF session = NoSession THEN queue ELSE Enqueue(queue, session, "disconnect")
    IN  /\ life' = [i \in Sessions |-> IF i = s THEN "live"
                                       ELSE IF i = session THEN "terminated" ELSE life[i]]
        /\ queue' = Enqueue(old, s, "connect")
        /\ session' = s

\* Fault: an open library is connected and counted once more.
OpenCounted ==
    /\ ctx = NoCtx /\ redirection
    /\ \E s \in Sessions :
         /\ life[s] = "unborn" /\ (\A i \in Sessions : i < s => life[i] # "unborn")
         /\ CreateNewSession(s)
         /\ ctx' = ConnectCtx
    /\ UNCHANGED <<openCount, currentId, socket, up, down, hostVars>>

\* NetLibOpen of a closed library: the machine waits for the connection. A second
\* open succeeds without a step.
Open ==
    /\ ctx = NoCtx /\ redirection /\ openCount = 0
    /\ \E s \in Sessions :
         /\ life[s] = "unborn" /\ (\A i \in Sessions : i < s => life[i] # "unborn")
         /\ CreateNewSession(s)
         /\ ctx' = ConnectCtx
    /\ UNCHANGED <<openCount, currentId, socket, up, down, hostVars>>

\* NetLibOpen while there is no backend: the context is cancelled at once.
OpenWithoutBackend ==
    /\ ctx = NoCtx /\ redirection /\ openCount = 0
    /\ Reset
    /\ UNCHANGED <<openCount, currentId, ctx, socket, up, down, hostVars>>

\* NetLibClose of an open library. Open does not count a second open, so the first
\* close disconnects.
CloseLibrary ==
    /\ ctx = NoCtx /\ redirection /\ openCount > 0
    /\ openCount' = openCount - 1
    /\ IF openCount' = 0 THEN Reset ELSE UNCHANGED <<life, queue, session>>
    /\ UNCHANGED <<currentId, ctx, socket, up, down, hostVars>>

\* A socket call. It fails at once if the library is not open; without a session
\* handleSuspend cancels the context it has just created.
Rpc ==
    /\ ctx = NoCtx /\ redirection /\ currentId < MaxRequests
    /\ currentId' = currentId + 1
    /\ IF openCount > 0 /\ session # NoSession
       THEN ctx' = RpcCtx(currentId') /\ queue' = Enqueue(queue, session, "rpc")
       ELSE UNCHANGED <<ctx, queue>>
    /\ UNCHANGED <<openCount, session, life, socket, up, down, hostVars>>

\* Fault: a reset of the machine does not disconnect.
SilentResetProxy == openCount' = 0 /\ UNCHANGED <<life, queue, session>>

\* NetworkProxy::Reset: an open library is disconnected, and the network call that the
\* machine waits for is cancelled.
ResetProxy ==
    /\ openCount' = 0
    /\ IF openCount > 0 THEN Reset ELSE UNCHANGED <<life, queue, session>>

CancelCall == IF openCount > 0 /\ ctx.kind \in {"connect", "rpc"} THEN NoCtx ELSE ctx

\* SuspendManager::Reset: whatever the machine waits for is cancelled. ClipboardService
\* is not told: its operation goes on and will resume the context it holds.
ResetContext ==
    /\ ctx' = NoCtx
    /\ interrupted' = (interrupted \/ pending # {})
    /\ UNCHANGED <<redirection, clipOn, clips, pending>>

\* EmSession::Reset. The machine resets the proxy again when its user interface comes
\* up (ctx is empty then).
ResetMachine ==
    /\ ResetProxy
    /\ ResetContext
    /\ UNCHANGED <<currentId, socket, up, down>>

\* restoreSession: the machine is replaced and the service reset in any case.
SwitchSession ==
    /\ openCount' = 0
    /\ ResetContext
    /\ Reset
    /\ UNCHANGED <<currentId, socket, up, down>>

\* Fault: the proxy is not reset when redirection is switched off.
ForgetfulToggleRedirection ==
    /\ redirection' = ~redirection
    /\ Reset
    /\ UNCHANGED <<openCount, currentId, ctx, socket, up, down, clipOn, clips, pending, interrupted>>

\* updateFeatures after network redirection was switched. Cloudpilot::SetNetworkRedirection
\* resets the proxy when it is switched off; the service is reset in any case.
ToggleRedirection ==
    /\ redirection' = ~redirection
    /\ IF redirection THEN openCount' = 0 /\ ctx' = CancelCall ELSE UNCHANGED <<openCount, ctx>>
    /\ Reset
    /\ UNCHANGED <<currentId, socket, up, down, clipOn, clips, pending, interrupted>>

-----------------------------------------------------------------------------
(***************************************************************************)
(* The clipboard. Copy and paste differ in what they pass on only.         *)
(***************************************************************************)

\* HeadpatchClipboardGetItem, TailpatchClipboardAddItem and ...AppendItem suspend the
\* machine; handleSuspend starts the operation of the page.
ClipboardCall ==
    /\ ctx = NoCtx /\ clipOn /\ clips < MaxClips
    /\ clips' = clips + 1
    /\ pending' = pending \cup {clips'}
    /\ ctx' = ClipCtx(clips')
    /\ UNCHANGED <<openCount, currentId, session, life, queue, socket, up, down,
                   redirection, clipOn, interrupted>>

\* handleCopy, handlePaste: the operation has ended, well or badly, and resumes or
\* cancels its context. Both end in SuspendManager::Resume, which deletes the context
\* the machine has by now, whichever it is, and tells nobody else.
ClipboardDone(i) ==
    /\ i \in pending
    /\ pending' = pending \ {i}
    /\ ctx' = NoCtx
    /\ UNCHANGED <<openCount, currentId, session, life, queue, socket, up, down,
                   redirection, clipOn, clips, interrupted>>

\* Fault: switching the integration off cancels a clipboard call of the machine.
CancellingToggleClipboard ==
    /\ clipOn' = ~clipOn
    /\ ctx' = IF clipOn /\ ctx.kind = "clipboard" THEN NoCtx ELSE ctx
    /\ UNCHANGED <<openCount, currentId, session, life, queue, socket, up, down,
                   redirection, clips, pending, interrupted>>

\* SetClipboardIntegration. Its condition asks for a context of two kinds at once, so
\* that nothing is cancelled.
ToggleClipboard ==
    /\ clipOn' = ~clipOn
    /\ UNCHANGED <<openCount, currentId, ctx, session, life, queue, socket, up, down,
                   redirection, clips, pending, interrupted>>

-----------------------------------------------------------------------------
(***************************************************************************)
(* The operations of a session.                                            *)
(***************************************************************************)
Runs(s, op) == queue[s] # <<>> /\ Head(queue[s]) = op
Pop(s) == [queue EXCEPT ![s] = Tail(@)]

\* The session still has its cloudpilot and the machine waits for such a call.
Waits(s, kind) == life[s] = "live" /\ ctx.kind = kind

\* handleConnect succeeded. A session that was terminated, or whose machine has
\* stopped waiting, keeps the connection it got.
Connected(s) ==
    /\ Runs(s, "connect")
    /\ queue' = Pop(s)
    /\ socket' = [socket EXCEPT ![s] = "open"]
    /\ IF Waits(s, "connect") THEN ctx' = NoCtx /\ openCount' = openCount + 1
                              ELSE UNCHANGED <<ctx, openCount>>
    /\ UNCHANGED <<currentId, session, life, up, down, hostVars>>

\* handleConnect failed. The service is reset, whichever session it has by now.
ConnectFails(s) ==
    /\ Runs(s, "connect")
    /\ ctx' = IF Waits(s, "connect") THEN NoCtx ELSE ctx
    /\ life' = IF session = NoSession THEN life ELSE [life EXCEPT ![session] = "terminated"]
    /\ queue' = IF session = NoSession THEN Pop(s) ELSE Enqueue(Pop(s), session, "disconnect")
    /\ session' = NoSession
    /\ UNCHANGED <<openCount, currentId, socket, up, down, hostVars>>

\* handleRpc: the request of the machine is sent. A connection that is lost
\* swallows it.
HandleRpc(s) ==
    /\ Runs(s, "rpc")
    /\ queue' = Pop(s)
    /\ up' = IF Waits(s, "rpc") /\ socket[s] = "open"
             THEN [up EXCEPT ![s] = Append(@, ctx.id)] ELSE up
    /\ ctx' = IF Waits(s, "rpc") /\ socket[s] = "none" THEN NoCtx ELSE ctx
    /\ UNCHANGED <<openCount, currentId, session, life, socket, down, hostVars>>

\* Fault: a request that could not be sent is not cancelled.
HandleRpcIgnoresFailure(s) ==
    /\ Runs(s, "rpc")
    /\ queue' = Pop(s)
    /\ UNCHANGED <<openCount, currentId, ctx, session, life, socket, up, down, hostVars>>

\* handleRpc: the backend did not take the request (the native backend says so).
HandleRpcFails(s) ==
    /\ Runs(s, "rpc")
    /\ queue' = Pop(s)
    /\ ctx' = IF Waits(s, "rpc") THEN NoCtx ELSE ctx
    /\ UNCHANGED <<openCount, currentId, session, life, socket, up, down, hostVars>>

Disconnect(s) ==
    /\ Runs(s, "disconnect")
    /\ queue' = Pop(s)
    /\ CloseSocket(s)
    /\ UNCHANGED <<openCount, currentId, ctx, session, life, hostVars>>

\* onRpcResult: the response resumes the machine. A terminated session has removed
\* its handler, and a machine that does not wait gets nothing.
OnRpcResult(s) ==
    /\ down[s] # <<>> /\ Head(down[s]) # Close
    /\ down' = [down EXCEPT ![s] = Tail(@)]
    /\ ctx' = IF Waits(s, "rpc") THEN NoCtx ELSE ctx
    /\ UNCHANGED <<openCount, currentId, session, life, queue, socket, up, hostVars>>

\* onSocketClose, onSocketError: the backend disconnects without the mutex; the
\* service listens to its current session only.
OnSocketClose(s) ==
    /\ down[s] # <<>> /\ Head(down[s]) = Close
    /\ CloseSocket(s)
    /\ IF s = session THEN Reset ELSE UNCHANGED <<life, queue, session>>
    /\ UNCHANGED <<openCount, currentId, ctx, hostVars>>

-----------------------------------------------------------------------------
(***************************************************************************)
(* The proxy server: it handles the requests of a connection one by one    *)
(* and answers each with the id it came with.                              *)
(***************************************************************************)
Serve(s) ==
    /\ socket[s] = "open" /\ up[s] # <<>>
    /\ up' = [up EXCEPT ![s] = Tail(@)]
    /\ down' = [down EXCEPT ![s] = Append(@, Response(Head(up[s])))]
    /\ UNCHANGED <<openCount, currentId, ctx, session, life, queue, socket, hostVars>>

\* The connection is lost.
Drop(s) ==
    /\ socket[s] = "open"
    /\ socket' = [socket EXCEPT ![s] = "lost"]
    /\ up' = [up EXCEPT ![s] = <<>>]
    /\ down' = [down EXCEPT ![s] = Append(@, Close)]
    /\ UNCHANGED <<openCount, currentId, ctx, session, life, queue, hostVars>>

Next ==
    \/ Open \/ OpenWithoutBackend \/ CloseLibrary \/ Rpc
    \/ ResetMachine \/ SwitchSession \/ ToggleRedirection
    \/ ClipboardCall \/ ToggleClipboard
    \/ \E i \in 1 .. MaxClips : ClipboardDone(i)
    \/ \E s \in Sessions :
         \/ Connected(s) \/ ConnectFails(s) \/ HandleRpc(s) \/ HandleRpcFails(s)
         \/ Disconnect(s) \/ OnRpcResult(s) \/ OnSocketClose(s) \/ Serve(s) \/ Drop(s)

Spec == Init /\ [][Next]_vars

\* Connecting ends: the handshake is aborted and the socket closed after 5 seconds.
\* The mutex is handed on, events are dispatched, and the server answers a request
\* unless the connection is lost. The host's clipboard answers, and the user answers
\* the questions that are asked on the way.
Fairness ==
    /\ \A i \in 1 .. MaxClips : WF_vars(ClipboardDone(i))
    /\ \A s \in Sessions :
        /\ WF_vars(Connected(s) \/ ConnectFails(s))
        /\ WF_vars(HandleRpc(s) \/ HandleRpcFails(s))
        /\ WF_vars(Disconnect(s))
        /\ WF_vars(OnRpcResult(s) \/ OnSocketClose(s))
        /\ WF_vars(Serve(s) \/ (up[s] # <<>> /\ Drop(s)))

FairSpec == Spec /\ Fairness

-----------------------------------------------------------------------------
\* A request or a response under way on the current session belongs to the call the
\* machine waits for: onRpcResult never finds a machine that does not wait, and
\* DecodeResponse never finds a response out of order. The exception is a machine that
\* was reset during a clipboard call: the end of that call wakes whatever call the
\* machine makes next.
NoStrayResponse ==
    ~interrupted /\ session # NoSession =>
        /\ \A k \in 1 .. Len(up[session]) : ctx = RpcCtx(up[session][k])
        /\ \A k \in 1 .. Len(down[session]) :
             down[session][k] # Close => ctx = RpcCtx(down[session][k].id)

\* The service forgets no session that is live and no connection that is open: a
\* session that is not the current one is terminated, and if it has a connection,
\* or is about to get one, its disconnect is still to come.
NoLeak ==
    \A s \in Sessions : s # session =>
        /\ life[s] # "live"
        /\ socket[s] # "none" \/ Runs(s, "connect") =>
             \E k \in 1 .. Len(queue[s]) : queue[s][k] = "disconnect"

Stranded == ctx.kind \in {"connect", "rpc"} /\ session = NoSession

\* The machine is left waiting for a session that is gone in three cases only: the
\* connection is lost, redirection is switched off while the connection is still being
\* made (the proxy does not count it as open and cancels nothing), or an earlier
\* connection attempt fails late. Every other end of a session wakes the machine.
StrandedOnlyBy ==
    [][~Stranded /\ Stranded' =>
         \/ ToggleRedirection /\ redirection /\ ctx = ConnectCtx
         \/ \E s \in Sessions : OnSocketClose(s) \/ (ConnectFails(s) /\ s # session)]_vars

\* A clipboard operation that ends finds the machine waiting for it and for nothing
\* else: the context kept across the await in handleCopy and handlePaste is the current
\* one, whatever is switched in the settings or happens on the network meanwhile,
\* unless the machine was reset or replaced during a clipboard call.
ClipboardWakesItsCall ==
    [][\A i \in pending : i \notin pending' => interrupted \/ ctx = ClipCtx(i)]_vars

\* A machine that waits for the network resumes, or its session is gone; one that waits
\* for the clipboard resumes in any case.
WaitEnds ==
    \A c \in Context \ {NoCtx} :
        ctx = c ~> (ctx # c \/ (c.kind # "clipboard" /\ session = NoSession))

\* The connection of a terminated session is closed for good.
SocketsClose == \A s \in Sessions : life[s] = "terminated" ~> [](socket[s] = "none")
=============================================================================
