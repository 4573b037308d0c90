---------------------------- MODULE ProxySockets ----------------------------
(***************************************************************************)
(* The sockets of one proxy connection. A program in the machine opens,    *)
(* uses and closes sockets by calls of the net library (NetworkProxy.cpp); *)
(* the server (connection.py) keeps a list of sockets and tells them by    *)
(* their index, the handle. A connection handles one request after the     *)
(* other, each in up to three awaited calls of the operating system, and   *)
(* may be lost between any two of them.                                    *)
(*                                                                         *)
(* How requests and responses travel, and what becomes of a machine whose  *)
(* connection is lost, is the subject of Network.                          *)
(***************************************************************************)
EXTENDS Integers, FiniteSets, FiniteSetsExt

CONSTANTS
    MaxHandle,   \* MAX_HANDLE, the length of the list of sockets
    MaxTimeout,  \* MAX_TIMEOUT, in units of time
    Timeouts,    \* the timeouts of the program's calls; a negative one is "for ever"
    ForceBind,   \* whether the server was given a forced bind address
    MaxSockets   \* bound: sockets created on one connection

ASSUME ProxySocketsAssumption ==
    /\ MaxHandle \in Nat \ {0} /\ MaxTimeout \in Nat /\ MaxSockets \in Nat
    /\ Timeouts \subseteq Int /\ ForceBind \in BOOLEAN

VARIABLES
    held,     \* the program: the socket it was given with each handle
    call,     \* the request that the machine waits for
    ws,       \* the connection: "open" or "closed"
    inbox,    \* the request on its way to the server
    outbox,   \* the response on its way to the machine
    handler,  \* the server: the request it handles and how far it is
    sockets,  \* Connection._sockets
    ctx       \* each SocketContext and its socket

vars == <<held, call, ws, inbox, outbox, handler, sockets, ctx>>

-----------------------------------------------------------------------------
Handles == 1 .. MaxHandle - 1
AnyHandle == 0 .. MaxHandle
Socks == 1 .. MaxSockets
None == 0
\* A handle that SocketAcceptSuccess threw away: the program never learns of it.
Lost == -1
Forever == MaxTimeout + 1

NoRequest == [op |-> "none"]
\* Calls that lead to one awaited operation on one socket.
SimpleOps == {"bind", "send", "receive", "listen", "shutdown", "optionSet", "optionGet"}
Ops == SimpleOps \cup {"addr", "connect", "accept", "close", "nonblocking", "blocking"}
Requests ==
    {NoRequest, [op |-> "open"], [op |-> "other"]}
      \cup [op : Ops, handle : AnyHandle, timeout : Timeouts]

NoResponse == [op |-> "none"]
Failed(op) == [op |-> op, ok |-> FALSE]
Done(op) == [op |-> op, ok |-> TRUE]
\* The response to open and accept; s is not on the wire, it says what h stands for.
Created(op, h, s) == [op |-> op, ok |-> TRUE, handle |-> h, sock |-> s]
Responses ==
    {NoResponse} \cup {Failed(op) : op \in Ops \cup {"open", "other"}}
      \cup {Done(op) : op \in Ops \cup {"other"}}
      \cup {Created(op, h, s) : op \in {"open", "accept"}, h \in Handles, s \in Socks}

\* A handler at rest between two requests.
Reading == [stage |-> "read", req |-> NoRequest, handle |-> None, sock |-> None,
            limit |-> Forever, elapsed |-> 0]
Stages == {"read", "open", "first", "await", "accept", "shutdown", "close", "other",
           "closeAll", "done"}

Unused == [state |-> "unused", bound |-> FALSE, nonblocking |-> FALSE, timeout |-> Forever]
Closed == [Unused EXCEPT !.state = "closed"]

TypeOK ==
    /\ held \in [Handles -> Socks \cup {None, Lost}]
    /\ call \in Requests /\ inbox \in Requests
    /\ outbox \in Responses
    /\ ws \in {"open", "closed"}
    /\ handler \in [stage : Stages, req : Requests, handle : Handles \cup {None},
                    sock : Socks \cup {None}, limit : 0 .. Forever,
                    elapsed : 0 .. MaxTimeout + 1]
    /\ sockets \in [Handles -> Socks \cup {None}]
    /\ ctx \in [Socks -> [state : {"unused", "open", "closed"}, bound : BOOLEAN,
                          nonblocking : BOOLEAN, timeout : 0 .. Forever]]

\* A new connection: Connection.__init__.
Init ==
    /\ held = [h \in Handles |-> None]
    /\ call = NoRequest /\ ws = "open"
    /\ inbox = NoRequest /\ outbox = NoResponse
    /\ handler = Reading
    /\ sockets = [h \in Handles |-> None]
    /\ ctx = [s \in Socks |-> Unused]

-----------------------------------------------------------------------------
(* The machine. A call that NetworkProxy rejects before it sends a request *)
(* (a bad address, bad flags, a bad length) changes nothing and is left    *)
(* out; so is all data that is passed on.                                  *)

\* SendAndSuspend.
SendAndSuspend(r) ==
    /\ call = NoRequest /\ ws = "open"
    /\ call' = r /\ inbox' = r

Call(op) ==
    /\ \E h \in AnyHandle, t \in Timeouts :
         SendAndSuspend([op |-> op, handle |-> h, timeout |-> t])
    /\ UNCHANGED <<held, ws, outbox, handler, sockets, ctx>>

\* Calls without a socket: Select, whose sockets are looked up for the one system call
\* only, and the lookups of names and settings.
CallOther ==
    /\ SendAndSuspend([op |-> "other"])
    /\ UNCHANGED <<held, ws, outbox, handler, sockets, ctx>>

SocketOpen ==
    /\ SendAndSuspend([op |-> "open"])
    /\ UNCHANGED <<held, ws, outbox, handler, sockets, ctx>>
SocketBind == Call("bind")
SocketAddr == Call("addr")
SocketSend == Call("send")
SocketReceive == Call("receive")
GetHostByName == CallOther
GetServByName == CallOther
SocketConnect == Call("connect")
Select == CallOther
SettingGet == CallOther
SocketOptionSet == Call("optionSet") \/ Call("nonblocking") \/ Call("blocking")
SocketOptionGet == Call("optionGet")
SocketListen == Call("listen")
SocketAccept == Call("accept")
SocketShutdown == Call("shutdown")

\* The program gives up a handle when it closes it, whatever the result.
SocketClose ==
    /\ \E h \in AnyHandle, t \in Timeouts :
         /\ SendAndSuspend([op |-> "close", handle |-> h, timeout |-> t])
         /\ held' = [k \in Handles |-> IF k = h THEN None ELSE held[k]]
    /\ UNCHANGED <<ws, outbox, handler, sockets, ctx>>

\* A response resumes the machine.
Resume ==
    /\ call # NoRequest /\ outbox # NoResponse
    /\ call' = NoRequest /\ outbox' = NoResponse

SocketOpenSuccess ==
    /\ Resume /\ outbox.op = "open" /\ outbox.ok
    /\ held' = [held EXCEPT ![outbox.handle] = outbox.sock]
    /\ UNCHANGED <<ws, inbox, handler, sockets, ctx>>

\* The size of the caller's address buffer is checked after the server has accepted:
\* if it is too small the call fails and the handle is lost.
SocketAcceptSuccess ==
    /\ Resume /\ outbox.op = "accept" /\ outbox.ok
    /\ \E s \in {outbox.sock, Lost} : held' = [held EXCEPT ![outbox.handle] = s]
    /\ UNCHANGED <<ws, inbox, handler, sockets, ctx>>

\* Success of a call that creates no socket, failure of any call.
CallReturns ==
    /\ Resume /\ ~(outbox.ok /\ outbox.op \in {"open", "accept"})
    /\ UNCHANGED <<held, ws, inbox, handler, sockets, ctx>>

\* The library is closed, the machine is reset or the connection breaks.
Disconnect ==
    /\ ws = "open" /\ ws' = "closed"
    /\ held' = [h \in Handles |-> None]
    /\ call' = NoRequest /\ outbox' = NoResponse
    /\ inbox' \in {inbox, NoRequest}
    /\ UNCHANGED <<handler, sockets, ctx>>

-----------------------------------------------------------------------------
(* SocketContext. *)

\* The timeout of a socket that is asked for what is left of a limit. Forever stands
\* for the None of the code, as a limit and as the timeout of a new socket.
Remaining(s, limit, elapsed) ==
    IF ctx[s].nonblocking THEN 0
    ELSE IF limit = Forever THEN MaxTimeout ELSE Max({0, limit - elapsed})

UpdateTimeout(s, limit, elapsed) ==
    ctx' = [ctx EXCEPT ![s].timeout = Remaining(s, limit, elapsed)]

\* setTimeoutMsec: the limit for a request.
Limit(t) == IF t >= 0 THEN Min({MaxTimeout, t}) ELSE Forever

-----------------------------------------------------------------------------
(* The server. *)

\* _getFreeHandle: the free handles, of which the first is taken.
FreeHandles == {h \in Handles : sockets[h] = None}

\* _getSocketCtx: a handle that is not in use is refused, as is MAX_HANDLE itself,
\* which passes the check of the range and fails as an index.
Valid(h) == h \in Handles /\ sockets[h] # None

Unborn == {s \in Socks : ctx[s].state = "unused"}

Reads(op) ==
    /\ handler.stage = "read" /\ inbox.op = op
    /\ inbox' = NoRequest
    /\ UNCHANGED <<held, call, ws>>

\* The end of _handleMessage. A response that cannot be sent ends the loop of handle.
Respond(a) ==
    IF ws = "open"
    THEN outbox' = a /\ handler' = Reading
    ELSE handler' = [Reading EXCEPT !.stage = "closeAll"] /\ UNCHANGED outbox

\* The first awaited call of a request; h is the handle it reserves.
Await(stage, h, s, limit) ==
    /\ handler' = [stage |-> stage, req |-> inbox, handle |-> h, sock |-> s,
                   limit |-> limit, elapsed |-> 0]
    /\ UNCHANGED outbox

\* A request on a socket, up to its first awaited call.
Begin(op, stage) ==
    /\ Reads(op) /\ Valid(inbox.handle)
    /\ LET s == sockets[inbox.handle] IN
         /\ Await(stage, None, s, Limit(inbox.timeout))
         /\ UpdateTimeout(s, Limit(inbox.timeout), 0)
    /\ UNCHANGED sockets

\* An awaited call has ended.
Continues(stage) == handler.stage = stage /\ UNCHANGED <<held, call, ws, inbox>>

\* Fault: a bad handle is logged and not answered.
IgnoreInvalidHandle ==
    /\ \E op \in Ops : Reads(op) /\ ~Valid(inbox.handle)
    /\ UNCHANGED <<outbox, handler, sockets, ctx>>

\* A request on a handle that is not in use fails.
HandleInvalidHandle ==
    /\ \E op \in Ops : Reads(op) /\ ~Valid(inbox.handle) /\ Respond(Failed(op))
    /\ UNCHANGED <<sockets, ctx>>

\* An unknown type or protocol is refused, as is a program that has too many sockets.
HandleSocketOpen ==
    /\ Reads("open")
    /\ \/ Respond(Failed("open"))
       \/ FreeHandles # {} /\ Await("open", Min(FreeHandles), None, Forever)
    /\ UNCHANGED <<sockets, ctx>>

\* A socket enters the list under the handle that was reserved for it.
Enters(s) ==
    /\ sockets' = [sockets EXCEPT ![handler.handle] = s]
    /\ ctx' = [ctx EXCEPT ![s] = [Unused EXCEPT !.state = "open"]]
    /\ Respond(Created(handler.req.op, handler.handle, s))

SocketOpened ==
    /\ Continues("open")
    /\ Unborn # {} /\ Enters(Min(Unborn))

OpenFails ==
    /\ Continues("open")
    /\ Respond(Failed("open"))
    /\ UNCHANGED <<sockets, ctx>>

HandleSocketBind == Begin("bind", "await")
HandleSocketSend == Begin("send", "await")
HandleSocketReceive == Begin("receive", "await")
HandleSocketListen == Begin("listen", "await")
HandleSocketShutdown == Begin("shutdown", "await")

\* Local and remote address are both optional.
HandleSocketAddr ==
    \/ Begin("addr", "first")
    \/ Begin("addr", "await")
    \/ /\ Reads("addr") /\ Valid(inbox.handle)
       /\ Respond(Done("addr"))
       /\ UpdateTimeout(sockets[inbox.handle], Limit(inbox.timeout), 0)
       /\ UNCHANGED sockets

\* With a forced address a socket is bound before it connects.
HandleSocketConnect ==
    Begin("connect", IF Valid(inbox.handle) /\ ForceBind /\ ~ctx[sockets[inbox.handle]].bound
                     THEN "first" ELSE "await")

\* An option that is not known is refused; setNonblocking runs without a timeout.
HandleSocketOptionSet ==
    \/ Begin("optionSet", "await")
    \/ /\ Reads("optionSet") /\ Valid(inbox.handle) /\ Respond(Failed("optionSet"))
       /\ UNCHANGED <<sockets, ctx>>
    \/ /\ \E op \in {"nonblocking", "blocking"} :
            Reads(op) /\ Valid(inbox.handle)
              /\ Await("await", None, sockets[inbox.handle], Forever)
       /\ UNCHANGED <<sockets, ctx>>

\* The nonblocking flag is known without asking the socket.
HandleSocketOptionGet ==
    \/ Begin("optionGet", "await")
    \/ /\ Reads("optionGet") /\ Valid(inbox.handle)
       /\ \E a \in {Done("optionGet"), Failed("optionGet")} : Respond(a)
       /\ UNCHANGED <<sockets, ctx>>

\* The first of two awaited calls ends: bind for connect, getsockname for addr. It is
\* not subject to the timeout of the socket; the second call gets what is left.
FirstEnds ==
    /\ Continues("first")
    /\ \/ Respond(Failed(handler.req.op)) /\ UNCHANGED ctx
       \/ \E e \in 0 .. MaxTimeout + 1 :
            /\ ctx' = [ctx EXCEPT
                  ![handler.sock].bound = @ \/ handler.req.op = "connect",
                  ![handler.sock].timeout = Remaining(handler.sock, handler.limit, e)]
            /\ \/ handler' = [handler EXCEPT !.stage = "await", !.elapsed = e]
                   /\ UNCHANGED outbox
               \/ handler.req.op = "addr" /\ Respond(Done("addr"))
    /\ UNCHANGED sockets

\* What a successful call changes in the SocketContext. Going back to blocking applies
\* the limit of an earlier request, of which some or nothing is left.
Effect(op, s) ==
    CASE op = "bind" -> ctx' = [ctx EXCEPT ![s].bound = TRUE]
      [] op = "nonblocking" ->
           ctx' = [ctx EXCEPT ![s].nonblocking = TRUE, ![s].timeout = 0]
      [] op = "blocking" ->
           \E t \in 0 .. MaxTimeout :
             ctx' = [ctx EXCEPT ![s].nonblocking = FALSE, ![s].timeout = t]
      [] OTHER -> UNCHANGED ctx

AwaitEnds ==
    /\ Continues("await")
    /\ \/ Respond(Failed(handler.req.op)) /\ UNCHANGED ctx
       \/ Respond(Done(handler.req.op)) /\ Effect(handler.req.op, handler.sock)
    /\ UNCHANGED sockets

\* Fault: the timeout of the listening socket is not set.
HandleSocketAcceptUntimed ==
    /\ Reads("accept") /\ Valid(inbox.handle)
    /\ IF FreeHandles = {} THEN Respond(Failed("accept"))
       ELSE Await("accept", Min(FreeHandles), sockets[inbox.handle], Limit(inbox.timeout))
    /\ UNCHANGED <<sockets, ctx>>

\* A handle is reserved for the connection before it is awaited.
HandleSocketAccept ==
    /\ Reads("accept") /\ Valid(inbox.handle)
    /\ LET s == sockets[inbox.handle] IN
         IF FreeHandles = {} THEN Respond(Failed("accept")) /\ UNCHANGED ctx
         ELSE /\ Await("accept", Min(FreeHandles), s, Limit(inbox.timeout))
              /\ UpdateTimeout(s, Limit(inbox.timeout), 0)
    /\ UNCHANGED sockets

SocketAccepted ==
    /\ Continues("accept")
    /\ Unborn # {} /\ Enters(Min(Unborn))

AcceptFails ==
    /\ Continues("accept")
    /\ Respond(Failed("accept"))
    /\ UNCHANGED <<sockets, ctx>>

\* Fault: the handle is freed only after the socket was closed without an error.
HandleSocketCloseKeepsHandle == Begin("close", "shutdown")

\* The handle is free as soon as a request to close it is read.
HandleSocketClose ==
    /\ Reads("close") /\ Valid(inbox.handle)
    /\ LET s == sockets[inbox.handle] IN
         /\ Await("shutdown", None, s, Limit(inbox.timeout))
         /\ UpdateTimeout(s, Limit(inbox.timeout), 0)
    /\ sockets' = [sockets EXCEPT ![inbox.handle] = None]

\* Errors of the shutdown are ignored.
SocketShutDown ==
    /\ Continues("shutdown")
    /\ handler' = [handler EXCEPT !.stage = "close"]
    /\ UpdateTimeout(handler.sock, handler.limit, handler.elapsed)
    /\ UNCHANGED <<outbox, sockets>>

\* The socket is closed even if the system reports an error.
SocketClosed ==
    /\ Continues("close")
    /\ ctx' = [ctx EXCEPT ![handler.sock] = Closed]
    /\ \E a \in {Done("close"), Failed("close")} : Respond(a)
    /\ UNCHANGED sockets

HandleOther ==
    /\ Reads("other")
    /\ Await("other", None, None, Forever)
    /\ UNCHANGED <<sockets, ctx>>

OtherEnds ==
    /\ Continues("other")
    /\ \E a \in {Done("other"), Failed("other")} : Respond(a)
    /\ UNCHANGED <<sockets, ctx>>

-----------------------------------------------------------------------------
(* The end of a connection. *)

\* The loop over the messages of a closed connection ends.
MessagesEnd ==
    /\ Continues("read") /\ ws = "closed" /\ inbox = NoRequest
    /\ handler' = [Reading EXCEPT !.stage = "closeAll"]
    /\ UNCHANGED <<outbox, sockets, ctx>>

\* The sockets that are still in the list are closed by tasks of their own.
CloseCtx(h) ==
    /\ Continues("closeAll")
    /\ sockets[h] # None /\ ctx[sockets[h]].state = "open"
    /\ ctx' = [ctx EXCEPT ![sockets[h]] = Closed]
    /\ UNCHANGED <<outbox, handler, sockets>>

\* Fault: the end of one task is taken for the end of all.
CloseAllEndsEarly ==
    /\ Continues("closeAll")
    /\ \E h \in Handles : sockets[h] # None => ctx[sockets[h]].state = "closed"
    /\ handler' = [handler EXCEPT !.stage = "done"]
    /\ UNCHANGED <<outbox, sockets, ctx>>

\* Fault: the loop over the messages is entered again.
CloseAllGoesOn ==
    /\ Continues("closeAll")
    /\ \A h \in Handles : sockets[h] # None => ctx[sockets[h]].state = "closed"
    /\ handler' = Reading
    /\ UNCHANGED <<outbox, sockets, ctx>>

\* All tasks have ended.
CloseAllEnds ==
    /\ Continues("closeAll")
    /\ \A h \in Handles : sockets[h] # None => ctx[sockets[h]].state = "closed"
    /\ handler' = [handler EXCEPT !.stage = "done"]
    /\ UNCHANGED <<outbox, sockets, ctx>>

\* The library is opened again. Connections share nothing on the server, so that one
\* at a time is enough.
Connect ==
    /\ handler.stage = "done"
    /\ ws' = "open" /\ inbox' = NoRequest
    /\ handler' = Reading
    /\ sockets' = [h \in Handles |-> None]
    /\ ctx' = [s \in Socks |-> Unused]
    /\ UNCHANGED <<held, call, outbox>>

Program ==
    \/ SocketOpen \/ SocketBind \/ SocketAddr \/ SocketSend \/ SocketReceive
    \/ SocketConnect \/ SocketOptionSet \/ SocketOptionGet \/ SocketListen
    \/ SocketAccept \/ SocketShutdown \/ SocketClose
    \/ GetHostByName \/ GetServByName \/ Select \/ SettingGet

Returns == SocketOpenSuccess \/ SocketAcceptSuccess \/ CallReturns

Handle ==
    \/ HandleInvalidHandle \/ HandleSocketOpen \/ HandleSocketBind \/ HandleSocketAddr
    \/ HandleSocketSend \/ HandleSocketReceive \/ HandleSocketClose
    \/ HandleSocketConnect \/ HandleSocketOptionSet \/ HandleSocketOptionGet
    \/ HandleSocketListen \/ HandleSocketAccept \/ HandleSocketShutdown \/ HandleOther
    \/ SocketOpened \/ OpenFails \/ FirstEnds \/ AwaitEnds \/ SocketAccepted \/ AcceptFails
    \/ SocketShutDown \/ SocketClosed \/ OtherEnds
    \/ MessagesEnd \/ (\E h \in Handles : CloseCtx(h)) \/ CloseAllEnds

Next == Program \/ Returns \/ Handle \/ Disconnect \/ Connect

Spec == Init /\ [][Next]_vars

\* Every awaited call ends: those that may block have a timeout. A connection that is
\* up delivers responses. Nobody has to call, to disconnect or to connect.
FairSpec == Spec /\ WF_vars(Handle) /\ WF_vars(Returns)

-----------------------------------------------------------------------------
\* Program and server agree on the handles between two calls: a handle is in use on the
\* server if and only if the program holds it (or SocketAcceptSuccess threw it away),
\* and it still stands for the socket it was given out for.
HandlesAgree ==
    /\ ws = "open" /\ call = NoRequest =>
         \A h \in Handles : held[h] = None <=> sockets[h] = None
    /\ \A h \in Handles : held[h] \notin {None, Lost} => sockets[h] = held[h]

\* The server loses no socket: one that is open is in the list under one handle, or the
\* request to close it is being handled; none outlives its connection.
NoSocketLeak ==
    /\ \A s \in Socks : ctx[s].state = "open" =>
         \/ Cardinality({h \in Handles : sockets[h] = s}) = 1
         \/ handler.stage \in {"shutdown", "close"} /\ handler.sock = s
    /\ handler.stage = "done" => \A s \in Socks : ctx[s].state # "open"

\* A call on a socket blocks within limits: not at all if the program has made the
\* socket nonblocking, never longer than MAX_TIMEOUT, and not beyond the timeout of the
\* request even if an earlier call of the same request has used it up.
BlocksWithinLimits ==
    handler.stage \in {"await", "accept", "shutdown", "close"}
        /\ handler.req.op \notin {"nonblocking", "blocking"} =>
      LET c == ctx[handler.sock] IN
        /\ c.timeout \in 0 .. MaxTimeout
        /\ c.nonblocking => c.timeout = 0
        /\ handler.limit # Forever =>
             handler.elapsed + c.timeout <= Max({handler.elapsed, handler.limit})

\* Every call returns, or the connection is lost.
CallsReturn == call # NoRequest ~> call = NoRequest

\* The server ends a connection that is lost, and with it all its sockets.
ConnectionEnds == ws = "closed" ~> handler.stage = "done"
=============================================================================
