-------------------------- MODULE ProxySocketsProof --------------------------
(***************************************************************************)
(* Theorems about ProxySockets, for lists and timeouts of any length, any  *)
(* number of sockets and with or without a forced bind address.            *)
(***************************************************************************)
EXTENDS ProxySockets, FiniteSetTheorems, TLAPS

-----------------------------------------------------------------------------
(***************************************************************************)
(* The inductive invariant.                                                *)
(***************************************************************************)

\* The operations a request may have at each stage of its handler.
OpsAt(stage) ==
    CASE stage = "open" -> {"open"}
      [] stage = "accept" -> {"accept"}
      [] stage = "first" -> {"addr", "connect"}
      [] stage = "await" -> SimpleOps \cup {"addr", "connect", "nonblocking", "blocking"}
      [] stage \in {"shutdown", "close"} -> {"close"}
      [] stage = "other" -> {"other"}
      [] OTHER -> {"none"}

Busy == {"open", "first", "await", "accept", "shutdown", "close", "other"}

\* The response that tells the program of a new socket.
IsCreated(a) == \E op \in {"open", "accept"}, h \in Handles, s \in Socks : a = Created(op, h, s)

\* The one call of the machine is in one place: in the inbox, with the handler or, answered,
\* in the outbox. A machine without a connection waits for nothing and holds nothing.
Token ==
    /\ handler.req.op \in OpsAt(handler.stage)
    /\ outbox.op \in {"open", "accept"} /\ outbox.ok => IsCreated(outbox)
    /\ inbox # NoRequest \/ outbox # NoResponse => handler.stage = "read" \/ ws = "closed"
    /\ ws = "open" =>
         /\ handler.stage \in Busy \cup {"read"}
         /\ inbox = NoRequest \/ outbox = NoResponse
         /\ inbox # NoRequest \/ outbox # NoResponse \/ handler.stage \in Busy => call # NoRequest
    /\ ws = "closed" =>
         /\ call = NoRequest /\ outbox = NoResponse
         /\ \A h \in Handles : held[h] = None

\* A handle on which program and server may disagree for now.
Closing(h) == inbox.op = "close" /\ inbox.handle = h
Opening(h) == outbox.op \in {"open", "accept"} /\ outbox.ok /\ outbox.handle = h

\* What program and server know of a handle.
HandleOK(h) ==
    /\ held[h] \notin {None, Lost} => sockets[h] = held[h]
    /\ Closing(h) => held[h] = None
    /\ Opening(h) => held[h] = None /\ sockets[h] = outbox.sock
    /\ ~Closing(h) /\ ~Opening(h) => (held[h] = None <=> sockets[h] = None)

Agreement == ws = "open" => \A h \in Handles : HandleOK(h)

\* The list of sockets and the sockets there are.
Sockets ==
    /\ \A h \in Handles : sockets[h] # None =>
         \/ ctx[sockets[h]].state = "open"
         \/ ctx[sockets[h]].state = "closed" /\ handler.stage \in {"closeAll", "done"}
    /\ \A h, k \in Handles : sockets[h] # None /\ sockets[h] = sockets[k] => h = k
    /\ \A s \in Socks : ctx[s].state = "open" =>
         \/ \E h \in Handles : sockets[h] = s
         \/ handler.stage \in {"shutdown", "close"} /\ handler.sock = s
    /\ handler.stage \in {"shutdown", "close"} => \A h \in Handles : sockets[h] # handler.sock
    /\ handler.stage \in {"open", "accept"} =>
         handler.handle \in Handles /\ sockets[handler.handle] = None
    /\ handler.stage \in {"first", "await", "accept", "shutdown", "close"} => handler.sock \in Socks
    /\ handler.stage = "done" => \A s \in Socks : ctx[s].state # "open"

IInv == TypeOK /\ Token /\ Agreement /\ Sockets /\ BlocksWithinLimits

-----------------------------------------------------------------------------
(***************************************************************************)
(* The operators the actions are built from.                               *)
(***************************************************************************)

\* Every set of numbers that is not empty has a minimum: _getFreeHandle finds a handle.
LEMMA MinIn ==
    ASSUME NEW S, S \subseteq Nat, S # {}
    PROVE  Min(S) \in S
<1> DEFINE R == OpToRel(<, Nat)
<1>1. PICK x \in S : \A y \in S : ~(<<y, x>> \in R)
  <2>1. IsWellFoundedOn(R, Nat)
    BY NatLessThanWellFounded
  <2> HIDE DEF R
  <2> QED
    BY <2>1, WFMin
<1>2. ASSUME NEW y \in S PROVE x =< y
  <2>1. x \in Nat /\ y \in Nat
    OBVIOUS
  <2>2. ~(y < x)
    BY <1>1, <1>2, <2>1 DEF OpToRel
  <2> QED
    BY <2>1, <2>2
<1> QED
  BY <1>2 DEF Min

\* The larger, and the smaller, of two numbers.
LEMMA MaxOfTwo ==
    ASSUME NEW a \in Int, NEW b \in Int
    PROVE  Max({a, b}) = IF a >= b THEN a ELSE b
BY DEF Max

LEMMA MinOfTwo ==
    ASSUME NEW a \in Int, NEW b \in Int
    PROVE  Min({a, b}) = IF a =< b THEN a ELSE b
BY DEF Min

\* setTimeoutMsec caps the limit of a request.
LEMMA LimitType ==
    ASSUME NEW t \in Timeouts
    PROVE  Limit(t) \in 0 .. Forever
BY MinOfTwo, ProxySocketsAssumption DEF Limit, Forever

\* updateTimeout: what is left of a limit is within it.
LEMMA RemainingBounds ==
    ASSUME TypeOK, NEW s \in Socks, NEW limit \in 0 .. Forever, NEW elapsed \in 0 .. MaxTimeout + 1
    PROVE  /\ Remaining(s, limit, elapsed) \in 0 .. MaxTimeout
           /\ ctx[s].nonblocking => Remaining(s, limit, elapsed) = 0
           /\ limit # Forever =>
                elapsed + Remaining(s, limit, elapsed) <= Max({elapsed, limit})
<1>1. MaxTimeout \in Nat /\ Forever = MaxTimeout + 1 /\ limit \in Int /\ elapsed \in Int
  BY ProxySocketsAssumption DEF Forever
<1>2. /\ Max({0, limit - elapsed}) = IF 0 >= limit - elapsed THEN 0 ELSE limit - elapsed
      /\ Max({elapsed, limit}) = IF elapsed >= limit THEN elapsed ELSE limit
  BY <1>1, MaxOfTwo
<1>3. CASE ctx[s].nonblocking
  BY <1>1, <1>2, <1>3 DEF Remaining
<1>4. CASE ~ctx[s].nonblocking /\ limit = Forever
  BY <1>1, <1>4 DEF Remaining
<1>5. CASE ~ctx[s].nonblocking /\ limit # Forever
  BY <1>1, <1>2, <1>5 DEF Remaining
<1> QED
  BY <1>3, <1>4, <1>5

Contexts == [state : {"unused", "open", "closed"}, bound : BOOLEAN, nonblocking : BOOLEAN,
             timeout : 0 .. Forever]

\* The requests by their operation, and what is no request.
LEMMA RequestShape ==
    ASSUME NEW r \in Requests
    PROVE  /\ r.op \in Ops \cup {"none", "open", "other"}
           /\ r.op \in Ops => r.handle \in AnyHandle /\ r.timeout \in Timeouts
           /\ r # NoRequest <=> r.op # "none"
           /\ NoRequest.op = "none" /\ NoRequest \in Requests
BY DEF Requests, NoRequest, Ops, SimpleOps

\* The responses by their operation, and what is no response.
LEMMA ResponseShape ==
    /\ NoResponse.op = "none" /\ NoResponse \in Responses
    /\ \A op \in Ops \cup {"open", "other"} :
         Failed(op) \in Responses /\ Failed(op).op = op /\ ~Failed(op).ok
    /\ \A op \in Ops \cup {"other"} :
         Done(op) \in Responses /\ Done(op).op = op /\ Done(op).ok
    /\ \A op \in {"open", "accept"}, h \in Handles, s \in Socks :
         /\ Created(op, h, s) \in Responses /\ Created(op, h, s).op = op /\ Created(op, h, s).ok
         /\ Created(op, h, s).handle = h /\ Created(op, h, s).sock = s
<1>1. NoResponse.op = "none" /\ NoResponse \in Responses
  BY DEF NoResponse, Responses
<1>2. ASSUME NEW op \in Ops \cup {"open", "other"}
      PROVE  Failed(op) \in Responses /\ Failed(op).op = op /\ ~Failed(op).ok
  <2>1. Failed(op) \in Responses
    <3>1. Failed(op) \in {Failed(o) : o \in Ops \cup {"open", "other"}}
      OBVIOUS
    <3> QED
      BY <3>1 DEF Responses
  <2> QED
    BY <2>1 DEF Failed
<1>3. ASSUME NEW op \in Ops \cup {"other"}
      PROVE  Done(op) \in Responses /\ Done(op).op = op /\ Done(op).ok
  <2>1. Done(op) \in Responses
    <3>1. Done(op) \in {Done(o) : o \in Ops \cup {"other"}}
      OBVIOUS
    <3> QED
      BY <3>1 DEF Responses
  <2> QED
    BY <2>1 DEF Done
<1>4. ASSUME NEW op \in {"open", "accept"}, NEW h \in Handles, NEW s \in Socks
      PROVE  /\ Created(op, h, s) \in Responses /\ Created(op, h, s).op = op
             /\ Created(op, h, s).ok
             /\ Created(op, h, s).handle = h /\ Created(op, h, s).sock = s
  <2>1. Created(op, h, s) \in Responses
    <3>1. Created(op, h, s) \in {Created(o, k, c) : o \in {"open", "accept"}, k \in Handles, c \in Socks}
      OBVIOUS
    <3> QED
      BY <3>1 DEF Responses
  <2> QED
    BY <2>1 DEF Created
<1> QED
  BY <1>1, <1>2, <1>3, <1>4

\* A handler at rest.
LEMMA ReadingShape ==
    /\ Reading \in [stage : Stages, req : Requests, handle : Handles \cup {None},
                    sock : Socks \cup {None}, limit : 0 .. Forever, elapsed : 0 .. MaxTimeout + 1]
    /\ [Reading EXCEPT !.stage = "closeAll"] \in
         [stage : Stages, req : Requests, handle : Handles \cup {None},
          sock : Socks \cup {None}, limit : 0 .. Forever, elapsed : 0 .. MaxTimeout + 1]
    /\ Reading.stage = "read" /\ Reading.req.op = "none"
    /\ [Reading EXCEPT !.stage = "closeAll"].stage = "closeAll"
    /\ [Reading EXCEPT !.stage = "closeAll"].req.op = "none"
BY ProxySocketsAssumption DEF Reading, Stages, Requests, NoRequest, Forever, None

\* The end of _handleMessage: a response on an open connection, the end of the loop on one
\* that is closed.
LEMMA RespondShape ==
    ASSUME TypeOK, NEW a \in Responses, Respond(a)
    PROVE  /\ handler' \in [stage : Stages, req : Requests, handle : Handles \cup {None},
                            sock : Socks \cup {None}, limit : 0 .. Forever,
                            elapsed : 0 .. MaxTimeout + 1]
           /\ outbox' \in Responses
           /\ handler'.req.op = "none"
           /\ ws = "open" => handler'.stage = "read" /\ outbox' = a
           /\ ws # "open" => handler'.stage = "closeAll" /\ outbox' = outbox
BY ReadingShape DEF Respond, TypeOK

\* None is no socket, Lost neither, and the two differ.
LEMMA NoneIsNoSocket ==
    None \notin Socks /\ Lost \notin Socks /\ None # Lost /\ Handles \subseteq AnyHandle
BY ProxySocketsAssumption DEF None, Lost, Socks, Handles, AnyHandle

\* A request is answered without a new socket and without closing one.
LEMMA AnswerStep ==
    ASSUME IInv, NEW a \in Responses, Respond(a), a # NoResponse,
           ~(a.op \in {"open", "accept"} /\ a.ok),
           handler.stage \in {"read", "open", "first", "await", "accept", "other"},
           handler.stage # "read" \/ inbox # NoRequest,
           handler.stage = "read" => inbox' = NoRequest,
           inbox' \in {inbox, NoRequest},
           handler.stage = "read" /\ inbox.op = "close" => ~Valid(inbox.handle),
           UNCHANGED <<held, call, ws, sockets>>,
           ctx' \in [Socks -> Contexts],
           \A s \in Socks : ctx'[s].state = ctx[s].state
    PROVE  IInv'
<1> USE DEF IInv
<1>1. /\ handler' \in [stage : Stages, req : Requests, handle : Handles \cup {None},
                       sock : Socks \cup {None}, limit : 0 .. Forever,
                       elapsed : 0 .. MaxTimeout + 1]
      /\ outbox' \in Responses
      /\ handler'.req.op = "none"
      /\ ws = "open" => handler'.stage = "read" /\ outbox' = a
      /\ ws # "open" => handler'.stage = "closeAll" /\ outbox' = outbox
  BY RespondShape
<1>2. TypeOK'
  BY <1>1, RequestShape DEF TypeOK, Contexts
<1>3. ws = "open" => inbox' = NoRequest /\ outbox = NoResponse /\ call # NoRequest
  BY DEF Token, Busy
<1>4. Token'
  <2>1. (handler.req.op \in OpsAt(handler.stage))'
    BY <1>1, RequestShape DEF OpsAt, TypeOK
  <2>2. CASE ws = "open"
    BY <1>1, <1>3, <2>1, <2>2 DEF Token, Busy
  <2>3. CASE ws # "open"
    BY <1>1, <2>1, <2>3, ResponseShape DEF Token, TypeOK
  <2> QED
    BY <2>2, <2>3
<1>5. Agreement'
  <2> SUFFICES ASSUME ws = "open", NEW h \in Handles PROVE HandleOK(h)'
    BY DEF Agreement
  <2>1. HandleOK(h) /\ ~Opening(h) /\ ~Closing(h)' /\ ~Opening(h)'
    BY <1>1, <1>3, RequestShape, ResponseShape DEF Agreement, Closing, Opening, TypeOK
  <2>2. Closing(h) => held[h] = None /\ sockets[h] = None
    <3>1. Closing(h) => handler.stage = "read"
      BY RequestShape DEF Closing, Token, TypeOK
    <3> QED
      BY <2>1, <3>1 DEF HandleOK, Closing, Valid
  <2> QED
    BY <2>1, <2>2 DEF HandleOK
<1>6. Sockets'
  BY <1>1 DEF Sockets, TypeOK
<1>7. BlocksWithinLimits'
  BY <1>1 DEF BlocksWithinLimits, TypeOK
<1> QED
  BY <1>2, <1>4, <1>5, <1>6, <1>7

\* The timeout of a socket is set, and nothing else about it.
LEMMA UpdateTimeoutShape ==
    ASSUME TypeOK, NEW s \in Socks, NEW limit \in 0 .. Forever,
           NEW elapsed \in 0 .. MaxTimeout + 1, UpdateTimeout(s, limit, elapsed)
    PROVE  /\ ctx' \in [Socks -> Contexts]
           /\ \A k \in Socks : ctx'[k].state = ctx[k].state
           /\ ctx'[s].timeout \in 0 .. MaxTimeout
           /\ ctx'[s].nonblocking => ctx'[s].timeout = 0
           /\ limit # Forever => elapsed + ctx'[s].timeout <= Max({elapsed, limit})
<1>1. /\ Remaining(s, limit, elapsed) \in 0 .. MaxTimeout
      /\ ctx[s].nonblocking => Remaining(s, limit, elapsed) = 0
      /\ limit # Forever => elapsed + Remaining(s, limit, elapsed) <= Max({elapsed, limit})
  BY RemainingBounds
<1>2. ctx' = [ctx EXCEPT ![s].timeout = Remaining(s, limit, elapsed)]
  BY DEF UpdateTimeout
<1>3. Remaining(s, limit, elapsed) \in 0 .. Forever
  BY <1>1, ProxySocketsAssumption DEF Forever
<1>4. ctx \in [Socks -> Contexts]
  BY DEF TypeOK, Contexts
<1> HIDE DEF Remaining
<1>5. ctx' \in [Socks -> Contexts]
  BY <1>2, <1>3, <1>4 DEF Contexts
<1>6. /\ ctx'[s].timeout = Remaining(s, limit, elapsed)
      /\ ctx'[s].nonblocking = ctx[s].nonblocking
      /\ \A k \in Socks : ctx'[k].state = ctx[k].state
  BY <1>2, <1>4 DEF Contexts
<1> QED
  BY <1>1, <1>5, <1>6

\* A call on a socket is awaited within limits.
Limited(c, limit) ==
    /\ c.timeout \in 0 .. MaxTimeout
    /\ c.nonblocking => c.timeout = 0
    /\ limit # Forever => 0 + c.timeout <= Max({0, limit})

\* The handler takes a request from the inbox and awaits its first call. A request to
\* close takes the socket off the list, any other leaves the list alone.
LEMMA AwaitStep ==
    ASSUME IInv, NEW stage \in Busy, NEW h \in Handles \cup {None}, NEW s \in Socks \cup {None},
           NEW limit \in 0 .. Forever,
           handler.stage = "read", inbox # NoRequest, inbox' = NoRequest,
           Await(stage, h, s, limit), inbox.op \in OpsAt(stage),
           UNCHANGED <<held, call, ws>>,
           ctx' \in [Socks -> Contexts],
           \A k \in Socks : ctx'[k].state = ctx[k].state,
           stage \in {"open", "accept"} => h \in Handles /\ sockets[h] = None,
           stage \notin {"open", "other"} => s \in Socks,
           stage \notin {"open", "other", "first"} /\ inbox.op \notin {"nonblocking", "blocking"} =>
             Limited(ctx'[s], limit),
           \/ inbox.op # "close" /\ sockets' = sockets
           \/ /\ inbox.op = "close" /\ Valid(inbox.handle) /\ s = sockets[inbox.handle]
              /\ sockets' = [sockets EXCEPT ![inbox.handle] = None]
    PROVE  IInv'
<1> USE DEF IInv
<1>1. /\ handler' = [stage |-> stage, req |-> inbox, handle |-> h, sock |-> s,
                     limit |-> limit, elapsed |-> 0]
      /\ outbox' = outbox
  BY DEF Await
<1>2. /\ handler'.stage = stage /\ handler'.req = inbox /\ handler'.handle = h
      /\ handler'.sock = s /\ handler'.limit = limit /\ handler'.elapsed = 0
  BY <1>1
<1>3. ASSUME inbox.op = "close"
      PROVE  /\ stage \in {"shutdown", "close"} /\ inbox.handle \in Handles
             /\ sockets[inbox.handle] # None /\ s = sockets[inbox.handle]
             /\ sockets' = [sockets EXCEPT ![inbox.handle] = None]
  BY <1>3 DEF OpsAt, SimpleOps, Valid, Busy
<1>4. inbox.op # "close" => sockets' = sockets /\ stage \notin {"shutdown", "close"}
  BY DEF OpsAt
<1>5. sockets' \in [Handles -> Socks \cup {None}]
  BY <1>3, <1>4 DEF TypeOK
<1>6. TypeOK'
  <2>1. handler' \in [stage : Stages, req : Requests, handle : Handles \cup {None},
                      sock : Socks \cup {None}, limit : 0 .. Forever,
                      elapsed : 0 .. MaxTimeout + 1]
    BY <1>1, ProxySocketsAssumption DEF Busy, Stages, TypeOK
  <2> QED
    BY <1>1, <1>5, <2>1, RequestShape DEF TypeOK, Contexts
<1>7. Token'
  <2>1. (handler.req.op \in OpsAt(handler.stage))'
    BY <1>2 DEF OpsAt
  <2>2. ws = "open" => call # NoRequest /\ outbox = NoResponse
    BY DEF Token
  <2>3. stage # "read"
    BY DEF Busy
  <2> QED
    BY <1>1, <1>2, <2>1, <2>2, <2>3 DEF Token, TypeOK
<1>8. Agreement'
  <2> SUFFICES ASSUME ws = "open", NEW k \in Handles PROVE HandleOK(k)'
    BY DEF Agreement
  <2>1. HandleOK(k) /\ outbox = NoResponse
    BY DEF Agreement, Token
  <2>2. ~Opening(k) /\ ~Opening(k)' /\ ~Closing(k)'
    BY <1>1, <2>1, RequestShape, ResponseShape DEF Opening, Closing, TypeOK
  <2>3. CASE Closing(k)
    BY <1>3, <2>1, <2>2, <2>3, NoneIsNoSocket DEF HandleOK, Closing, TypeOK
  <2>4. CASE ~Closing(k)
    BY <1>3, <1>4, <2>1, <2>2, <2>4 DEF HandleOK, Closing, TypeOK
  <2> QED
    BY <2>3, <2>4
<1>9. Sockets'
  <2>1. CASE inbox.op # "close"
    BY <1>2, <1>4, <2>1 DEF Sockets, TypeOK, Busy
  <2>2. CASE inbox.op = "close"
    <3>1. /\ s \in Socks /\ sockets'[inbox.handle] = None
          /\ \A k \in Handles : k # inbox.handle => sockets'[k] = sockets[k] /\ sockets[k] # s
      BY <1>3, <2>2 DEF Sockets, TypeOK
    <3>2. handler'.stage \in {"shutdown", "close"} /\ handler'.sock = s
      BY <1>2, <1>3, <2>2
    <3>3. \A k \in Handles : sockets'[k] \in {None, sockets[k]} /\ sockets'[k] # s
      BY <3>1, NoneIsNoSocket
    <3>4. \A k \in Socks : ctx'[k].state = "open" =>
            (\E g \in Handles : sockets'[g] = k) \/ k = s
      BY <1>3, <2>2, <3>1 DEF Sockets
    <3> QED
      BY <3>1, <3>2, <3>3, <3>4 DEF Sockets, TypeOK
  <2> QED
    BY <2>1, <2>2
<1>10. BlocksWithinLimits'
  <2> SUFFICES ASSUME stage \in {"await", "accept", "shutdown", "close"},
                      inbox.op \notin {"nonblocking", "blocking"}
               PROVE  Limited(ctx'[s], limit)
    BY <1>2 DEF BlocksWithinLimits, Limited
  <2> QED
    OBVIOUS
<1> QED
  BY <1>6, <1>7, <1>8, <1>9, <1>10

\* A request on a socket reaches its first awaited call.
LEMMA BeginStep ==
    ASSUME IInv, NEW op, NEW stage, Begin(op, stage), stage \in {"first", "await"},
           op \in OpsAt(stage)
    PROVE  IInv'
<1> USE DEF IInv
<1> DEFINE s == sockets[inbox.handle]
           limit == Limit(inbox.timeout)
<1>1. /\ handler.stage = "read" /\ inbox.op = op /\ inbox' = NoRequest
      /\ UNCHANGED <<held, call, ws, sockets>> /\ Valid(inbox.handle)
      /\ Await(stage, None, s, limit) /\ UpdateTimeout(s, limit, 0)
  BY DEF Begin, Reads
<1>2. op \in Ops /\ op # "close" /\ op # "none"
  BY DEF OpsAt, Ops, SimpleOps
<1>3. s \in Socks /\ limit \in 0 .. Forever /\ inbox # NoRequest
  BY <1>1, <1>2, LimitType, RequestShape DEF Valid, TypeOK
<1> HIDE DEF s, limit
<1>4. 0 \in 0 .. MaxTimeout + 1
  BY ProxySocketsAssumption
<1>5. /\ ctx' \in [Socks -> Contexts]
      /\ \A k \in Socks : ctx'[k].state = ctx[k].state
      /\ Limited(ctx'[s], limit)
  BY <1>1, <1>3, <1>4, UpdateTimeoutShape DEF Limited
<1>6. stage \in Busy /\ stage \notin {"open", "accept"} /\ inbox.op \in OpsAt(stage)
  BY <1>1 DEF Busy
<1> QED
  BY <1>1, <1>2, <1>3, <1>5, <1>6, AwaitStep

\* A request is answered at once.
LEMMA RefuseStep ==
    ASSUME IInv, NEW op, Reads(op), op \in Ops \cup {"open"}, op = "close" => ~Valid(inbox.handle),
           NEW a \in {Failed(op), Done(op)}, Respond(a), a = Done(op) => op \in Ops \ {"accept"},
           UNCHANGED sockets,
           ctx' \in [Socks -> Contexts],
           \A s \in Socks : ctx'[s].state = ctx[s].state
    PROVE  IInv'
<1>1. /\ handler.stage = "read" /\ inbox.op = op /\ inbox' = NoRequest
      /\ UNCHANGED <<held, call, ws>>
  BY DEF Reads
<1>2. op # "none" /\ "open" \notin Ops /\ "none" \notin Ops
  BY DEF Ops, SimpleOps
<1>3. a \in Responses /\ a.op = op /\ ~(a.op \in {"open", "accept"} /\ a.ok) /\ a # NoResponse
  BY <1>2, ResponseShape
<1>4. inbox # NoRequest
  BY <1>1, <1>2, RequestShape DEF IInv, TypeOK
<1> QED
  BY <1>1, <1>3, <1>4, AnswerStep

LEMMA CtxType == TypeOK => ctx \in [Socks -> Contexts]
BY DEF TypeOK, Contexts

LEMMA HandleInvalidHandleStep == IInv /\ HandleInvalidHandle => IInv'
<1> SUFFICES ASSUME IInv, HandleInvalidHandle PROVE IInv'
  OBVIOUS
<1>1. PICK op \in Ops : Reads(op) /\ ~Valid(inbox.handle) /\ Respond(Failed(op))
  BY DEF HandleInvalidHandle
<1>2. UNCHANGED <<sockets, ctx>> /\ ctx \in [Socks -> Contexts]
  BY CtxType DEF HandleInvalidHandle, IInv
<1>3. Failed(op) # Done(op)
  BY ResponseShape
<1> QED
  BY <1>1, <1>2, <1>3, RefuseStep

LEMMA HandleSocketOpenStep == IInv /\ HandleSocketOpen => IInv'
<1> SUFFICES ASSUME IInv, HandleSocketOpen PROVE IInv'
  OBVIOUS
<1>1. Reads("open") /\ UNCHANGED <<sockets, ctx>> /\ ctx \in [Socks -> Contexts]
  BY CtxType DEF HandleSocketOpen, IInv
<1>2. CASE Respond(Failed("open"))
  <2>1. Failed("open") # Done("open")
    BY DEF Failed, Done
  <2> QED
    BY <1>1, <1>2, <2>1, RefuseStep
<1>3. CASE FreeHandles # {} /\ Await("open", Min(FreeHandles), None, Forever)
  <2> DEFINE h == Min(FreeHandles)
  <2>1. h \in FreeHandles
    BY <1>3, MinIn DEF FreeHandles, Handles
  <2> HIDE DEF h
  <2>2. h \in Handles /\ sockets[h] = None
    BY <2>1 DEF FreeHandles
  <2>3. handler.stage = "read" /\ inbox.op = "open" /\ inbox' = NoRequest
        /\ UNCHANGED <<held, call, ws>>
    BY <1>1 DEF Reads
  <2>4. inbox # NoRequest /\ Forever \in 0 .. Forever
    BY <2>3, RequestShape, ProxySocketsAssumption DEF IInv, TypeOK, Forever
  <2>5. "open" \in Busy /\ inbox.op \in OpsAt("open") /\ Await("open", h, None, Forever)
    BY <1>3, <2>3 DEF Busy, OpsAt, h
  <2> QED
    BY <1>1, <2>2, <2>3, <2>4, <2>5, AwaitStep
<1> QED
  BY <1>2, <1>3 DEF HandleSocketOpen

LEMMA HandleSocketAddrStep == IInv /\ HandleSocketAddr => IInv'
<1> SUFFICES ASSUME IInv, HandleSocketAddr PROVE IInv'
  OBVIOUS
<1>1. CASE Begin("addr", "first") \/ Begin("addr", "await")
  BY <1>1, BeginStep DEF OpsAt
<1>2. CASE /\ Reads("addr") /\ Valid(inbox.handle)
           /\ Respond(Done("addr"))
           /\ UpdateTimeout(sockets[inbox.handle], Limit(inbox.timeout), 0)
           /\ UNCHANGED sockets
  <2> DEFINE s == sockets[inbox.handle]
             limit == Limit(inbox.timeout)
  <2>1. "addr" \in Ops \ {"accept"}
    BY DEF Ops
  <2>2. s \in Socks /\ limit \in 0 .. Forever
    BY <1>2, <2>1, LimitType, RequestShape DEF Valid, Reads, IInv, TypeOK
  <2>3. UpdateTimeout(s, limit, 0)
    BY <1>2
  <2> HIDE DEF s, limit
  <2>4. 0 \in 0 .. MaxTimeout + 1
    BY ProxySocketsAssumption
  <2>5. ctx' \in [Socks -> Contexts] /\ \A k \in Socks : ctx'[k].state = ctx[k].state
    BY <2>2, <2>3, <2>4, UpdateTimeoutShape DEF IInv
  <2> QED
    BY <1>2, <2>1, <2>5, RefuseStep
<1> QED
  BY <1>1, <1>2 DEF HandleSocketAddr

LEMMA HandleSocketConnectStep == IInv /\ HandleSocketConnect => IInv'
BY BeginStep DEF HandleSocketConnect, OpsAt

LEMMA HandleSocketOptionSetStep == IInv /\ HandleSocketOptionSet => IInv'
<1> SUFFICES ASSUME IInv, HandleSocketOptionSet PROVE IInv'
  OBVIOUS
<1>1. CASE Begin("optionSet", "await")
  BY <1>1, BeginStep DEF OpsAt, SimpleOps
<1>2. CASE /\ Reads("optionSet") /\ Valid(inbox.handle) /\ Respond(Failed("optionSet"))
           /\ UNCHANGED <<sockets, ctx>>
  <2>1. Failed("optionSet") # Done("optionSet") /\ "optionSet" \in Ops
    BY DEF Failed, Done, Ops, SimpleOps
  <2> QED
    BY <1>2, <2>1, CtxType, RefuseStep DEF IInv
<1>3. CASE /\ \E op \in {"nonblocking", "blocking"} :
                Reads(op) /\ Valid(inbox.handle)
                  /\ Await("await", None, sockets[inbox.handle], Forever)
           /\ UNCHANGED <<sockets, ctx>>
  <2> DEFINE s == sockets[inbox.handle]
  <2>1. /\ handler.stage = "read" /\ inbox.op \in {"nonblocking", "blocking"}
        /\ inbox' = NoRequest /\ UNCHANGED <<held, call, ws, sockets, ctx>>
        /\ Await("await", None, s, Forever) /\ Valid(inbox.handle)
    BY <1>3 DEF Reads
  <2>2. s \in Socks
    BY <2>1 DEF Valid, IInv, TypeOK
  <2> HIDE DEF s
  <2>3. inbox # NoRequest /\ Forever \in 0 .. Forever
    BY <2>1, RequestShape, ProxySocketsAssumption DEF IInv, TypeOK, Forever
  <2>4. "await" \in Busy /\ inbox.op \in OpsAt("await")
    BY <2>1 DEF Busy, OpsAt
  <2> QED
    BY <2>1, <2>2, <2>3, <2>4, CtxType, AwaitStep DEF IInv
<1> QED
  BY <1>1, <1>2, <1>3 DEF HandleSocketOptionSet

LEMMA HandleSocketOptionGetStep == IInv /\ HandleSocketOptionGet => IInv'
<1> SUFFICES ASSUME IInv, HandleSocketOptionGet PROVE IInv'
  OBVIOUS
<1>1. CASE Begin("optionGet", "await")
  BY <1>1, BeginStep DEF OpsAt, SimpleOps
<1>2. CASE /\ Reads("optionGet") /\ Valid(inbox.handle)
           /\ \E a \in {Done("optionGet"), Failed("optionGet")} : Respond(a)
           /\ UNCHANGED <<sockets, ctx>>
  <2>1. "optionGet" \in Ops \ {"accept"}
    BY DEF Ops, SimpleOps
  <2> QED
    BY <1>2, <2>1, CtxType, RefuseStep DEF IInv
<1> QED
  BY <1>1, <1>2 DEF HandleSocketOptionGet

LEMMA HandleSocketAcceptStep == IInv /\ HandleSocketAccept => IInv'
<1> SUFFICES ASSUME IInv, HandleSocketAccept PROVE IInv'
  OBVIOUS
<1> DEFINE s == sockets[inbox.handle]
           limit == Limit(inbox.timeout)
           h == Min(FreeHandles)
<1>1. /\ Reads("accept") /\ Valid(inbox.handle) /\ UNCHANGED sockets /\ "accept" \in Ops
  BY DEF HandleSocketAccept, Ops
<1>2. CASE FreeHandles = {}
  <2>1. Failed("accept") # Done("accept")
    BY DEF Failed, Done
  <2>2. Respond(Failed("accept")) /\ UNCHANGED ctx
    BY <1>2 DEF HandleSocketAccept
  <2> QED
    BY <1>1, <2>1, <2>2, CtxType, RefuseStep DEF IInv
<1>3. CASE FreeHandles # {}
  <2>1. h \in FreeHandles
    BY <1>3, MinIn DEF FreeHandles, Handles
  <2>2. Await("accept", h, s, limit) /\ UpdateTimeout(s, limit, 0)
    BY <1>3 DEF HandleSocketAccept
  <2>3. s \in Socks /\ limit \in 0 .. Forever
    BY <1>1, LimitType, RequestShape DEF Valid, Reads, IInv, TypeOK
  <2> HIDE DEF s, limit, h
  <2>4. h \in Handles /\ sockets[h] = None
    BY <2>1 DEF FreeHandles
  <2>5. handler.stage = "read" /\ inbox.op = "accept" /\ inbox' = NoRequest
        /\ UNCHANGED <<held, call, ws>>
    BY <1>1 DEF Reads
  <2>6. 0 \in 0 .. MaxTimeout + 1
    BY ProxySocketsAssumption
  <2>7. /\ ctx' \in [Socks -> Contexts]
        /\ \A k \in Socks : ctx'[k].state = ctx[k].state
        /\ Limited(ctx'[s], limit)
    BY <2>2, <2>3, <2>6, UpdateTimeoutShape DEF Limited, IInv
  <2>8. "accept" \in Busy /\ inbox.op \in OpsAt("accept") /\ inbox # NoRequest
    BY <2>5, RequestShape DEF Busy, OpsAt, IInv, TypeOK
  <2> QED
    BY <1>1, <2>2, <2>3, <2>4, <2>5, <2>7, <2>8, AwaitStep
<1> QED
  BY <1>2, <1>3

LEMMA HandleSocketCloseStep == IInv /\ HandleSocketClose => IInv'
<1> SUFFICES ASSUME IInv, HandleSocketClose PROVE IInv'
  OBVIOUS
<1> DEFINE s == sockets[inbox.handle]
           limit == Limit(inbox.timeout)
<1>1. /\ handler.stage = "read" /\ inbox.op = "close" /\ inbox' = NoRequest
      /\ Valid(inbox.handle) /\ UNCHANGED <<held, call, ws>>
      /\ Await("shutdown", None, s, limit) /\ UpdateTimeout(s, limit, 0)
      /\ sockets' = [sockets EXCEPT ![inbox.handle] = None]
  BY DEF HandleSocketClose, Reads
<1>2. s \in Socks /\ limit \in 0 .. Forever /\ inbox # NoRequest
  BY <1>1, LimitType, RequestShape DEF Valid, Ops, IInv, TypeOK
<1>3. s = sockets[inbox.handle]
  OBVIOUS
<1> HIDE DEF s, limit
<1>4. 0 \in 0 .. MaxTimeout + 1
  BY ProxySocketsAssumption
<1>5. /\ ctx' \in [Socks -> Contexts]
      /\ \A k \in Socks : ctx'[k].state = ctx[k].state
      /\ Limited(ctx'[s], limit)
  BY <1>1, <1>2, <1>4, UpdateTimeoutShape DEF Limited, IInv
<1>6. "shutdown" \in Busy /\ inbox.op \in OpsAt("shutdown")
  BY <1>1 DEF Busy, OpsAt
<1> QED
  BY <1>1, <1>2, <1>3, <1>5, <1>6, AwaitStep

LEMMA HandleOtherStep == IInv /\ HandleOther => IInv'
<1> SUFFICES ASSUME IInv, HandleOther PROVE IInv'
  OBVIOUS
<1>1. /\ handler.stage = "read" /\ inbox.op = "other" /\ inbox' = NoRequest
      /\ UNCHANGED <<held, call, ws, sockets, ctx>> /\ Await("other", None, None, Forever)
  BY DEF HandleOther, Reads
<1>2. inbox # NoRequest /\ Forever \in 0 .. Forever
  BY <1>1, RequestShape, ProxySocketsAssumption DEF IInv, TypeOK, Forever
<1>3. "other" \in Busy /\ inbox.op \in OpsAt("other")
  BY <1>1 DEF Busy, OpsAt
<1> QED
  BY <1>1, <1>2, <1>3, CtxType, AwaitStep DEF IInv

\* An awaited call that concerns no socket, or creates none, is answered.
LEMMA EndStep ==
    ASSUME IInv, NEW stage \in {"open", "first", "await", "accept", "other"}, Continues(stage),
           NEW a \in Responses, Respond(a), a # NoResponse,
           ~(a.op \in {"open", "accept"} /\ a.ok),
           UNCHANGED sockets,
           ctx' \in [Socks -> Contexts],
           \A s \in Socks : ctx'[s].state = ctx[s].state
    PROVE  IInv'
<1>1. handler.stage = stage /\ UNCHANGED <<held, call, ws, inbox>>
  BY DEF Continues
<1> QED
  BY <1>1, AnswerStep

LEMMA OpenFailsStep == IInv /\ OpenFails => IInv'
<1> SUFFICES ASSUME IInv, OpenFails PROVE IInv'
  OBVIOUS
<1>1. Failed("open") \in Responses /\ ~Failed("open").ok /\ Failed("open") # NoResponse
  BY ResponseShape
<1> QED
  BY <1>1, EndStep, CtxType DEF OpenFails, IInv

LEMMA AcceptFailsStep == IInv /\ AcceptFails => IInv'
<1> SUFFICES ASSUME IInv, AcceptFails PROVE IInv'
  OBVIOUS
<1>1. Failed("accept") \in Responses /\ ~Failed("accept").ok /\ Failed("accept") # NoResponse
  BY ResponseShape DEF Ops
<1> QED
  BY <1>1, EndStep, CtxType DEF AcceptFails, IInv

LEMMA OtherEndsStep == IInv /\ OtherEnds => IInv'
<1> SUFFICES ASSUME IInv, OtherEnds PROVE IInv'
  OBVIOUS
<1>1. PICK a \in {Done("other"), Failed("other")} : Respond(a)
  BY DEF OtherEnds
<1>2. a \in Responses /\ a.op = "other" /\ a # NoResponse
  BY ResponseShape
<1> QED
  BY <1>1, <1>2, EndStep, CtxType DEF OtherEnds, IInv

\* What a call changes in a SocketContext leaves it in its state.
LEMMA EffectShape ==
    ASSUME TypeOK, NEW op, NEW s \in Socks, Effect(op, s)
    PROVE  ctx' \in [Socks -> Contexts] /\ \A k \in Socks : ctx'[k].state = ctx[k].state
<1>1. ctx \in [Socks -> Contexts] /\ 0 \in 0 .. Forever /\ 0 .. MaxTimeout \subseteq 0 .. Forever
  BY CtxType, ProxySocketsAssumption DEF Forever
<1>2. CASE op = "bind"
  <2>1. ctx' = [ctx EXCEPT ![s].bound = TRUE]
    BY <1>2 DEF Effect
  <2> QED
    BY <1>1, <2>1 DEF Contexts
<1>3. CASE op = "nonblocking"
  <2>1. ctx' = [ctx EXCEPT ![s].nonblocking = TRUE, ![s].timeout = 0]
    BY <1>3 DEF Effect
  <2> QED
    BY <1>1, <2>1 DEF Contexts
<1>4. CASE op = "blocking"
  <2>1. PICK t \in 0 .. MaxTimeout :
          ctx' = [ctx EXCEPT ![s].nonblocking = FALSE, ![s].timeout = t]
    BY <1>4 DEF Effect
  <2> QED
    BY <1>1, <2>1 DEF Contexts
<1>5. CASE op \notin {"bind", "nonblocking", "blocking"}
  BY <1>1, <1>5 DEF Effect
<1> QED
  BY <1>2, <1>3, <1>4, <1>5

LEMMA AwaitEndsStep == IInv /\ AwaitEnds => IInv'
<1> SUFFICES ASSUME IInv, AwaitEnds PROVE IInv'
  OBVIOUS
<1> DEFINE op == handler.req.op
<1>1. /\ Continues("await") /\ handler.stage = "await" /\ UNCHANGED sockets
      /\ ctx \in [Socks -> Contexts]
  BY CtxType DEF AwaitEnds, Continues, IInv
<1>2. op \in OpsAt("await") /\ handler.sock \in Socks
  BY <1>1 DEF IInv, Token, Sockets
<1>3. op \in Ops /\ op \notin {"open", "accept", "none"}
  BY <1>2 DEF OpsAt, Ops, SimpleOps
<1>4. /\ Failed(op) \in Responses /\ ~Failed(op).ok /\ Failed(op) # NoResponse
      /\ Done(op) \in Responses /\ Done(op).op = op /\ Done(op) # NoResponse
  BY <1>3, ResponseShape
<1>5. CASE Respond(Failed(op)) /\ UNCHANGED ctx
  BY <1>1, <1>4, <1>5, EndStep
<1>6. CASE Respond(Done(op)) /\ Effect(op, handler.sock)
  <2>1. ctx' \in [Socks -> Contexts] /\ \A k \in Socks : ctx'[k].state = ctx[k].state
    BY <1>2, <1>6, EffectShape DEF IInv
  <2> QED
    BY <1>1, <1>3, <1>4, <1>6, <2>1, EndStep
<1> QED
  BY <1>5, <1>6 DEF AwaitEnds

\* The handler goes on to the next awaited call of a request.
LEMMA ProceedStep ==
    ASSUME IInv, NEW stage, NEW next, NEW e \in 0 .. MaxTimeout + 1, Continues(stage),
           <<stage, next>> \in {<<"first", "await">>, <<"shutdown", "close">>},
           handler' = [handler EXCEPT !.stage = next, !.elapsed = e],
           UNCHANGED <<outbox, sockets>>,
           ctx' \in [Socks -> Contexts],
           \A k \in Socks : ctx'[k].state = ctx[k].state,
           ctx'[handler.sock].timeout \in 0 .. MaxTimeout,
           ctx'[handler.sock].nonblocking => ctx'[handler.sock].timeout = 0,
           handler.limit # Forever =>
             e + ctx'[handler.sock].timeout <= Max({e, handler.limit})
    PROVE  IInv'
<1> USE DEF IInv
<1>1. handler.stage = stage /\ UNCHANGED <<held, call, ws, inbox, outbox, sockets>>
  BY DEF Continues
<1>2. /\ handler'.stage = next /\ handler'.req = handler.req /\ handler'.handle = handler.handle
      /\ handler'.sock = handler.sock /\ handler'.limit = handler.limit /\ handler'.elapsed = e
  BY DEF TypeOK
<1>3. TypeOK'
  <2>1. next \in Stages
    BY DEF Stages
  <2> QED
    BY <1>1, <2>1 DEF TypeOK, Contexts
<1>4. Token'
  <2>1. (handler.req.op \in OpsAt(handler.stage))'
    BY <1>1, <1>2 DEF Token, OpsAt
  <2> QED
    BY <1>1, <1>2, <2>1 DEF Token, Busy, IsCreated
<1>5. Agreement'
  BY <1>1 DEF Agreement, HandleOK, Closing, Opening
<1>6. Sockets'
  BY <1>1, <1>2 DEF Sockets, TypeOK
<1>7. BlocksWithinLimits'
  BY <1>1, <1>2 DEF BlocksWithinLimits
<1> QED
  BY <1>3, <1>4, <1>5, <1>6, <1>7

LEMMA SocketShutDownStep == IInv /\ SocketShutDown => IInv'
<1> SUFFICES ASSUME IInv, SocketShutDown PROVE IInv'
  OBVIOUS
<1> DEFINE s == handler.sock
           limit == handler.limit
           e == handler.elapsed
<1>1. /\ Continues("shutdown") /\ handler.stage = "shutdown" /\ UNCHANGED <<outbox, sockets>>
      /\ handler' = [handler EXCEPT !.stage = "close"] /\ UpdateTimeout(s, limit, e)
  BY DEF SocketShutDown, Continues
<1>2. s \in Socks /\ limit \in 0 .. Forever /\ e \in 0 .. MaxTimeout + 1
  BY <1>1 DEF IInv, Sockets, TypeOK
<1>3. handler' = [handler EXCEPT !.stage = "close", !.elapsed = e]
  BY <1>1 DEF IInv, TypeOK
<1>4. s = handler.sock /\ limit = handler.limit
  OBVIOUS
<1> HIDE DEF s, limit, e
<1>5. /\ ctx' \in [Socks -> Contexts]
      /\ \A k \in Socks : ctx'[k].state = ctx[k].state
      /\ ctx'[s].timeout \in 0 .. MaxTimeout
      /\ ctx'[s].nonblocking => ctx'[s].timeout = 0
      /\ limit # Forever => e + ctx'[s].timeout <= Max({e, limit})
  BY <1>1, <1>2, UpdateTimeoutShape DEF IInv
<1> QED
  BY <1>1, <1>2, <1>3, <1>4, <1>5, ProceedStep

LEMMA FirstEndsStep == IInv /\ FirstEnds => IInv'
<1> SUFFICES ASSUME IInv, FirstEnds PROVE IInv'
  OBVIOUS
<1> DEFINE s == handler.sock
           limit == handler.limit
           op == handler.req.op
<1>1. /\ Continues("first") /\ handler.stage = "first" /\ UNCHANGED sockets
      /\ ctx \in [Socks -> Contexts]
  BY CtxType DEF FirstEnds, Continues, IInv
<1>2. op \in {"addr", "connect"} /\ s \in Socks /\ limit \in 0 .. Forever
  BY <1>1 DEF IInv, Token, Sockets, OpsAt, TypeOK
<1>3. /\ Failed(op) \in Responses /\ ~Failed(op).ok /\ Failed(op) # NoResponse
      /\ Done("addr") \in Responses /\ Done("addr").op = "addr" /\ Done("addr") # NoResponse
  <2>1. op \in Ops /\ "addr" \in Ops
    BY <1>2 DEF Ops
  <2> QED
    BY <1>2, <2>1, ResponseShape
<1>4. CASE Respond(Failed(op)) /\ UNCHANGED ctx
  BY <1>1, <1>3, <1>4, EndStep
<1>5. ASSUME NEW e \in 0 .. MaxTimeout + 1,
             ctx' = [ctx EXCEPT ![s].bound = @ \/ op = "connect",
                                ![s].timeout = Remaining(s, limit, e)],
             \/ /\ handler' = [handler EXCEPT !.stage = "await", !.elapsed = e]
                /\ UNCHANGED outbox
             \/ op = "addr" /\ Respond(Done("addr"))
      PROVE  IInv'
  <2> DEFINE left == Remaining(s, limit, e)
             c == [ctx[s] EXCEPT !.bound = @ \/ op = "connect", !.timeout = left]
  <2>1. /\ left \in 0 .. MaxTimeout
        /\ ctx[s].nonblocking => left = 0
        /\ limit # Forever => e + left <= Max({e, limit})
    BY <1>2, RemainingBounds DEF IInv
  <2>2. left \in 0 .. Forever
    BY <2>1, ProxySocketsAssumption DEF Forever
  <2>3. ctx' = [ctx EXCEPT ![s].bound = @ \/ op = "connect", ![s].timeout = left]
    BY <1>5
  <2> HIDE DEF left
  <2>4. ctx' = [ctx EXCEPT ![s] = c]
    BY <1>1, <1>2, <2>3 DEF Contexts
  <2>5. /\ c \in Contexts /\ c.state = ctx[s].state /\ c.timeout = left
        /\ c.nonblocking = ctx[s].nonblocking
    <3>1. (ctx[s].bound \/ op = "connect") \in BOOLEAN
      OBVIOUS
    <3> QED
      BY <1>1, <1>2, <2>2, <3>1 DEF Contexts
  <2> HIDE DEF c
  <2>6. /\ ctx' \in [Socks -> Contexts] /\ ctx'[s] = c
        /\ \A k \in Socks : ctx'[k].state = ctx[k].state
    BY <1>1, <1>2, <2>4, <2>5
  <2>7. CASE handler' = [handler EXCEPT !.stage = "await", !.elapsed = e] /\ UNCHANGED outbox
    BY <1>1, <2>1, <2>5, <2>6, <2>7, ProceedStep
  <2>8. CASE op = "addr" /\ Respond(Done("addr"))
    BY <1>1, <1>3, <2>6, <2>8, EndStep
  <2> QED
    BY <1>5, <2>7, <2>8
<1> QED
  BY <1>4, <1>5 DEF FirstEnds

\* A SocketContext when its socket is new, and when it is closed.
LEMMA ContextShape ==
    /\ Unused \in Contexts /\ Unused.state = "unused"
    /\ [Unused EXCEPT !.state = "open"] \in Contexts
    /\ [Unused EXCEPT !.state = "open"].state = "open"
    /\ Closed \in Contexts /\ Closed.state = "closed"
<1>1. Forever \in 0 .. Forever
  BY ProxySocketsAssumption DEF Forever
<1>2. Unused \in Contexts /\ Unused.state = "unused"
  BY <1>1 DEF Unused, Contexts
<1> QED
  BY <1>2 DEF Contexts, Closed

\* A new socket enters the list under the handle that was reserved for it, which the
\* program does not hold.
LEMMA EntersStep ==
    ASSUME IInv, NEW stage \in {"open", "accept"}, Continues(stage), Unborn # {},
           Enters(Min(Unborn))
    PROVE  IInv'
<1> USE DEF IInv
<1> DEFINE s == Min(Unborn)
           g == handler.handle
           a == Created(handler.req.op, g, s)
<1>1. handler.stage = stage /\ UNCHANGED <<held, call, ws, inbox>>
  BY DEF Continues
<1>2. handler.req.op = stage /\ g \in Handles /\ sockets[g] = None
  BY <1>1 DEF Token, OpsAt, Sockets
<1>3. s \in Unborn
  BY MinIn DEF Unborn, Socks
<1>4. /\ sockets' = [sockets EXCEPT ![g] = s]
      /\ ctx' = [ctx EXCEPT ![s] = [Unused EXCEPT !.state = "open"]]
      /\ Respond(a)
  BY DEF Enters
<1>5. /\ a \in Responses /\ a.op = stage /\ a.ok /\ a.handle = g /\ a.sock = s
      /\ IsCreated(a) /\ a # NoResponse /\ s \in Socks
  <2> s \in Socks
    BY <1>3 DEF Unborn
  <2> HIDE DEF s
  <2>1. a = Created(stage, g, s)
    BY <1>2
  <2> HIDE DEF a
  <2>2. a \in Responses /\ a.op = stage /\ a.ok /\ a.handle = g /\ a.sock = s
    BY <1>2, <2>1, ResponseShape
  <2>3. IsCreated(a)
    BY <1>2, <2>1 DEF IsCreated
  <2>4. a # NoResponse
    BY <2>2, ResponseShape
  <2> QED
    BY <2>2, <2>3, <2>4
<1> HIDE DEF s, a
<1>6. s \in Socks /\ ctx[s].state = "unused" /\ \A k \in Handles : sockets[k] # s
  <2>1. ctx[s].state = "unused"
    BY <1>3 DEF Unborn
  <2> QED
    BY <1>1, <1>5, <2>1, NoneIsNoSocket DEF Sockets
<1>7. /\ handler' \in [stage : Stages, req : Requests, handle : Handles \cup {None},
                       sock : Socks \cup {None}, limit : 0 .. Forever,
                       elapsed : 0 .. MaxTimeout + 1]
      /\ outbox' \in Responses
      /\ handler'.req.op = "none"
      /\ ws = "open" => handler'.stage = "read" /\ outbox' = a
      /\ ws # "open" => handler'.stage = "closeAll" /\ outbox' = outbox
  BY <1>4, <1>5, RespondShape
<1>8. /\ sockets' \in [Handles -> Socks \cup {None}] /\ sockets'[g] = s
      /\ \A k \in Handles : k # g => sockets'[k] = sockets[k]
  BY <1>2, <1>4, <1>6 DEF TypeOK
<1>9. /\ ctx' \in [Socks -> Contexts] /\ ctx'[s].state = "open"
      /\ \A k \in Socks : k # s => ctx'[k] = ctx[k]
  BY <1>4, <1>6, ContextShape, CtxType
<1>10. TypeOK'
  BY <1>1, <1>7, <1>8, <1>9 DEF TypeOK, Contexts
<1>11. ws = "open" => inbox = NoRequest /\ outbox = NoResponse /\ call # NoRequest
  BY <1>1 DEF Token, Busy
<1>12. Token'
  <2>1. (handler.req.op \in OpsAt(handler.stage))'
    BY <1>7 DEF OpsAt, TypeOK
  <2>2. CASE ws = "open"
    BY <1>1, <1>5, <1>7, <1>11, <2>1, <2>2 DEF Token, Busy, IsCreated
  <2>3. CASE ws # "open"
    BY <1>1, <1>7, <2>1, <2>3, ResponseShape DEF Token, TypeOK
  <2> QED
    BY <2>2, <2>3
<1>13. Agreement'
  <2> SUFFICES ASSUME ws = "open", NEW k \in Handles PROVE HandleOK(k)'
    BY <1>1 DEF Agreement
  <2>1. HandleOK(k) /\ ~Opening(k) /\ ~Closing(k) /\ ~Closing(k)' /\ (Opening(k)' <=> k = g)
    BY <1>1, <1>5, <1>7, <1>11, RequestShape, ResponseShape DEF Agreement, Closing, Opening
  <2>2. held[k] = None <=> sockets[k] = None
    BY <2>1 DEF HandleOK
  <2>3. CASE k = g
    BY <1>1, <1>2, <1>5, <1>7, <1>8, <2>1, <2>2, <2>3 DEF HandleOK
  <2>4. CASE k # g
    BY <1>1, <1>8, <2>1, <2>4 DEF HandleOK
  <2> QED
    BY <2>3, <2>4
<1>14. Sockets'
  <2>1. handler'.stage \in {"read", "closeAll"}
    BY <1>7 DEF TypeOK
  <2>2. \A k \in Handles : sockets'[k] # None => ctx'[sockets'[k]].state = "open"
    BY <1>1, <1>6, <1>8, <1>9 DEF Sockets, TypeOK
  <2>3. \A h, k \in Handles : sockets'[h] # None /\ sockets'[h] = sockets'[k] => h = k
    BY <1>6, <1>8 DEF Sockets
  <2>4. \A k \in Socks : ctx'[k].state = "open" => \E h \in Handles : sockets'[h] = k
    <3> SUFFICES ASSUME NEW k \in Socks, ctx'[k].state = "open"
                 PROVE  \E h \in Handles : sockets'[h] = k
      OBVIOUS
    <3>1. CASE k = s
      BY <1>2, <1>8, <3>1
    <3>2. CASE k # s
      <4>1. PICK h \in Handles : sockets[h] = k
        BY <1>1, <1>9, <3>2 DEF Sockets
      <4>2. h # g
        BY <1>2, <4>1, NoneIsNoSocket
      <4> QED
        BY <1>8, <4>1, <4>2
    <3> QED
      BY <3>1, <3>2
  <2> QED
    BY <2>1, <2>2, <2>3, <2>4 DEF Sockets
<1>15. BlocksWithinLimits'
  BY <1>7 DEF BlocksWithinLimits, TypeOK
<1> QED
  BY <1>10, <1>12, <1>13, <1>14, <1>15

\* The socket that a request closes is closed.
LEMMA SocketClosedStep == IInv /\ SocketClosed => IInv'
<1> SUFFICES ASSUME IInv, SocketClosed PROVE IInv'
  OBVIOUS
<1> USE DEF IInv
<1> DEFINE s == handler.sock
<1>1. /\ handler.stage = "close" /\ UNCHANGED <<held, call, ws, inbox, sockets>>
      /\ ctx' = [ctx EXCEPT ![s] = Closed]
  BY DEF SocketClosed, Continues
<1>2. PICK a \in {Done("close"), Failed("close")} : Respond(a)
  BY DEF SocketClosed
<1>3. a \in Responses /\ a.op = "close" /\ a # NoResponse
  <2>1. "close" \in Ops
    BY DEF Ops
  <2> QED
    BY <2>1, ResponseShape
<1>4. /\ handler' \in [stage : Stages, req : Requests, handle : Handles \cup {None},
                       sock : Socks \cup {None}, limit : 0 .. Forever,
                       elapsed : 0 .. MaxTimeout + 1]
      /\ outbox' \in Responses
      /\ handler'.req.op = "none"
      /\ ws = "open" => handler'.stage = "read" /\ outbox' = a
      /\ ws # "open" => handler'.stage = "closeAll" /\ outbox' = outbox
  BY <1>2, <1>3, RespondShape
<1>5. s \in Socks /\ \A k \in Handles : sockets[k] # s
  BY <1>1 DEF Sockets
<1>6. /\ ctx' \in [Socks -> Contexts] /\ ctx'[s].state = "closed"
      /\ \A k \in Socks : k # s => ctx'[k] = ctx[k]
  BY <1>1, <1>5, ContextShape, CtxType
<1>7. TypeOK'
  BY <1>1, <1>4, <1>6 DEF TypeOK, Contexts
<1>8. ws = "open" => inbox = NoRequest /\ outbox = NoResponse /\ call # NoRequest
  BY <1>1 DEF Token, Busy
<1>9. Token'
  <2>1. (handler.req.op \in OpsAt(handler.stage))'
    BY <1>4 DEF OpsAt, TypeOK
  <2>2. CASE ws = "open"
    BY <1>1, <1>3, <1>4, <1>8, <2>1, <2>2 DEF Token, Busy
  <2>3. CASE ws # "open"
    BY <1>1, <1>4, <2>1, <2>3, ResponseShape DEF Token, TypeOK
  <2> QED
    BY <2>2, <2>3
<1>10. Agreement'
  <2> SUFFICES ASSUME ws = "open", NEW k \in Handles PROVE HandleOK(k)'
    BY <1>1 DEF Agreement
  <2>1. HandleOK(k) /\ ~Opening(k) /\ ~Closing(k) /\ ~Closing(k)' /\ ~Opening(k)'
    BY <1>1, <1>3, <1>4, <1>8, RequestShape, ResponseShape DEF Agreement, Closing, Opening
  <2> QED
    BY <1>1, <2>1 DEF HandleOK
<1>11. Sockets'
  <2>1. handler'.stage \in {"read", "closeAll"}
    BY <1>4 DEF TypeOK
  <2>2. \A k \in Handles : sockets'[k] # None => ctx'[sockets'[k]].state = "open"
    BY <1>1, <1>5, <1>6 DEF Sockets, TypeOK
  <2>3. \A k \in Socks : ctx'[k].state = "open" => \E h \in Handles : sockets'[h] = k
    BY <1>1, <1>6 DEF Sockets
  <2> QED
    BY <1>1, <2>1, <2>2, <2>3 DEF Sockets
<1>12. BlocksWithinLimits'
  BY <1>4 DEF BlocksWithinLimits, TypeOK
<1> QED
  BY <1>7, <1>9, <1>10, <1>11, <1>12

-----------------------------------------------------------------------------
(***************************************************************************)
(* The end of a connection.                                                *)
(***************************************************************************)

LEMMA MessagesEndStep == IInv /\ MessagesEnd => IInv'
<1> SUFFICES ASSUME IInv, MessagesEnd PROVE IInv'
  OBVIOUS
<1> USE DEF IInv
<1>1. /\ handler.stage = "read" /\ ws = "closed" /\ inbox = NoRequest
      /\ UNCHANGED <<held, call, ws, inbox, outbox, sockets, ctx>>
      /\ handler' = [Reading EXCEPT !.stage = "closeAll"]
  BY DEF MessagesEnd, Continues
<1>2. TypeOK'
  BY <1>1, ReadingShape DEF TypeOK
<1>3. handler'.stage = "closeAll" /\ handler'.req.op = "none"
  BY <1>1, ReadingShape
<1>4. Token'
  <2>1. (handler.req.op \in OpsAt(handler.stage))'
    BY <1>3 DEF OpsAt
  <2> QED
    BY <1>1, <1>3, <2>1 DEF Token, IsCreated
<1> QED
  BY <1>1, <1>2, <1>3, <1>4 DEF Agreement, Sockets, BlocksWithinLimits

LEMMA CloseCtxStep ==
    ASSUME IInv, NEW h \in Handles, CloseCtx(h)
    PROVE  IInv'
<1> USE DEF IInv
<1> DEFINE s == sockets[h]
<1>1. /\ handler.stage = "closeAll" /\ s # None
      /\ UNCHANGED <<held, call, ws, inbox, outbox, handler, sockets>>
      /\ ctx' = [ctx EXCEPT ![s] = Closed]
  BY DEF CloseCtx, Continues
<1>2. s \in Socks
  BY <1>1 DEF TypeOK
<1>3. /\ ctx' \in [Socks -> Contexts] /\ ctx'[s].state = "closed"
      /\ \A k \in Socks : k # s => ctx'[k] = ctx[k]
  BY <1>1, <1>2, ContextShape, CtxType
<1>4. TypeOK'
  BY <1>1, <1>3 DEF TypeOK, Contexts
<1>5. Token'
  BY <1>1 DEF Token, IsCreated
<1>6. Agreement'
  BY <1>1 DEF Agreement, HandleOK, Closing, Opening
<1>7. Sockets'
  BY <1>1, <1>2, <1>3 DEF Sockets, TypeOK
<1>8. BlocksWithinLimits'
  BY <1>1 DEF BlocksWithinLimits
<1> QED
  BY <1>4, <1>5, <1>6, <1>7, <1>8

LEMMA CloseAllEndsStep == IInv /\ CloseAllEnds => IInv'
<1> SUFFICES ASSUME IInv, CloseAllEnds PROVE IInv'
  OBVIOUS
<1> USE DEF IInv
<1>1. /\ handler.stage = "closeAll"
      /\ UNCHANGED <<held, call, ws, inbox, outbox, sockets, ctx>>
      /\ \A h \in Handles : sockets[h] # None => ctx[sockets[h]].state = "closed"
      /\ handler' = [handler EXCEPT !.stage = "done"]
  BY DEF CloseAllEnds, Continues
<1>2. handler'.stage = "done" /\ handler'.req = handler.req
  BY <1>1 DEF TypeOK
<1>3. TypeOK'
  BY <1>1 DEF TypeOK, Stages
<1>4. Token'
  <2>1. (handler.req.op \in OpsAt(handler.stage))'
    BY <1>1, <1>2 DEF Token, OpsAt
  <2>2. ws # "open"
    BY <1>1 DEF Token, Busy
  <2> QED
    BY <1>1, <1>2, <2>1, <2>2 DEF Token, IsCreated, TypeOK
<1>5. Agreement'
  BY <1>1 DEF Agreement, HandleOK, Closing, Opening
<1>6. \A s \in Socks : ctx[s].state # "open"
  BY <1>1, NoneIsNoSocket DEF Sockets
<1>7. Sockets'
  BY <1>1, <1>2, <1>6 DEF Sockets
<1>8. BlocksWithinLimits'
  BY <1>2 DEF BlocksWithinLimits
<1> QED
  BY <1>3, <1>4, <1>5, <1>7, <1>8

\* A new connection: no socket, no request, and a program without handles.
LEMMA FreshConnection ==
    ASSUME held = [h \in Handles |-> None], call = NoRequest, ws = "open",
           inbox = NoRequest, outbox = NoResponse, handler = Reading,
           sockets = [h \in Handles |-> None], ctx = [s \in Socks |-> Unused]
    PROVE  IInv
<1>1. /\ handler.stage = "read" /\ handler.req.op = "none" /\ inbox.op = "none"
      /\ outbox.op = "none"
  BY ReadingShape, ResponseShape DEF NoRequest
<1>2. TypeOK
  <2>1. /\ ctx \in [Socks -> Contexts] /\ outbox \in Responses
        /\ call \in Requests /\ inbox \in Requests
    BY ContextShape, ResponseShape DEF Requests
  <2> QED
    BY <2>1, ReadingShape DEF TypeOK, Contexts
<1>3. Token
  <2>1. handler.req.op \in OpsAt(handler.stage)
    BY <1>1 DEF OpsAt
  <2> QED
    BY <1>1, <2>1 DEF Token, Busy
<1>4. Agreement
  BY <1>1 DEF Agreement, HandleOK, Closing, Opening
<1>5. Sockets
  BY <1>1, ContextShape DEF Sockets
<1>6. BlocksWithinLimits
  BY <1>1 DEF BlocksWithinLimits
<1> QED
  BY <1>2, <1>3, <1>4, <1>5, <1>6 DEF IInv

LEMMA IInvInit == Init => IInv
BY FreshConnection DEF Init

LEMMA ConnectStep == IInv /\ Connect => IInv'
<1> SUFFICES ASSUME IInv, Connect PROVE IInv'
  OBVIOUS
<1>1. /\ handler.stage = "done" /\ ws' = "open" /\ inbox' = NoRequest /\ handler' = Reading
      /\ sockets' = [h \in Handles |-> None] /\ ctx' = [s \in Socks |-> Unused]
      /\ UNCHANGED <<held, call, outbox>>
  BY DEF Connect
<1>2. ws = "closed"
  BY <1>1 DEF IInv, Token, Busy, TypeOK
<1>3. call = NoRequest /\ outbox = NoResponse /\ held = [h \in Handles |-> None]
  BY <1>2 DEF IInv, Token, TypeOK
<1>4. call' = NoRequest /\ outbox' = NoResponse /\ held' = [h \in Handles |-> None]
  BY <1>1, <1>3
<1>5. /\ handler'.stage = "read" /\ handler'.req.op = "none" /\ inbox'.op = "none"
      /\ outbox'.op = "none"
  BY <1>1, <1>4, ReadingShape, ResponseShape DEF NoRequest
<1>6. TypeOK'
  <2>1. /\ ctx' \in [Socks -> Contexts] /\ outbox' \in Responses
        /\ call' \in Requests /\ inbox' \in Requests
    BY <1>1, <1>4, ContextShape, ResponseShape DEF Requests
  <2> QED
    BY <1>1, <1>4, <2>1, ReadingShape DEF TypeOK, Contexts
<1>7. Token'
  <2>1. (handler.req.op \in OpsAt(handler.stage))'
    BY <1>5 DEF OpsAt
  <2> QED
    BY <1>1, <1>4, <1>5, <2>1 DEF Token, Busy
<1>8. Agreement'
  BY <1>1, <1>4, <1>5 DEF Agreement, HandleOK, Closing, Opening
<1>9. Sockets'
  BY <1>1, <1>5, ContextShape DEF Sockets
<1>10. BlocksWithinLimits'
  BY <1>5 DEF BlocksWithinLimits
<1> QED
  BY <1>6, <1>7, <1>8, <1>9, <1>10 DEF IInv

LEMMA DisconnectStep == IInv /\ Disconnect => IInv'
<1> SUFFICES ASSUME IInv, Disconnect PROVE IInv'
  OBVIOUS
<1> USE DEF IInv
<1>1. /\ ws' = "closed" /\ held' = [h \in Handles |-> None]
      /\ call' = NoRequest /\ outbox' = NoResponse /\ inbox' \in {inbox, NoRequest}
      /\ UNCHANGED <<handler, sockets, ctx>>
  BY DEF Disconnect
<1>2. TypeOK'
  BY <1>1, RequestShape, ResponseShape DEF TypeOK
<1>3. Token'
  <2>1. (handler.req.op \in OpsAt(handler.stage))'
    BY <1>1 DEF Token, OpsAt
  <2> QED
    BY <1>1, <2>1, ResponseShape DEF Token
<1>4. Agreement'
  BY <1>1 DEF Agreement
<1>5. Sockets'
  BY <1>1 DEF Sockets
<1>6. BlocksWithinLimits'
  BY <1>1 DEF BlocksWithinLimits
<1> QED
  BY <1>2, <1>3, <1>4, <1>5, <1>6

-----------------------------------------------------------------------------
(***************************************************************************)
(* The machine.                                                            *)
(***************************************************************************)

\* A call of the program; one to close gives up its handle.
LEMMA CallStep ==
    ASSUME IInv, NEW r \in Requests, r # NoRequest, SendAndSuspend(r),
           UNCHANGED <<ws, outbox, handler, sockets, ctx>>,
           \/ r.op # "close" /\ held' = held
           \/ /\ r.op = "close"
              /\ held' = [k \in Handles |-> IF k = r.handle THEN None ELSE held[k]]
    PROVE  IInv'
<1> USE DEF IInv
<1>1. call = NoRequest /\ ws = "open" /\ call' = r /\ inbox' = r
  BY DEF SendAndSuspend
<1>2. inbox = NoRequest /\ outbox = NoResponse /\ handler.stage = "read"
  BY <1>1 DEF Token
<1>3. held' \in [Handles -> Socks \cup {None, Lost}]
  BY DEF TypeOK
<1>4. TypeOK'
  BY <1>1, <1>3 DEF TypeOK
<1>5. Token'
  <2>1. (handler.req.op \in OpsAt(handler.stage))'
    BY DEF Token, OpsAt
  <2> QED
    BY <1>1, <1>2, <2>1, ResponseShape DEF Token
<1>6. Agreement'
  <2> SUFFICES ASSUME NEW k \in Handles PROVE HandleOK(k)'
    BY <1>1 DEF Agreement
  <2>1. HandleOK(k) /\ ~Closing(k) /\ ~Opening(k) /\ ~Opening(k)'
    BY <1>1, <1>2, RequestShape, ResponseShape DEF Agreement, Closing, Opening
  <2>2. /\ r.op = "close" /\ r.handle = k => held'[k] = None
        /\ ~(r.op = "close" /\ r.handle = k) => held'[k] = held[k]
    OBVIOUS
  <2> QED
    BY <1>1, <2>1, <2>2 DEF HandleOK, Closing
<1>7. Sockets'
  BY DEF Sockets
<1>8. BlocksWithinLimits'
  BY DEF BlocksWithinLimits
<1> QED
  BY <1>4, <1>5, <1>6, <1>7, <1>8

\* The requests of the program.
LEMMA ProgramRequests ==
    /\ [op |-> "open"] \in Requests /\ [op |-> "open"] # NoRequest
    /\ [op |-> "other"] \in Requests /\ [op |-> "other"] # NoRequest
    /\ \A op \in Ops, h \in AnyHandle, t \in Timeouts :
         /\ [op |-> op, handle |-> h, timeout |-> t] \in Requests
         /\ [op |-> op, handle |-> h, timeout |-> t] # NoRequest
<1>1. /\ [op |-> "open"].op = "open" /\ [op |-> "other"].op = "other" /\ NoRequest.op = "none"
      /\ "none" \notin Ops
  BY DEF NoRequest, Ops, SimpleOps
<1> QED
  BY <1>1 DEF Requests

LEMMA SimpleCallStep ==
    ASSUME IInv, NEW op \in Ops \ {"close"}, Call(op)
    PROVE  IInv'
<1>1. PICK h \in AnyHandle, t \in Timeouts :
        SendAndSuspend([op |-> op, handle |-> h, timeout |-> t])
  BY DEF Call
<1> DEFINE r == [op |-> op, handle |-> h, timeout |-> t]
<1>2. r \in Requests /\ r # NoRequest /\ r.op # "close"
  BY ProgramRequests
<1> HIDE DEF r
<1>3. SendAndSuspend(r) /\ UNCHANGED <<held, ws, outbox, handler, sockets, ctx>>
  BY <1>1 DEF Call, r
<1> QED
  BY <1>2, <1>3, CallStep

LEMMA PlainCallStep == IInv /\ (SocketOpen \/ CallOther) => IInv'
<1> SUFFICES ASSUME IInv, SocketOpen \/ CallOther PROVE IInv'
  OBVIOUS
<1>1. PICK r \in {[op |-> "open"], [op |-> "other"]} : SendAndSuspend(r)
  BY DEF SocketOpen, CallOther
<1>2. r \in Requests /\ r # NoRequest /\ r.op # "close"
  BY ProgramRequests
<1>3. UNCHANGED <<held, ws, outbox, handler, sockets, ctx>>
  BY DEF SocketOpen, CallOther
<1> QED
  BY <1>1, <1>2, <1>3, CallStep

LEMMA SocketCloseStep == IInv /\ SocketClose => IInv'
<1> SUFFICES ASSUME IInv, SocketClose PROVE IInv'
  OBVIOUS
<1>1. PICK h \in AnyHandle, t \in Timeouts :
        /\ SendAndSuspend([op |-> "close", handle |-> h, timeout |-> t])
        /\ held' = [k \in Handles |-> IF k = h THEN None ELSE held[k]]
  BY DEF SocketClose
<1> DEFINE r == [op |-> "close", handle |-> h, timeout |-> t]
<1>2. r \in Requests /\ r # NoRequest /\ r.op = "close" /\ r.handle = h
  BY ProgramRequests DEF Ops
<1>3. SendAndSuspend(r) /\ UNCHANGED <<ws, outbox, handler, sockets, ctx>>
  BY <1>1 DEF SocketClose
<1> HIDE DEF r
<1>4. held' = [k \in Handles |-> IF k = r.handle THEN None ELSE held[k]]
  BY <1>1, <1>2
<1> QED
  BY <1>2, <1>3, <1>4, CallStep

LEMMA ProgramStep == IInv /\ Program => IInv'
<1> SUFFICES ASSUME IInv, Program PROVE IInv'
  OBVIOUS
<1>1. CASE SocketOpen \/ GetHostByName \/ GetServByName \/ Select \/ SettingGet
  BY <1>1, PlainCallStep DEF GetHostByName, GetServByName, Select, SettingGet
<1>2. CASE SocketClose
  BY <1>2, SocketCloseStep
<1>3. CASE \E op \in Ops \ {"close"} : Call(op)
  BY <1>3, SimpleCallStep
<1>4. \A op \in SimpleOps \cup {"addr", "connect", "accept", "nonblocking", "blocking"} :
        op \in Ops \ {"close"}
  BY DEF Ops, SimpleOps
<1>5. {"bind", "send", "receive", "listen", "shutdown", "optionSet", "optionGet"} = SimpleOps
  BY DEF SimpleOps
<1> QED
  BY <1>1, <1>2, <1>3, <1>4, <1>5
     DEF Program, SocketBind, SocketAddr, SocketSend, SocketReceive, SocketConnect,
         SocketOptionSet, SocketOptionGet, SocketListen, SocketAccept, SocketShutdown

\* A response resumes the machine; with a new socket the program gets its handle.
LEMMA ReturnsStep == IInv /\ Returns => IInv'
<1> SUFFICES ASSUME IInv, Returns PROVE IInv'
  OBVIOUS
<1> USE DEF IInv
<1>1. /\ call # NoRequest /\ outbox # NoResponse
      /\ call' = NoRequest /\ outbox' = NoResponse
      /\ UNCHANGED <<ws, inbox, handler, sockets, ctx>>
  BY DEF Returns, SocketOpenSuccess, SocketAcceptSuccess, CallReturns, Resume
<1>2. ws = "open" /\ inbox = NoRequest /\ handler.stage = "read"
  BY <1>1 DEF Token, TypeOK
<1>3. \/ held' = held /\ ~(outbox.ok /\ outbox.op \in {"open", "accept"})
      \/ /\ outbox.ok /\ outbox.op \in {"open", "accept"}
         /\ \E s \in {outbox.sock, Lost} : held' = [held EXCEPT ![outbox.handle] = s]
  BY DEF Returns, SocketOpenSuccess, SocketAcceptSuccess, CallReturns
<1>4. outbox.op \in {"open", "accept"} /\ outbox.ok =>
        outbox.handle \in Handles /\ outbox.sock \in Socks
  <2> SUFFICES ASSUME IsCreated(outbox) PROVE outbox.handle \in Handles /\ outbox.sock \in Socks
    BY DEF Token
  <2> QED
    BY ResponseShape DEF IsCreated
<1>5. held' \in [Handles -> Socks \cup {None, Lost}]
  BY <1>3, <1>4 DEF TypeOK
<1>6. TypeOK'
  BY <1>1, <1>5, RequestShape, ResponseShape DEF TypeOK
<1>7. Token'
  <2>1. (handler.req.op \in OpsAt(handler.stage))'
    BY <1>1 DEF Token, OpsAt
  <2> QED
    BY <1>1, <1>2, <2>1, ResponseShape DEF Token, Busy
<1>8. Agreement'
  <2> SUFFICES ASSUME NEW k \in Handles PROVE HandleOK(k)'
    BY <1>1 DEF Agreement
  <2>1. HandleOK(k) /\ ~Closing(k) /\ ~Closing(k)' /\ ~Opening(k)'
    BY <1>1, <1>2, ResponseShape DEF Agreement, Closing, Opening, NoRequest
  <2>2. CASE Opening(k)
    <3>1. held'[k] \in {outbox.sock, Lost} /\ sockets[k] = outbox.sock /\ outbox.sock \in Socks
      BY <1>3, <1>4, <2>1, <2>2 DEF HandleOK, Opening, TypeOK
    <3> QED
      BY <1>1, <2>1, <3>1, NoneIsNoSocket DEF HandleOK
  <2>3. CASE ~Opening(k)
    <3>1. held'[k] = held[k]
      BY <1>3, <2>3 DEF Opening, TypeOK
    <3> QED
      BY <1>1, <2>1, <2>3, <3>1 DEF HandleOK
  <2> QED
    BY <2>2, <2>3
<1>9. Sockets'
  BY <1>1 DEF Sockets
<1>10. BlocksWithinLimits'
  BY <1>1 DEF BlocksWithinLimits
<1> QED
  BY <1>6, <1>7, <1>8, <1>9, <1>10

-----------------------------------------------------------------------------
(***************************************************************************)
(* The theorems.                                                           *)
(***************************************************************************)

LEMMA HandleStep == IInv /\ Handle => IInv'
<1> SUFFICES ASSUME IInv, Handle PROVE IInv'
  OBVIOUS
<1>1. CASE HandleSocketBind \/ HandleSocketSend \/ HandleSocketReceive \/ HandleSocketListen
             \/ HandleSocketShutdown
  BY <1>1, BeginStep DEF HandleSocketBind, HandleSocketSend, HandleSocketReceive,
       HandleSocketListen, HandleSocketShutdown, OpsAt, SimpleOps
<1>2. CASE SocketOpened
  BY <1>2, EntersStep DEF SocketOpened
<1>3. CASE SocketAccepted
  BY <1>3, EntersStep DEF SocketAccepted
<1>4. CASE \E h \in Handles : CloseCtx(h)
  BY <1>4, CloseCtxStep
<1> QED
  BY <1>1, <1>2, <1>3, <1>4, HandleInvalidHandleStep, HandleSocketOpenStep,
     HandleSocketAddrStep, HandleSocketConnectStep, HandleSocketOptionSetStep,
     HandleSocketOptionGetStep, HandleSocketAcceptStep, HandleSocketCloseStep,
     HandleOtherStep, OpenFailsStep, FirstEndsStep, AwaitEndsStep, AcceptFailsStep,
     SocketShutDownStep, SocketClosedStep, OtherEndsStep, MessagesEndStep, CloseAllEndsStep
     DEF Handle

LEMMA IInvStep == IInv /\ [Next]_vars => IInv'
<1> SUFFICES ASSUME IInv, [Next]_vars PROVE IInv'
  OBVIOUS
<1>1. CASE Next
  BY <1>1, ProgramStep, ReturnsStep, HandleStep, DisconnectStep, ConnectStep DEF Next
<1>2. CASE UNCHANGED vars
  BY <1>2 DEF IInv, TypeOK, Token, Agreement, HandleOK, Closing, Opening, Sockets,
       BlocksWithinLimits, IsCreated, vars
<1> QED
  BY <1>1, <1>2

\* The invariant of connection.py and the net library: one request at a time, in one place,
\* and a list of sockets on which program and server differ only while a socket is opened
\* or closed.
THEOREM Invariant == Spec => []IInv
BY IInvInit, IInvStep, PTL DEF Spec

\* The state of program, connection and server keeps its types.
THEOREM TypeCorrect == Spec => []TypeOK
<1>1. IInv => TypeOK
  BY DEF IInv
<1> QED
  BY <1>1, Invariant, PTL

\* Between two calls the program holds exactly the handles that are in use on the server,
\* and each stands for the socket it was given out for: no handle is reused while the
\* program holds it, however the calls and the loss of connections follow each other.
THEOREM HandlesNeverDiverge == Spec => []HandlesAgree
<1>1. ASSUME IInv PROVE HandlesAgree
  <2>1. ASSUME ws = "open", call = NoRequest, NEW h \in Handles
        PROVE  held[h] = None <=> sockets[h] = None
    <3>1. inbox = NoRequest /\ outbox = NoResponse
      BY <1>1, <2>1 DEF IInv, Token
    <3>2. ~Closing(h) /\ ~Opening(h)
      BY <3>1, ResponseShape DEF Closing, Opening, NoRequest
    <3> QED
      BY <1>1, <2>1, <3>2 DEF IInv, Agreement, HandleOK
  <2>2. ASSUME NEW h \in Handles, held[h] \notin {None, Lost} PROVE sockets[h] = held[h]
    BY <1>1, <2>2 DEF IInv, Agreement, HandleOK, Token, TypeOK
  <2> QED
    BY <2>1, <2>2 DEF HandlesAgree
<1> QED
  BY <1>1, Invariant, PTL

\* A socket that is open is in the list under exactly one handle or being closed, and none
\* is open when the handler of a connection has ended.
THEOREM SocketsDoNotLeak == Spec => []NoSocketLeak
<1>1. ASSUME IInv PROVE NoSocketLeak
  <2>1. ASSUME NEW s \in Socks, NEW h \in Handles, sockets[h] = s
        PROVE  Cardinality({k \in Handles : sockets[k] = s}) = 1
    <3>1. {k \in Handles : sockets[k] = s} = {h}
      BY <1>1, <2>1, NoneIsNoSocket DEF IInv, Sockets
    <3> QED
      BY <3>1, FS_Singleton
  <2> QED
    BY <1>1, <2>1 DEF IInv, Sockets, NoSocketLeak
<1> QED
  BY <1>1, Invariant, PTL

\* A call on a socket is awaited within the limits of the server, the request and the
\* nonblocking flag.
THEOREM CallsAreLimited == Spec => []BlocksWithinLimits
<1>1. IInv => BlocksWithinLimits
  BY DEF IInv
<1> QED
  BY <1>1, Invariant, PTL
=============================================================================
