---------------------------- MODULE BridgeDispatch ----------------------------
(***************************************************************************)
(* The request path of the GIMP plug-in bridge (dcc_mcp_gimp.py) with the  *)
(* client that calls it (bridge.py):                                       *)
(*                                                                         *)
(*   client ==TCP==> server thread ==spawn==> handler thread               *)
(*                                      | GLib.idle_add                    *)
(*                                      v                                  *)
(*                              GLib main thread runs the command          *)
(*                                                                         *)
(* Every connection has its own handler thread, which waits for its        *)
(* command with a timeout; the main thread runs the queued commands one at *)
(* a time.  Two counting semaphores bound the connections and the commands *)
(* that are queued or running.  Each request is one connection and at most *)
(* one command, as in GimpBridge.call.                                     *)
(*                                                                         *)
(* The lock of _PendingCommand is modelled by atomicity: the two sections  *)
(* it protects, the check-and-start of run_on_main and the                 *)
(* check-and-cancel of _dispatch, are one action each.  A timeout is a     *)
(* choice: it may expire at any step at which the command is unfinished.   *)
(***************************************************************************)
EXTENDS Naturals, Sequences, FiniteSets, Functions

CONSTANTS
    Requests,           \* the calls made in a behaviour
    NoRequest,          \* the main thread, or the server thread, has no request
    Kinds,              \* the kinds of request the callers may send
    MaxConnections,     \* MAX_CONNECTIONS
    MaxPending,         \* MAX_PENDING_COMMANDS
    MaxStops            \* bound: how often the host process ends

AllKinds == {"command",     \* authenticated and well formed
             "badTimeout",  \* the same, with a timeout_secs out of bounds
             "malformed",   \* wrong token, JSON, method, params or size
             "silent"}      \* no complete request line ever arrives

ASSUME RequestsAssumption == IsFiniteSet(Requests) /\ NoRequest \notin Requests
ASSUME KindsAssumption == Kinds \subseteq AllKinds
ASSUME LimitsAssumption == MaxConnections \in Nat /\ MaxPending \in Nat /\ MaxStops \in Nat

VARIABLES
    kind,           \* what each caller sends
    client,         \* the call as its caller sees it
    backlog,        \* connections the server thread has not accepted yet
    acceptor,       \* the connection the server thread is starting a handler for
    connFree,       \* _Server._connections
    handler,        \* where the handler thread of each request is
    response,       \* the response the handler has decided on
    cancelled,      \* requests whose _PendingCommand.cancelled is set
    started,        \* requests whose _PendingCommand.started is set
    completed,      \* requests whose _PendingCommand.completed is set
    result,         \* _PendingCommand.result or .error
    idle,           \* the idle sources of the GLib main context, in order
    mainReq,        \* the command the main thread is running
    mainAt,         \* where in run_on_main the main thread is
    pendingFree,    \* _pending_commands
    runs,           \* how often the host began each command
    up,             \* whether the plug-in process is running
    stops           \* how often it ended

clientVars == <<kind, client>>
serverVars == <<backlog, acceptor, connFree>>
handlerVars == <<handler, response>>
pendingVars == <<cancelled, started, completed, result>>
mainVars == <<mainReq, mainAt, runs>>
hostVars == <<up, stops>>
vars == <<clientVars, serverVars, handlerVars, pendingVars, idle, mainVars, pendingFree, hostVars>>

(* Responses by what they claim about the host. *)
NeverRan == {"malformed", "queueFull", "notPosted", "notStarted"}
Ran == {"value", "error"}
Responses == NeverRan \cup Ran \cup {"unknown", "badTimeout", "tooLarge"}

(* A call ends with a response or without one: the peer closed the         *)
(* connection, no connection could be made, or the caller's own socket     *)
(* timeout expired.                                                        *)
Ends == Responses \cup {"closed", "unavailable", "gaveUp"}

HandlerPoints == {"none", "read", "dispatch", "post", "arm", "wait", "timedOut",
                  "reply", "close", "release", "done"}
Serving == HandlerPoints \ {"none", "done"}

Init ==
    /\ kind \in [Requests -> Kinds]
    /\ client = [r \in Requests |-> "idle"]
    /\ backlog = <<>>
    /\ acceptor = NoRequest
    /\ connFree = MaxConnections
    /\ handler = [r \in Requests |-> "none"]
    /\ response = [r \in Requests |-> "none"]
    /\ cancelled = {}
    /\ started = {}
    /\ completed = {}
    /\ result = [r \in Requests |-> "none"]
    /\ idle = <<>>
    /\ mainReq = NoRequest
    /\ mainAt = "ready"
    /\ pendingFree = MaxPending
    /\ runs = [r \in Requests |-> 0]
    /\ up = TRUE
    /\ stops = 0

-------------------------------------------------------------------------------
(* The client: GimpBridge.call. *)

(* Connects and sends the request; the listen backlog is bounded too. *)
Connect(r) ==
    /\ up
    /\ client[r] = "idle"
    /\ Len(backlog) < MaxConnections
    /\ client' = [client EXCEPT ![r] = "waiting"]
    /\ backlog' = Append(backlog, r)
    /\ UNCHANGED <<kind, acceptor, connFree, handlerVars, pendingVars, idle, mainVars,
                   pendingFree, hostVars>>

ConnectFails(r) ==
    /\ client[r] = "idle"
    /\ ~up \/ Len(backlog) = MaxConnections
    /\ client' = [client EXCEPT ![r] = "unavailable"]
    /\ UNCHANGED <<kind, serverVars, handlerVars, pendingVars, idle, mainVars, pendingFree,
                   hostVars>>

(* The socket timeout of the client: not tied to the one of the bridge. *)
GiveUp(r) ==
    /\ client[r] = "waiting"
    /\ client' = [client EXCEPT ![r] = "gaveUp"]
    /\ UNCHANGED <<kind, serverVars, handlerVars, pendingVars, idle, mainVars, pendingFree,
                   hostVars>>

(* What the client of r makes of e, if it still listens. *)
Hears(r, e) ==
    client' = [client EXCEPT ![r] = IF @ = "waiting" THEN e ELSE @]

-------------------------------------------------------------------------------
(* The server thread: serve_forever, _Server.process_request. *)

(* Mutant of Accept: the semaphore does not refuse. *)
AcceptAlways(r) ==
    /\ acceptor = NoRequest
    /\ backlog # <<>> /\ r = Head(backlog)
    /\ connFree' = connFree - 1
    /\ backlog' = Tail(backlog)
    /\ acceptor' = r
    /\ UNCHANGED <<clientVars, handlerVars, pendingVars, idle, mainVars, pendingFree, hostVars>>

Accept(r) ==
    /\ acceptor = NoRequest
    /\ backlog # <<>> /\ r = Head(backlog)
    /\ connFree > 0
    /\ connFree' = connFree - 1
    /\ backlog' = Tail(backlog)
    /\ acceptor' = r
    /\ UNCHANGED <<clientVars, handlerVars, pendingVars, idle, mainVars, pendingFree, hostVars>>

(* No free connection: the socket is shut down without a response. *)
RejectConnection(r) ==
    /\ acceptor = NoRequest
    /\ backlog # <<>> /\ r = Head(backlog)
    /\ connFree = 0
    /\ backlog' = Tail(backlog)
    /\ Hears(r, "closed")
    /\ UNCHANGED <<kind, acceptor, connFree, handlerVars, pendingVars, idle, mainVars,
                   pendingFree, hostVars>>

StartHandler(r) ==
    /\ acceptor = r
    /\ acceptor' = NoRequest
    /\ handler' = [handler EXCEPT ![r] = "read"]
    /\ UNCHANGED <<clientVars, backlog, connFree, response, pendingVars, idle, mainVars,
                   pendingFree, hostVars>>

(* Mutant of StartHandlerFails: the connection is not given back. *)
StartHandlerFailsLeaking(r) ==
    /\ acceptor = r
    /\ acceptor' = NoRequest
    /\ Hears(r, "closed")
    /\ UNCHANGED <<kind, backlog, connFree, handlerVars, pendingVars, idle, mainVars, pendingFree,
                   hostVars>>

(* The thread cannot be started: the connection is given back and closed. *)
StartHandlerFails(r) ==
    /\ acceptor = r
    /\ acceptor' = NoRequest
    /\ connFree' = connFree + 1
    /\ Hears(r, "closed")
    /\ UNCHANGED <<kind, backlog, handlerVars, pendingVars, idle, mainVars, pendingFree, hostVars>>

-------------------------------------------------------------------------------
(* The handler thread of r: _Handler.handle around _dispatch. *)

Goto(r, point) == handler' = [handler EXCEPT ![r] = point]

(* The handler decides on the response a and goes on to send it. *)
Answer(r, a) ==
    /\ Goto(r, "reply")
    /\ response' = [response EXCEPT ![r] = a]

ReadRequest(r) ==
    /\ handler[r] = "read"
    /\ kind[r] \in {"command", "badTimeout"}
    /\ Goto(r, "dispatch")
    /\ UNCHANGED <<clientVars, serverVars, response, pendingVars, idle, mainVars, pendingFree,
                   hostVars>>

(* Mutant of RejectRequest: the socket has no timeout. *)
RejectCompleteRequest(r) ==
    /\ handler[r] = "read"
    /\ kind[r] = "malformed"
    /\ Answer(r, "malformed")
    /\ UNCHANGED <<clientVars, serverVars, pendingVars, idle, mainVars, pendingFree, hostVars>>

(* Size, JSON, token, method and params are checked before any dispatch;   *)
(* a line that never completes runs into the 5 s socket timeout.           *)
RejectRequest(r) ==
    /\ handler[r] = "read"
    /\ kind[r] \in {"malformed", "silent"}
    /\ Answer(r, "malformed")
    /\ UNCHANGED <<clientVars, serverVars, pendingVars, idle, mainVars, pendingFree, hostVars>>

(* handle() ends without a response: end of file before the first byte, or *)
(* a token that cannot be compared.                                        *)
ReadNothing(r) ==
    /\ handler[r] = "read"
    /\ \/ kind[r] = "silent" /\ client[r] # "waiting"
       \/ kind[r] = "malformed"
    /\ Goto(r, "close")
    /\ UNCHANGED <<clientVars, serverVars, response, pendingVars, idle, mainVars, pendingFree,
                   hostVars>>

AcquireSlot(r) ==
    /\ handler[r] = "dispatch"
    /\ pendingFree > 0
    /\ pendingFree' = pendingFree - 1
    /\ Goto(r, "post")
    /\ UNCHANGED <<clientVars, serverVars, response, pendingVars, idle, mainVars, hostVars>>

QueueFull(r) ==
    /\ handler[r] = "dispatch"
    /\ pendingFree = 0
    /\ Answer(r, "queueFull")
    /\ UNCHANGED <<clientVars, serverVars, pendingVars, idle, mainVars, pendingFree, hostVars>>

Post(r) ==
    /\ handler[r] = "post"
    /\ idle' = Append(idle, r)
    /\ Goto(r, "arm")
    /\ UNCHANGED <<clientVars, serverVars, response, pendingVars, mainVars, pendingFree, hostVars>>

(* Mutant of PostFails: the slot is not given back. *)
PostFailsLeaking(r) ==
    /\ handler[r] = "post"
    /\ Answer(r, "notPosted")
    /\ UNCHANGED <<clientVars, serverVars, pendingVars, idle, mainVars, pendingFree, hostVars>>

(* Mutant of PostFails: the idle source is attached nevertheless. *)
PostFailsLate(r) ==
    /\ handler[r] = "post"
    /\ idle' = Append(idle, r)
    /\ Answer(r, "notPosted")
    /\ UNCHANGED <<clientVars, serverVars, pendingVars, mainVars, pendingFree, hostVars>>

(* GLib.idle_add raises: the slot is given back. *)
PostFails(r) ==
    /\ handler[r] = "post"
    /\ pendingFree' = pendingFree + 1
    /\ Answer(r, "notPosted")
    /\ UNCHANGED <<clientVars, serverVars, pendingVars, idle, mainVars, hostVars>>

(* _command_timeout is evaluated when the command is queued already. *)
ArmTimeout(r) ==
    /\ handler[r] = "arm"
    /\ kind[r] = "command"
    /\ Goto(r, "wait")
    /\ UNCHANGED <<clientVars, serverVars, response, pendingVars, idle, mainVars, pendingFree,
                   hostVars>>

RejectTimeout(r) ==
    /\ handler[r] = "arm"
    /\ kind[r] = "badTimeout"
    /\ Answer(r, "badTimeout")
    /\ UNCHANGED <<clientVars, serverVars, pendingVars, idle, mainVars, pendingFree, hostVars>>

TakeResult(r) ==
    /\ handler[r] = "wait"
    /\ r \in completed
    /\ Answer(r, result[r])
    /\ UNCHANGED <<clientVars, serverVars, pendingVars, idle, mainVars, pendingFree, hostVars>>

(* Mutant of WaitTimesOut: wait() is called without a timeout. *)
WaitForever(r) ==
    /\ handler[r] = "wait"
    /\ r \in completed
    /\ Goto(r, "timedOut")
    /\ UNCHANGED <<clientVars, serverVars, response, pendingVars, idle, mainVars, pendingFree,
                   hostVars>>

(* completed.wait returns False; the lock is not taken yet. *)
WaitTimesOut(r) ==
    /\ handler[r] = "wait"
    /\ r \notin completed
    /\ Goto(r, "timedOut")
    /\ UNCHANGED <<clientVars, serverVars, response, pendingVars, idle, mainVars, pendingFree,
                   hostVars>>

(* Mutant of Cancel: the flag is not set. *)
CancelForgotten(r) ==
    /\ handler[r] = "timedOut"
    /\ r \notin started
    /\ Answer(r, "notStarted")
    /\ UNCHANGED <<clientVars, serverVars, pendingVars, idle, mainVars, pendingFree, hostVars>>

(* Under the lock: a command that has not started is cancelled ... *)
Cancel(r) ==
    /\ handler[r] = "timedOut"
    /\ r \notin started
    /\ cancelled' = cancelled \cup {r}
    /\ Answer(r, "notStarted")
    /\ UNCHANGED <<clientVars, serverVars, started, completed, result, idle, mainVars,
                   pendingFree, hostVars>>

(* ... and the outcome of one that has is not known. *)
ReportUnknown(r) ==
    /\ handler[r] = "timedOut"
    /\ r \in started
    /\ Answer(r, "unknown")
    /\ UNCHANGED <<clientVars, serverVars, pendingVars, idle, mainVars, pendingFree, hostVars>>

SendResponse(r) ==
    /\ handler[r] = "reply"
    /\ Hears(r, response[r])
    /\ Goto(r, "close")
    /\ UNCHANGED <<kind, serverVars, response, pendingVars, idle, mainVars, pendingFree, hostVars>>

(* The encoded result exceeds MAX_RESPONSE_BYTES: an error replaces it. *)
SendTooLarge(r) ==
    /\ handler[r] = "reply"
    /\ response[r] = "value"
    /\ Hears(r, "tooLarge")
    /\ Goto(r, "close")
    /\ response' = [response EXCEPT ![r] = "tooLarge"]
    /\ UNCHANGED <<kind, serverVars, pendingVars, idle, mainVars, pendingFree, hostVars>>

(* sendall raises OSError, or the response cannot be encoded. *)
SendFails(r) ==
    /\ handler[r] = "reply"
    /\ Goto(r, "close")
    /\ UNCHANGED <<clientVars, serverVars, response, pendingVars, idle, mainVars, pendingFree,
                   hostVars>>

(* process_request_thread closes the connection, then gives it back. *)
CloseConnection(r) ==
    /\ handler[r] = "close"
    /\ Hears(r, "closed")
    /\ Goto(r, "release")
    /\ UNCHANGED <<kind, serverVars, response, pendingVars, idle, mainVars, pendingFree, hostVars>>

ReleaseConnection(r) ==
    /\ handler[r] = "release"
    /\ connFree' = connFree + 1
    /\ Goto(r, "done")
    /\ UNCHANGED <<clientVars, backlog, acceptor, response, pendingVars, idle, mainVars,
                   pendingFree, hostVars>>

-------------------------------------------------------------------------------
(* The GLib main thread: run_on_main for the oldest idle source. *)

(* Mutant of MainBegin: cancelled is not looked at. *)
MainBeginAnyway(r) ==
    /\ mainReq = NoRequest
    /\ idle # <<>> /\ r = Head(idle)
    /\ idle' = Tail(idle)
    /\ started' = started \cup {r}
    /\ runs' = [runs EXCEPT ![r] = @ + 1]
    /\ mainReq' = r
    /\ mainAt' = "execute"
    /\ UNCHANGED <<clientVars, serverVars, handlerVars, cancelled, completed, result,
                   pendingFree, hostVars>>

MainBegin(r) ==
    /\ mainReq = NoRequest
    /\ idle # <<>> /\ r = Head(idle)
    /\ r \notin cancelled
    /\ idle' = Tail(idle)
    /\ started' = started \cup {r}
    /\ runs' = [runs EXCEPT ![r] = @ + 1]
    /\ mainReq' = r
    /\ mainAt' = "execute"
    /\ UNCHANGED <<clientVars, serverVars, handlerVars, cancelled, completed, result,
                   pendingFree, hostVars>>

(* Mutant of MainSkip: the early return misses the finally clause. *)
MainSkipLeaking(r) ==
    /\ mainReq = NoRequest
    /\ idle # <<>> /\ r = Head(idle)
    /\ r \in cancelled
    /\ idle' = Tail(idle)
    /\ UNCHANGED <<clientVars, serverVars, handlerVars, pendingVars, mainVars, pendingFree,
                   hostVars>>

(* A cancelled command still runs the finally clause. *)
MainSkip(r) ==
    /\ mainReq = NoRequest
    /\ idle # <<>> /\ r = Head(idle)
    /\ r \in cancelled
    /\ idle' = Tail(idle)
    /\ mainReq' = r
    /\ mainAt' = "complete"
    /\ UNCHANGED <<clientVars, serverVars, handlerVars, pendingVars, runs, pendingFree, hostVars>>

(* _execute_command returns a value or raises. *)
MainExecute(r) ==
    /\ mainReq = r
    /\ mainAt = "execute"
    /\ \E outcome \in Ran : result' = [result EXCEPT ![r] = outcome]
    /\ mainAt' = "complete"
    /\ UNCHANGED <<clientVars, serverVars, handlerVars, cancelled, started, completed, idle,
                   mainReq, runs, pendingFree, hostVars>>

(* Mutant of MainComplete: nobody is woken. *)
MainCompleteSilently(r) ==
    /\ mainReq = r
    /\ mainAt = "complete"
    /\ mainAt' = "release"
    /\ UNCHANGED <<clientVars, serverVars, handlerVars, pendingVars, idle, mainReq, runs,
                   pendingFree, hostVars>>

MainComplete(r) ==
    /\ mainReq = r
    /\ mainAt = "complete"
    /\ completed' = completed \cup {r}
    /\ mainAt' = "release"
    /\ UNCHANGED <<clientVars, serverVars, handlerVars, cancelled, started, result, idle,
                   mainReq, runs, pendingFree, hostVars>>

MainRelease(r) ==
    /\ mainReq = r
    /\ mainAt = "release"
    /\ pendingFree' = pendingFree + 1
    /\ mainReq' = NoRequest
    /\ mainAt' = "ready"
    /\ UNCHANGED <<clientVars, serverVars, handlerVars, pendingVars, idle, runs, hostVars>>

-------------------------------------------------------------------------------
(* The host process ends: its daemon threads, its queue and its semaphores *)
(* go with it, and every open connection is closed.                        *)
HostStops ==
    /\ up
    /\ stops < MaxStops
    /\ up' = FALSE
    /\ stops' = stops + 1
    /\ client' = [r \in Requests |-> IF client[r] = "waiting" THEN "closed" ELSE client[r]]
    /\ handler' = [r \in Requests |-> IF handler[r] \in Serving THEN "done" ELSE handler[r]]
    /\ backlog' = <<>>
    /\ acceptor' = NoRequest
    /\ connFree' = MaxConnections
    /\ idle' = <<>>
    /\ mainReq' = NoRequest
    /\ mainAt' = "ready"
    /\ pendingFree' = MaxPending
    /\ UNCHANGED <<kind, response, pendingVars, runs>>

HostStarts ==
    /\ ~up
    /\ up' = TRUE
    /\ UNCHANGED <<clientVars, serverVars, handlerVars, pendingVars, idle, mainVars, pendingFree,
                   stops>>

-------------------------------------------------------------------------------
Client(r) == Connect(r) \/ ConnectFails(r) \/ GiveUp(r)

Server(r) == Accept(r) \/ RejectConnection(r) \/ StartHandler(r) \/ StartHandlerFails(r)

Handler(r) ==
    \/ ReadRequest(r) \/ RejectRequest(r) \/ ReadNothing(r)
    \/ AcquireSlot(r) \/ QueueFull(r) \/ Post(r) \/ PostFails(r)
    \/ ArmTimeout(r) \/ RejectTimeout(r)
    \/ TakeResult(r) \/ WaitTimesOut(r) \/ Cancel(r) \/ ReportUnknown(r)
    \/ SendResponse(r) \/ SendTooLarge(r) \/ SendFails(r)
    \/ CloseConnection(r) \/ ReleaseConnection(r)

Main(r) == MainBegin(r) \/ MainSkip(r) \/ MainExecute(r) \/ MainComplete(r) \/ MainRelease(r)

Next ==
    \/ \E r \in Requests : Client(r) \/ Server(r) \/ Handler(r) \/ Main(r)
    \/ HostStops
    \/ HostStarts

Spec == Init /\ [][Next]_vars

(* The operating system runs the server thread and every handler thread,   *)
(* and all their waits are bounded.  Nothing is assumed of the callers or  *)
(* of the main thread, which a native dialog or a long filter may block.   *)
ThreadFairness ==
    /\ WF_vars(\E r \in Requests : Server(r))
    /\ \A r \in Requests : WF_vars(Handler(r))

ThreadSpec == Spec /\ ThreadFairness

(* The main loop keeps dispatching its idle sources: assumed only where a  *)
(* property says so.                                                       *)
LoopFairness == WF_vars(\E r \in Requests : Main(r))

-------------------------------------------------------------------------------
TypeOK ==
    /\ kind \in [Requests -> Kinds]
    /\ client \in [Requests -> Ends \cup {"idle", "waiting"}]
    /\ backlog \in Seq(Requests)
    /\ acceptor \in Requests \cup {NoRequest}
    /\ connFree \in Nat
    /\ handler \in [Requests -> HandlerPoints]
    /\ response \in [Requests -> Responses \cup {"none"}]
    /\ cancelled \subseteq Requests
    /\ started \subseteq Requests
    /\ completed \subseteq Requests
    /\ result \in [Requests -> Ran \cup {"none"}]
    /\ idle \in Seq(Requests)
    /\ mainReq \in Requests \cup {NoRequest}
    /\ mainAt \in {"ready", "execute", "complete", "release"}
    /\ pendingFree \in Nat
    /\ runs \in [Requests -> Nat]
    /\ up \in BOOLEAN
    /\ stops \in Nat

(* The requests in the idle queue and in the listen backlog. *)
Queued == Range(idle)
Backlogged == Range(backlog)

(* The requests that own a slot of _pending_commands. *)
SlotHolders ==
    {r \in Requests : handler[r] = "post" \/ r \in Queued \/ mainReq = r}

(* The requests that own a connection of the server. *)
ConnectionHolders ==
    {r \in Requests : handler[r] \in Serving \/ acceptor = r}

(* The queue bound: each free or owned slot of _pending_commands counts    *)
(* once, through refusals, failed posts, cancellations and host restarts;  *)
(* no path of _dispatch and run_on_main leaks a slot or frees one twice.   *)
SlotsAccounted == pendingFree + Cardinality(SlotHolders) = MaxPending

(* The same for the connections of _Server: a rejected connection, a       *)
(* thread that did not start and every way out of handle() give back       *)
(* exactly what they took.                                                 *)
ConnectionsAccounted == connFree + Cardinality(ConnectionHolders) = MaxConnections

(* What a response says of the host is true, and stays true: a refused or  *)
(* cancelled command never begins, a result comes from a command that ran  *)
(* once to its end, an unknown outcome from one that did begin.            *)
ResponseIsTrue ==
    \A r \in Requests :
        /\ response[r] \in NeverRan => runs[r] = 0
        /\ response[r] \in Ran \cup {"tooLarge"} => runs[r] = 1 /\ result[r] # "none"
        /\ response[r] = "unknown" => runs[r] = 1

(* A handler that waits has somebody to wake it: its command is queued, on *)
(* the main thread, or complete.  A command is never dropped on the floor. *)
WaitIsJustified ==
    \A r \in Requests :
        handler[r] \in {"arm", "wait"} => r \in Queued \cup {mainReq} \cup completed

-------------------------------------------------------------------------------
(* Why these hold: an inductive invariant, by the stages of a request. *)

(* A request is queued once, and reaches one handler. *)
Admission(r) ==
    /\ client[r] = "idle" => r \notin Backlogged /\ acceptor # r
    /\ client[r] = "idle" \/ r \in Backlogged \/ acceptor = r => handler[r] = "none"
    /\ acceptor = r => r \notin Backlogged

(* Before it is posted a command has left no trace; while its handler      *)
(* watches it, it is somewhere and nothing is decided.                     *)
Watch(r) ==
    /\ handler[r] \in {"none", "read", "dispatch", "post"} =>
          /\ r \notin Queued \cup started \cup completed \cup cancelled
          /\ mainReq # r
          /\ response[r] = "none"
    /\ handler[r] \in {"arm", "wait", "timedOut"} =>
          /\ response[r] = "none"
          /\ r \notin cancelled
          /\ r \in Queued \/ mainReq = r \/ r \in completed
    /\ handler[r] = "reply" => response[r] # "none"

(* A queued command has not begun; on the main thread it is where mainAt   *)
(* says; started and cancelled exclude each other.                         *)
Execution(r) ==
    /\ runs[r] = IF r \in started THEN 1 ELSE 0
    /\ r \in started => r \notin cancelled
    /\ result[r] # "none" => r \in started
    /\ r \in Queued => r \notin started /\ r \notin completed /\ mainReq # r
    /\ mainReq = r =>
          \/ mainAt = "execute" /\ r \in started /\ result[r] = "none" /\ r \notin completed
          \/ mainAt = "complete" /\ r \notin completed
          \/ mainAt = "release" /\ r \in completed
    /\ r \in completed \/ (mainReq = r /\ mainAt = "complete") =>
          r \in cancelled \/ result[r] # "none"

(* What each response says is backed by the state it was decided in. *)
Evidence(r) ==
    /\ response[r] \in {"malformed", "queueFull", "notPosted"} =>
          r \notin Queued \cup started /\ mainReq # r
    /\ response[r] = "notStarted" => r \in cancelled
    /\ response[r] \in Ran \cup {"tooLarge"} => result[r] # "none"
    /\ response[r] = "unknown" => r \in started
    /\ response[r] = "badTimeout" => kind[r] = "badTimeout"
    /\ client[r] \in Responses =>
          client[r] = response[r] /\ handler[r] \in {"close", "release", "done"}

Stages ==
    /\ IsInjective(idle) /\ IsInjective(backlog)
    /\ mainReq = NoRequest <=> mainAt = "ready"
    /\ \A r \in Requests : Admission(r) /\ Watch(r) /\ Execution(r) /\ Evidence(r)

IInv == TypeOK /\ Stages

-------------------------------------------------------------------------------
(* A command never begins after its caller was answered: the only answer   *)
(* given to a queued command cancels it.  (Requests whose timeout_secs is  *)
(* rejected break this: see BoundedThenMarshalled.)                        *)
NoLateStart ==
    [][\A r \in Requests :
          kind[r] # "badTimeout" /\ runs'[r] # runs[r] => response[r] = "none"]_vars

(* README: the bridge bounds the execution time, "then marshals every host *)
(* operation": a request whose time bound is refused does not run.         *)
BoundedThenMarshalled ==
    \A r \in Requests : response[r] = "badTimeout" => runs[r] = 0

(* Every call that reached the bridge ends, even if the main thread never  *)
(* runs again: the handlers' waits are bounded and each closes its socket. *)
EveryCallEnds == \A r \in Requests : client[r] = "waiting" ~> client[r] # "waiting"

(* Connections come back even if the main thread never runs again. *)
ConnectionsComeBack == <>[](connFree = MaxConnections)

(* When the main loop runs, so do the slots, those of cancelled commands   *)
(* and of callers long gone included.                                      *)
SlotsComeBack == LoopFairness => <>[](pendingFree = MaxPending)

-------------------------------------------------------------------------------
(* The call as HostCall describes it. *)

Refused(r) == response[r] \in NeverRan

PhaseOf(r) ==
    CASE runs[r] > 0 /\ result[r] # "none" -> "done"
      [] runs[r] > 0 /\ result[r] = "none" /\ mainReq = r -> "running"
      [] runs[r] > 0 /\ result[r] = "none" /\ mainReq # r -> "lost"
      [] runs[r] = 0 /\ Refused(r) -> "barred"
      [] runs[r] = 0 /\ ~Refused(r) -> "offered"

OutcomeOf(r) ==
    CASE client[r] \in {"idle", "waiting"} -> "none"
      [] client[r] \in Ran -> "done"
      [] client[r] \in NeverRan -> "refused"
      [] OTHER -> "unknown"

Call == INSTANCE HostCall WITH phase <- [r \in Requests |-> PhaseOf(r)],
                               outcome <- [r \in Requests |-> OutcomeOf(r)]

(* The bridge implements the abstract call: at most one run, one command   *)
(* at a time, and truthful outcomes for every caller.                      *)
ImplementsHostCall == Call!HostSpec
===============================================================================
