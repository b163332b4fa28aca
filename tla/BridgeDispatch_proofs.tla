------------------------- MODULE BridgeDispatch_proofs -------------------------
(***************************************************************************)
(* Theorems about BridgeDispatch, for every number of requests,            *)
(* connections and slots.                                                  *)
(***************************************************************************)
EXTENDS BridgeDispatch, FiniteSetTheorems, TLAPS

(* Appending an element adds it to the elements of a queue, and keeps them *)
(* distinct if it is new: Post and Connect.                                *)
LEMMA AppendElements ==
    ASSUME NEW S, NEW s \in Seq(S), NEW e \in S
    PROVE  /\ Append(s, e) \in Seq(S)
           /\ Range(Append(s, e)) = Range(s) \cup {e}
           /\ IsInjective(s) /\ e \notin Range(s) => IsInjective(Append(s, e))
<1>1. /\ Append(s, e) \in Seq(S)
      /\ Len(Append(s, e)) = Len(s) + 1
      /\ \A i \in 1..Len(s) : Append(s, e)[i] = s[i]
      /\ Append(s, e)[Len(s) + 1] = e
      /\ Len(s) \in Nat
  OBVIOUS
<1>2. DOMAIN s = 1..Len(s) /\ DOMAIN Append(s, e) = 1..(Len(s) + 1)
  BY <1>1
<1>3. Range(Append(s, e)) = Range(s) \cup {e}
  BY <1>1, <1>2, SMT DEF Range
<1>4. IsInjective(s) /\ e \notin Range(s) => IsInjective(Append(s, e))
  BY <1>1, <1>2, SMT DEF Range, IsInjective
<1> QED BY <1>1, <1>3, <1>4

(* Taking the head of a queue of distinct elements removes it from them:   *)
(* Accept, RejectConnection, MainBegin and MainSkip.                       *)
LEMMA TailElements ==
    ASSUME NEW S, NEW s \in Seq(S), s # <<>>
    PROVE  /\ Tail(s) \in Seq(S)
           /\ Head(s) \in S
           /\ Head(s) \in Range(s)
           /\ IsInjective(s) => /\ IsInjective(Tail(s))
                                /\ Range(Tail(s)) = Range(s) \ {Head(s)}
<1>1. /\ Tail(s) \in Seq(S)
      /\ Head(s) \in S
      /\ Head(s) = s[1]
      /\ Len(s) \in Nat /\ Len(s) > 0
      /\ Len(Tail(s)) = Len(s) - 1
      /\ \A i \in 1..Len(Tail(s)) : Tail(s)[i] = s[i + 1]
  OBVIOUS
<1>2. DOMAIN s = 1..Len(s) /\ DOMAIN Tail(s) = 1..Len(Tail(s))
  BY <1>1
<1>3. Head(s) \in Range(s)
  BY <1>1, <1>2, SMT DEF Range
<1>4. ASSUME IsInjective(s)
      PROVE  IsInjective(Tail(s)) /\ Range(Tail(s)) = Range(s) \ {Head(s)}
  <2>1. IsInjective(Tail(s))
    BY <1>1, <1>2, <1>4, SMT DEF IsInjective
  <2>2. ASSUME NEW e \in Range(Tail(s))
        PROVE  e \in Range(s) \ {Head(s)}
    <3>1. PICK i \in 1..Len(Tail(s)) : e = Tail(s)[i]
      BY <1>2 DEF Range
    <3>2. i + 1 \in 1..Len(s) /\ e = s[i + 1] /\ i + 1 # 1 /\ 1 \in 1..Len(s)
      BY <1>1, <3>1, SMT
    <3> QED BY <1>1, <1>2, <1>4, <3>2 DEF Range, IsInjective
  <2>3. ASSUME NEW e \in Range(s) \ {Head(s)}
        PROVE  e \in Range(Tail(s))
    <3>1. PICK i \in 1..Len(s) : e = s[i]
      BY <1>2 DEF Range
    <3>2. i - 1 \in 1..Len(Tail(s)) /\ e = Tail(s)[i - 1]
      BY <1>1, <3>1, SMT
    <3> QED BY <1>2, <3>2 DEF Range
  <2> QED BY <2>1, <2>2, <2>3
<1> QED BY <1>1, <1>3, <1>4

(* The empty queue has no elements: Init and HostStops. *)
LEMMA EmptyElements ==
    ASSUME NEW S
    PROVE  <<>> \in Seq(S) /\ Range(<<>>) = {} /\ IsInjective(<<>>)
BY SMT DEF Range, IsInjective

(* The invariant holds when the plug-in starts. *)
LEMMA InitInvariant == Init => IInv
<1> SUFFICES ASSUME Init PROVE IInv
  OBVIOUS
<1>1. /\ <<>> \in Seq(Requests) /\ Range(<<>>) = {} /\ IsInjective(<<>>)
      /\ NoRequest \notin Requests /\ MaxConnections \in Nat /\ MaxPending \in Nat
  BY EmptyElements, RequestsAssumption, LimitsAssumption
<1> QED BY <1>1 DEF Init, IInv, TypeOK, Stages, Admission, Watch, Execution,
         Evidence, Queued, Backlogged, Ends, Responses, NeverRan, Ran,
         HandlerPoints

(* No step of a caller disturbs the invariant. *)
LEMMA ClientStep ==
    ASSUME IInv, NEW r \in Requests, Client(r)
    PROVE  IInv'
<1> USE RequestsAssumption
        DEF vars, clientVars, serverVars, handlerVars, pendingVars, mainVars, hostVars,
            IInv, TypeOK, Stages, Admission, Watch, Execution, Evidence, Queued, Backlogged,
            Ends, Responses, NeverRan, Ran, HandlerPoints, Serving
<1>1. CASE Connect(r)
  <2>1. /\ backlog' \in Seq(Requests)
        /\ Range(backlog') = Range(backlog) \cup {r}
        /\ IsInjective(backlog')
    BY <1>1, AppendElements DEF Connect
  <2> QED BY <1>1, <2>1 DEF Connect
<1>2. CASE ConnectFails(r)
  BY <1>2, SMT DEF ConnectFails
<1>3. CASE GiveUp(r)
  BY <1>3, SMT DEF GiveUp
<1> QED BY <1>1, <1>2, <1>3 DEF Client

(* Nor does one of the server thread. *)
LEMMA ServerStep ==
    ASSUME IInv, NEW r \in Requests, Server(r)
    PROVE  IInv'
<1> USE RequestsAssumption
        DEF vars, clientVars, serverVars, handlerVars, pendingVars, mainVars, hostVars,
            IInv, TypeOK, Stages, Admission, Watch, Execution, Evidence, Queued, Backlogged,
            Ends, Responses, NeverRan, Ran, HandlerPoints, Serving
<1>1. CASE Accept(r)
  <2>1. /\ backlog' \in Seq(Requests)
        /\ r \in Range(backlog)
        /\ Range(backlog') = Range(backlog) \ {r}
        /\ IsInjective(backlog')
    BY <1>1, TailElements DEF Accept
  <2> QED BY <1>1, <2>1 DEF Accept
<1>2. CASE RejectConnection(r)
  <2>1. /\ backlog' \in Seq(Requests)
        /\ r \in Range(backlog)
        /\ Range(backlog') = Range(backlog) \ {r}
        /\ IsInjective(backlog')
    BY <1>2, TailElements DEF RejectConnection
  <2> QED BY <1>2, <2>1 DEF RejectConnection, Hears
<1>3. CASE StartHandler(r)
  BY <1>3, SMT DEF StartHandler
<1>4. CASE StartHandlerFails(r)
  BY <1>4, SMT DEF StartHandlerFails, Hears
<1> QED BY <1>1, <1>2, <1>3, <1>4 DEF Server

(* Nor one of a handler thread. *)
LEMMA HandlerStep ==
    ASSUME IInv, NEW r \in Requests, Handler(r)
    PROVE  IInv'
<1> USE RequestsAssumption
        DEF vars, clientVars, serverVars, handlerVars, pendingVars, mainVars, hostVars,
            IInv, TypeOK, Stages, Admission, Watch, Execution, Evidence, Queued, Backlogged,
            Ends, Responses, NeverRan, Ran, HandlerPoints, Serving
<1>1. CASE ReadRequest(r)
  BY <1>1, SMT DEF ReadRequest, Goto
<1>2. CASE RejectRequest(r)
  BY <1>2, SMT DEF RejectRequest, Answer, Goto
<1>3. CASE ReadNothing(r)
  BY <1>3, SMT DEF ReadNothing, Goto
<1>4. CASE AcquireSlot(r)
  BY <1>4, SMT DEF AcquireSlot, Goto
<1>5. CASE QueueFull(r)
  BY <1>5, SMT DEF QueueFull, Answer, Goto
<1>6. CASE Post(r)
  <2>1. /\ idle' \in Seq(Requests)
        /\ Range(idle') = Range(idle) \cup {r}
        /\ IsInjective(idle')
    BY <1>6, AppendElements DEF Post
  <2> QED BY <1>6, <2>1 DEF Post, Goto
<1>7. CASE PostFails(r)
  BY <1>7, SMT DEF PostFails, Answer, Goto
<1>8. CASE ArmTimeout(r)
  BY <1>8, SMT DEF ArmTimeout, Goto
<1>9. CASE RejectTimeout(r)
  BY <1>9, SMT DEF RejectTimeout, Answer, Goto
<1>10. CASE TakeResult(r)
  BY <1>10, SMT DEF TakeResult, Answer, Goto
<1>11. CASE WaitTimesOut(r)
  BY <1>11, SMT DEF WaitTimesOut, Goto
<1>12. CASE Cancel(r)
  BY <1>12, SMT DEF Cancel, Answer, Goto
<1>13. CASE ReportUnknown(r)
  BY <1>13, SMT DEF ReportUnknown, Answer, Goto
<1>14. CASE SendResponse(r)
  BY <1>14, SMT DEF SendResponse, Hears, Goto
<1>15. CASE SendTooLarge(r)
  BY <1>15, SMT DEF SendTooLarge, Hears, Goto
<1>16. CASE SendFails(r)
  BY <1>16, SMT DEF SendFails, Goto
<1>17. CASE CloseConnection(r)
  BY <1>17, SMT DEF CloseConnection, Hears, Goto
<1>18. CASE ReleaseConnection(r)
  BY <1>18, SMT DEF ReleaseConnection, Goto
<1> QED BY <1>1, <1>2, <1>3, <1>4, <1>5, <1>6, <1>7, <1>8, <1>9, <1>10, <1>11,
         <1>12, <1>13, <1>14, <1>15, <1>16, <1>17, <1>18 DEF Handler

(* Nor one of the main thread. *)
LEMMA MainStep ==
    ASSUME IInv, NEW r \in Requests, Main(r)
    PROVE  IInv'
<1> USE RequestsAssumption
        DEF vars, clientVars, serverVars, handlerVars, pendingVars, mainVars, hostVars,
            IInv, TypeOK, Stages, Admission, Watch, Execution, Evidence, Queued, Backlogged,
            Ends, Responses, NeverRan, Ran, HandlerPoints, Serving
<1>1. CASE MainBegin(r)
  <2>1. /\ idle' \in Seq(Requests)
        /\ r \in Range(idle)
        /\ Range(idle') = Range(idle) \ {r}
        /\ IsInjective(idle')
    BY <1>1, TailElements DEF MainBegin
  <2> QED BY <1>1, <2>1 DEF MainBegin
<1>2. CASE MainSkip(r)
  <2>1. /\ idle' \in Seq(Requests)
        /\ r \in Range(idle)
        /\ Range(idle') = Range(idle) \ {r}
        /\ IsInjective(idle')
    BY <1>2, TailElements DEF MainSkip
  <2> QED BY <1>2, <2>1 DEF MainSkip
<1>3. CASE MainExecute(r)
  BY <1>3, SMT DEF MainExecute
<1>4. CASE MainComplete(r)
  BY <1>4, SMT DEF MainComplete
<1>5. CASE MainRelease(r)
  BY <1>5, SMT DEF MainRelease
<1> QED BY <1>1, <1>2, <1>3, <1>4, <1>5 DEF Main

(* Nor the end and the restart of the host. *)
LEMMA HostStep ==
    ASSUME IInv, HostStops \/ HostStarts
    PROVE  IInv'
<1> USE RequestsAssumption
        DEF vars, clientVars, serverVars, handlerVars, pendingVars, mainVars, hostVars,
            IInv, TypeOK, Stages, Admission, Watch, Execution, Evidence, Queued, Backlogged,
            Ends, Responses, NeverRan, Ran, HandlerPoints, Serving
<1>1. CASE HostStops
  <2>1. <<>> \in Seq(Requests) /\ Range(<<>>) = {} /\ IsInjective(<<>>)
    BY EmptyElements
  <2>2. TypeOK'
    <3>1. client' \in [Requests -> Ends \cup {"idle", "waiting"}]
      BY <1>1 DEF HostStops
    <3>2. handler' \in [Requests -> HandlerPoints]
      BY <1>1 DEF HostStops
    <3>3. connFree' \in Nat /\ pendingFree' \in Nat /\ stops' \in Nat
      BY <1>1, LimitsAssumption DEF HostStops
    <3> QED BY <1>1, <2>1, <3>1, <3>2, <3>3 DEF HostStops
  <2>3. ASSUME NEW r \in Requests
        PROVE  Admission(r)' /\ Watch(r)' /\ Execution(r)' /\ Evidence(r)'
    <3>1. /\ client'[r] = IF client[r] = "waiting" THEN "closed" ELSE client[r]
          /\ handler'[r] = IF handler[r] \in Serving THEN "done" ELSE handler[r]
          /\ Queued' = {} /\ Backlogged' = {} /\ acceptor' # r /\ mainReq' # r
          /\ UNCHANGED <<kind, response, cancelled, started, completed, result, runs>>
      BY <1>1, <2>1 DEF HostStops
    <3> QED BY <3>1, SMT
  <2> QED BY <1>1, <2>1, <2>2, <2>3 DEF HostStops
<1>2. CASE HostStarts
  BY <1>2 DEF HostStarts
<1> QED BY <1>1, <1>2

(* IInv is inductive. *)
LEMMA NextInvariant == IInv /\ [Next]_vars => IInv'
<1> SUFFICES ASSUME IInv, [Next]_vars PROVE IInv'
  OBVIOUS
<1>1. CASE Next
  BY <1>1, ClientStep, ServerStep, HandlerStep, MainStep, HostStep DEF Next
<1>2. CASE UNCHANGED vars
  BY <1>2, SMT DEF vars, clientVars, serverVars, handlerVars, pendingVars, mainVars, hostVars,
     IInv, TypeOK, Stages, Admission, Watch, Execution, Evidence, Queued, Backlogged
<1> QED BY <1>1, <1>2

(* The inductive invariant of the bridge, and with it the type invariant:  *)
(* every request passes through its stages in the order of the code, in    *)
(* every interleaving of callers, handler threads and the main thread, and *)
(* over restarts of the host.                                              *)
THEOREM StagesHold == Spec => []IInv
BY InitInvariant, NextInvariant, PTL DEF Spec

(* A request passes through its stages in the order of the code.           *)
THEOREM StagesInOrder == Spec => []Stages
<1>1. IInv => Stages
  BY DEF IInv
<1> QED BY <1>1, StagesHold, PTL

(* Type correctness of the bridge's state. *)
THEOREM TypeCorrect == Spec => []TypeOK
<1>1. IInv => TypeOK
  BY DEF IInv
<1> QED BY <1>1, StagesHold, PTL

(* No response lies: a refused or cancelled command never begins, a result *)
(* belongs to a command that ran once to its end, and an unknown outcome   *)
(* to one that began (_dispatch, run_on_main).                             *)
THEOREM ResponsesAreTrue == Spec => []ResponseIsTrue
<1>1. IInv => ResponseIsTrue
  BY SMT DEF IInv, TypeOK, Stages, Execution, Evidence, ResponseIsTrue, NeverRan, Ran
<1> QED BY <1>1, StagesHold, PTL

(* Whoever waits for a command waits for one that is queued, running or    *)
(* complete: no command is lost between idle_add and completed.set.        *)
THEOREM WaitsAreJustified == Spec => []WaitIsJustified
<1>1. IInv => WaitIsJustified
  BY SMT DEF IInv, Stages, Watch, WaitIsJustified
<1> QED BY <1>1, StagesHold, PTL

(***************************************************************************)
(* The semaphores.  A step leaves a semaphore and its holders alone, moves *)
(* one unit between them, or ends the host.                                *)
(***************************************************************************)

(* At most the unit of r moves: free and held before, free2 and held2 after. *)
Moved(r, free, held, free2, held2) ==
    \/ free2 = free /\ held2 = held
    \/ free > 0 /\ free2 = free - 1 /\ r \notin held /\ held2 = held \cup {r}
    \/ free2 = free + 1 /\ r \in held /\ held2 = held \ {r}

(* A unit moved between the free ones and the holders keeps their sum.     *)
LEMMA UnitMoved ==
    ASSUME NEW free \in Nat, NEW free2, NEW held \in SUBSET Requests, NEW held2,
           NEW r \in Requests, Moved(r, free, held, free2, held2)
    PROVE  free2 + Cardinality(held2) = free + Cardinality(held)
<1>1. IsFiniteSet(held) /\ Cardinality(held) \in Nat
  BY RequestsAssumption, FS_Subset, FS_CardinalityType
<1>2. r \notin held => Cardinality(held \cup {r}) = Cardinality(held) + 1
  BY <1>1, FS_AddElement
<1>3. r \in held => Cardinality(held \ {r}) = Cardinality(held) - 1
  BY <1>1, FS_RemoveElement
<1>4. \/ free2 = free /\ Cardinality(held2) = Cardinality(held)
      \/ free2 = free - 1 /\ Cardinality(held2) = Cardinality(held) + 1
      \/ free2 = free + 1 /\ Cardinality(held2) = Cardinality(held) - 1
  BY <1>2, <1>3, Zenon DEF Moved
<1> QED BY <1>1, <1>4

(* Only AcquireSlot takes a slot, only PostFails and MainRelease give one  *)
(* back, and each for a request that did not, or did, hold it.             *)
LEMMA SlotMoves ==
    ASSUME IInv, NEW r \in Requests, Client(r) \/ Server(r) \/ Handler(r) \/ Main(r)
    PROVE  Moved(r, pendingFree, SlotHolders, pendingFree', SlotHolders')
<1> USE RequestsAssumption
    DEF serverVars, clientVars, handlerVars, pendingVars, mainVars, hostVars,
        IInv, TypeOK, Stages, Watch, Execution, SlotHolders, Moved
<1>1. CASE Client(r) \/ Server(r)
  <2>1. UNCHANGED <<pendingFree, idle, mainReq>>
    BY <1>1 DEF Client, Connect, ConnectFails, GiveUp, Server, Accept, RejectConnection,
                StartHandler, StartHandlerFails
  <2>2. \A q \in Requests : handler'[q] = "post" <=> handler[q] = "post"
    BY <1>1, SMT DEF Client, Connect, ConnectFails, GiveUp, Server, Accept, RejectConnection,
                StartHandler, StartHandlerFails, Admission
  <2> QED BY <2>1, <2>2, SMT DEF Queued
<1>2. CASE AcquireSlot(r)
  BY <1>2, SMT DEF AcquireSlot, Goto, Queued
<1>3. CASE Post(r)
  <2>1. idle' \in Seq(Requests) /\ Queued' = Queued \cup {r}
    BY <1>3, AppendElements DEF Post, Queued
  <2> QED BY <1>3, <2>1, SMT DEF Post, Goto
<1>4. CASE PostFails(r)
  BY <1>4, SMT DEF PostFails, Answer, Goto, Queued
<1>5. CASE \/ ReadRequest(r) \/ RejectRequest(r) \/ ReadNothing(r) \/ QueueFull(r)
           \/ ArmTimeout(r) \/ RejectTimeout(r) \/ TakeResult(r) \/ WaitTimesOut(r)
           \/ Cancel(r) \/ ReportUnknown(r) \/ SendResponse(r) \/ SendTooLarge(r)
           \/ SendFails(r) \/ CloseConnection(r) \/ ReleaseConnection(r)
  <2>1. UNCHANGED <<pendingFree, idle, mainReq>>
    BY <1>5 DEF ReadRequest, RejectRequest, ReadNothing, QueueFull, ArmTimeout, RejectTimeout,
       TakeResult, WaitTimesOut, Cancel, ReportUnknown, SendResponse, SendTooLarge, SendFails,
       CloseConnection, ReleaseConnection
  <2>2. \A q \in Requests : handler'[q] = "post" <=> handler[q] = "post"
    BY <1>5, SMT DEF ReadRequest, RejectRequest, ReadNothing, QueueFull, ArmTimeout,
       RejectTimeout, TakeResult, WaitTimesOut, Cancel, ReportUnknown, SendResponse,
       SendTooLarge, SendFails, CloseConnection, ReleaseConnection, Answer, Goto
  <2> QED BY <2>1, <2>2, SMT DEF Queued
<1>6. CASE MainBegin(r) \/ MainSkip(r)
  <2>0. idle # <<>> /\ r = Head(idle) /\ idle' = Tail(idle) /\ mainReq = NoRequest /\ mainReq' = r
    BY <1>6 DEF MainBegin, MainSkip
  <2>1. r \in Queued /\ Queued' = Queued \ {r}
    BY <2>0, TailElements DEF Queued
  <2>2. UNCHANGED <<pendingFree, handler>>
    BY <1>6 DEF MainBegin, MainSkip
  <2> QED BY <2>0, <2>1, <2>2, SMT
<1>7. CASE MainExecute(r) \/ MainComplete(r)
  BY <1>7, SMT DEF MainExecute, MainComplete, Queued
<1>8. CASE MainRelease(r)
  BY <1>8, SMT DEF MainRelease, Queued
<1> QED BY <1>1, <1>2, <1>3, <1>4, <1>5, <1>6, <1>7, <1>8 DEF Handler, Main

(* Accept takes a connection; StartHandlerFails and ReleaseConnection give *)
(* theirs back.                                                            *)
LEMMA ConnectionMoves ==
    ASSUME IInv, NEW r \in Requests, Client(r) \/ Server(r) \/ Handler(r) \/ Main(r)
    PROVE  Moved(r, connFree, ConnectionHolders, connFree', ConnectionHolders')
<1> USE RequestsAssumption
    DEF serverVars, clientVars, handlerVars, pendingVars, mainVars, hostVars,
        IInv, TypeOK, Stages, Admission, ConnectionHolders, Serving, HandlerPoints, Moved
<1>1. CASE \/ Client(r) \/ Main(r) \/ RejectConnection(r)
  BY <1>1, SMT DEF Client, Connect, ConnectFails, GiveUp, RejectConnection,
              Main, MainBegin, MainSkip, MainExecute, MainComplete, MainRelease
<1>2. CASE Accept(r)
  <2>1. r \in Backlogged
    BY <1>2, TailElements DEF Accept, Backlogged
  <2> QED BY <1>2, <2>1, SMT DEF Accept
<1>3. CASE StartHandler(r)
  BY <1>3, SMT DEF StartHandler
<1>4. CASE StartHandlerFails(r)
  BY <1>4, SMT DEF StartHandlerFails
<1>5. CASE Handler(r) /\ ~ReleaseConnection(r)
  <2>1. UNCHANGED <<connFree, acceptor>>
    BY <1>5 DEF Handler, ReadRequest, RejectRequest, ReadNothing, AcquireSlot, QueueFull, Post,
       PostFails, ArmTimeout, RejectTimeout, TakeResult, WaitTimesOut, Cancel, ReportUnknown,
       SendResponse, SendTooLarge, SendFails, CloseConnection
  <2>2. \A q \in Requests : handler'[q] \in Serving <=> handler[q] \in Serving
    BY <1>5, SMT DEF Handler, ReadRequest, RejectRequest, ReadNothing, AcquireSlot, QueueFull,
       Post, PostFails, ArmTimeout, RejectTimeout, TakeResult, WaitTimesOut, Cancel,
       ReportUnknown, SendResponse, SendTooLarge, SendFails, CloseConnection, Answer, Goto
  <2> QED BY <2>1, <2>2
<1>6. CASE ReleaseConnection(r)
  BY <1>6, SMT DEF ReleaseConnection, Goto
<1> QED BY <1>1, <1>2, <1>3, <1>4, <1>5, <1>6 DEF Server

(* At the start, and when the host has ended, everything is free.          *)
LEMMA AllFree ==
    ASSUME SlotHolders = {}, ConnectionHolders = {},
           pendingFree = MaxPending, connFree = MaxConnections
    PROVE  SlotsAccounted /\ ConnectionsAccounted
BY LimitsAssumption, FS_EmptySet, SMT DEF SlotsAccounted, ConnectionsAccounted

(* Whatever the callers and the host do, each slot of the command queue    *)
(* and each connection is free or owned by exactly one request: at most    *)
(* MAX_PENDING_COMMANDS commands are queued or running, and none leaks.    *)
THEOREM BoundsHold == Spec => [](SlotsAccounted /\ ConnectionsAccounted)
<1> DEFINE Accounted == SlotsAccounted /\ ConnectionsAccounted
<1>1. Init => Accounted
  <2> SUFFICES ASSUME Init PROVE Accounted
    OBVIOUS
  <2>1. Queued = {}
    BY EmptyElements DEF Init, Queued
  <2>2. SlotHolders = {} /\ ConnectionHolders = {}
    BY <2>1, RequestsAssumption, SMT DEF Init, SlotHolders, ConnectionHolders, Serving
  <2> QED BY <2>2, AllFree DEF Init
<1>2. IInv /\ Accounted /\ [Next]_vars => Accounted'
  <2> SUFFICES ASSUME IInv, Accounted, [Next]_vars PROVE Accounted'
    OBVIOUS
  <2>1. SlotHolders \in SUBSET Requests /\ ConnectionHolders \in SUBSET Requests
    BY DEF SlotHolders, ConnectionHolders
  <2>2. ASSUME NEW r \in Requests, Client(r) \/ Server(r) \/ Handler(r) \/ Main(r)
        PROVE  Accounted'
    <3>1. pendingFree' + Cardinality(SlotHolders') = MaxPending
      BY <2>1, <2>2, SlotMoves, UnitMoved DEF IInv, TypeOK, SlotsAccounted
    <3>2. connFree' + Cardinality(ConnectionHolders') = MaxConnections
      BY <2>1, <2>2, ConnectionMoves, UnitMoved DEF IInv, TypeOK, ConnectionsAccounted
    <3> QED BY <3>1, <3>2 DEF SlotsAccounted, ConnectionsAccounted
  <2>3. CASE HostStops
    <3>1. Queued' = {} /\ mainReq' = NoRequest /\ acceptor' = NoRequest
      BY <2>3, EmptyElements DEF HostStops, Queued
    <3>2. \A r \in Requests : handler'[r] \notin Serving
      BY <2>3, SMT DEF HostStops, Serving
    <3>3. SlotHolders' = {} /\ ConnectionHolders' = {}
      BY <3>1, <3>2, RequestsAssumption, SMT
         DEF SlotHolders, ConnectionHolders, Serving, HandlerPoints
    <3>4. Cardinality(SlotHolders') = 0 /\ Cardinality(ConnectionHolders') = 0
      BY <3>3, FS_EmptySet
    <3> QED BY <2>3, <3>4, LimitsAssumption, SMT
            DEF HostStops, SlotsAccounted, ConnectionsAccounted
  <2>4. CASE HostStarts \/ UNCHANGED vars
    BY <2>4 DEF HostStarts, vars, clientVars, serverVars, handlerVars, pendingVars, mainVars,
       hostVars, SlotsAccounted, ConnectionsAccounted, SlotHolders, ConnectionHolders, Queued
  <2> QED BY <2>2, <2>3, <2>4 DEF Next
<1> QED BY <1>1, <1>2, StagesHold, PTL DEF Spec

(* No connection leaks, whether its handler starts, reads, answers or not  *)
(* (process_request, _dispatch).                                           *)
THEOREM ConnectionsHold == Spec => []ConnectionsAccounted
BY BoundsHold, PTL

(* Once the caller of a request was answered the host does not begin it,   *)
(* unless the answer was about its timeout_secs.                           *)
THEOREM NoStartsAfterAnswers == Spec => NoLateStart
<1>1. ASSUME IInv, [Next]_vars, NEW r \in Requests, kind[r] # "badTimeout", runs'[r] # runs[r]
      PROVE  response[r] = "none"
  <2>1. PICK q \in Requests : MainBegin(q)
    BY <1>1, SMT DEF Next, Client, Server, Handler, Main, Connect, ConnectFails, GiveUp, Accept,
       RejectConnection, StartHandler, StartHandlerFails, ReadRequest, RejectRequest,
       ReadNothing, AcquireSlot, QueueFull, Post, PostFails, ArmTimeout, RejectTimeout,
       TakeResult, WaitTimesOut, Cancel, ReportUnknown, SendResponse, SendTooLarge, SendFails,
       CloseConnection, ReleaseConnection, MainSkip, MainExecute, MainComplete, MainRelease,
       HostStops, HostStarts, vars, mainVars
  <2>2. r \in Queued /\ r \notin cancelled
    BY <1>1, <2>1, TailElements, SMT DEF MainBegin, IInv, TypeOK, Queued
  <2> QED BY <1>1, <2>2, SMT
          DEF IInv, TypeOK, Stages, Execution, Evidence, Responses, NeverRan, Ran
<1>2. IInv /\ [Next]_vars =>
        [\A r \in Requests :
            kind[r] # "badTimeout" /\ runs'[r] # runs[r] => response[r] = "none"]_vars
  BY <1>1
<1> QED BY <1>2, StagesHold, PTL DEF Spec, NoLateStart

(***************************************************************************)
(* The bridge implements HostCall.                                         *)
(***************************************************************************)

(* The abstract steps of one request, in terms of the mapping.             *)
AbstractStep(r) ==
    \/ PhaseOf(r)' = PhaseOf(r) /\ OutcomeOf(r)' = OutcomeOf(r)
    \/ /\ OutcomeOf(r)' = OutcomeOf(r)
       /\ \/ /\ PhaseOf(r) = "offered" /\ PhaseOf(r)' = "running"
             /\ \A q \in Requests : PhaseOf(q) # "running"
          \/ PhaseOf(r) = "running" /\ PhaseOf(r)' = "done"
          \/ PhaseOf(r) = "offered" /\ PhaseOf(r)' = "barred"
    \/ /\ PhaseOf(r)' = PhaseOf(r)
       /\ OutcomeOf(r) = "none" /\ OutcomeOf(r)' \in {"done", "refused", "unknown"}
       /\ OutcomeOf(r)' = "done" => PhaseOf(r) = "done"
       /\ OutcomeOf(r)' = "refused" => PhaseOf(r) = "barred"

Others(r) ==
    \A q \in Requests \ {r} : PhaseOf(q)' = PhaseOf(q) /\ OutcomeOf(q)' = OutcomeOf(q)

(* A step that takes r through an abstract step and leaves the others      *)
(* alone is a step of HostCall.                                            *)
LEMMA OneRequestSteps ==
    ASSUME NEW r \in Requests, AbstractStep(r), Others(r)
    PROVE  [Call!HostNext]_(Call!hostVars)
<1> DEFINE phases == [q \in Requests |-> PhaseOf(q)]
           outcomes == [q \in Requests |-> OutcomeOf(q)]
<1>1. phases' = [phases EXCEPT ![r] = PhaseOf(r)']
  BY DEF Others
<1>2. outcomes' = [outcomes EXCEPT ![r] = OutcomeOf(r)']
  BY DEF Others
<1>3. PhaseOf(r)' = PhaseOf(r) => phases' = phases
  BY <1>1
<1>4. OutcomeOf(r)' = OutcomeOf(r) => outcomes' = outcomes
  BY <1>2
<1>5. \A q \in Requests : phases[q] = PhaseOf(q) /\ outcomes[q] = OutcomeOf(q)
  OBVIOUS
<1> HIDE DEF phases, outcomes
<1>6. CASE PhaseOf(r)' = PhaseOf(r) /\ OutcomeOf(r)' = OutcomeOf(r)
  BY <1>3, <1>4, <1>6 DEF Call!hostVars, phases, outcomes
<1>7. CASE /\ OutcomeOf(r)' = OutcomeOf(r)
           /\ PhaseOf(r) = "offered" /\ PhaseOf(r)' = "running"
           /\ \A q \in Requests : PhaseOf(q) # "running"
  <2>1. Call!Begin(r)
    BY <1>1, <1>4, <1>5, <1>7 DEF Call!Begin, phases, outcomes
  <2> QED BY <2>1 DEF Call!HostNext
<1>8. CASE OutcomeOf(r)' = OutcomeOf(r) /\ PhaseOf(r) = "running" /\ PhaseOf(r)' = "done"
  <2>1. Call!Finish(r)
    BY <1>1, <1>4, <1>5, <1>8 DEF Call!Finish, phases, outcomes
  <2> QED BY <2>1 DEF Call!HostNext
<1>9. CASE OutcomeOf(r)' = OutcomeOf(r) /\ PhaseOf(r) = "offered" /\ PhaseOf(r)' = "barred"
  <2>1. Call!Bar(r)
    BY <1>1, <1>4, <1>5, <1>9 DEF Call!Bar, phases, outcomes
  <2> QED BY <2>1 DEF Call!HostNext
<1>10. CASE /\ PhaseOf(r)' = PhaseOf(r)
            /\ OutcomeOf(r) = "none" /\ OutcomeOf(r)' \in {"done", "refused", "unknown"}
            /\ OutcomeOf(r)' = "done" => PhaseOf(r) = "done"
            /\ OutcomeOf(r)' = "refused" => PhaseOf(r) = "barred"
  <2> DEFINE o == OutcomeOf(r)'
  <2>1. o \in Call!Outcomes \ {"none"}
    BY <1>10 DEF Call!Outcomes
  <2>2. Call!Return(r, o)
    BY <1>2, <1>3, <1>5, <1>10 DEF Call!Return, phases, outcomes
  <2> QED BY <2>1, <2>2 DEF Call!HostNext
<1> QED BY <1>6, <1>7, <1>8, <1>9, <1>10 DEF AbstractStep

(* Each step of the bridge is one of these. *)
LEMMA RequestImplements ==
    ASSUME IInv, IInv', NEW r \in Requests, Client(r) \/ Server(r) \/ Handler(r) \/ Main(r)
    PROVE  [Call!HostNext]_(Call!hostVars)
<1> USE RequestsAssumption
    DEF clientVars, serverVars, handlerVars, pendingVars, mainVars, hostVars,
        IInv, TypeOK, Stages, Admission, Watch, Execution, Evidence,
        Ends, Responses, NeverRan, Ran, PhaseOf, OutcomeOf, Refused, AbstractStep, Others
<1>1. CASE Client(r)
  <2>1. AbstractStep(r)
    BY <1>1, SMT DEF Client, Connect, ConnectFails, GiveUp
  <2>2. Others(r)
    BY <1>1, SMT DEF Client, Connect, ConnectFails, GiveUp
  <2> QED BY <2>1, <2>2, OneRequestSteps
<1>2. CASE Server(r)
  <2>1. AbstractStep(r)
    BY <1>2, SMT DEF Server, Accept, RejectConnection, StartHandler, StartHandlerFails, Hears
  <2>2. Others(r)
    BY <1>2, SMT DEF Server, Accept, RejectConnection, StartHandler, StartHandlerFails, Hears
  <2> QED BY <2>1, <2>2, OneRequestSteps
<1>3. CASE ReadRequest(r)
  <2>1. AbstractStep(r)
    BY <1>3, SMT DEF ReadRequest, Goto
  <2>2. Others(r)
    BY <1>3, SMT DEF ReadRequest, Goto
  <2> QED BY <2>1, <2>2, OneRequestSteps
<1>4. CASE RejectRequest(r)
  <2>1. AbstractStep(r)
    BY <1>4, SMT DEF RejectRequest, Goto, Answer
  <2>2. Others(r)
    BY <1>4, SMT DEF RejectRequest, Goto, Answer
  <2> QED BY <2>1, <2>2, OneRequestSteps
<1>5. CASE ReadNothing(r)
  <2>1. AbstractStep(r)
    BY <1>5, SMT DEF ReadNothing, Goto
  <2>2. Others(r)
    BY <1>5, SMT DEF ReadNothing, Goto
  <2> QED BY <2>1, <2>2, OneRequestSteps
<1>6. CASE AcquireSlot(r)
  <2>1. AbstractStep(r)
    BY <1>6, SMT DEF AcquireSlot, Goto
  <2>2. Others(r)
    BY <1>6, SMT DEF AcquireSlot, Goto
  <2> QED BY <2>1, <2>2, OneRequestSteps
<1>7. CASE QueueFull(r)
  <2>1. AbstractStep(r)
    BY <1>7, SMT DEF QueueFull, Goto, Answer
  <2>2. Others(r)
    BY <1>7, SMT DEF QueueFull, Goto, Answer
  <2> QED BY <2>1, <2>2, OneRequestSteps
<1>8. CASE Post(r)
  <2>1. AbstractStep(r)
    BY <1>8, SMT DEF Post, Goto
  <2>2. Others(r)
    BY <1>8, SMT DEF Post, Goto
  <2> QED BY <2>1, <2>2, OneRequestSteps
<1>9. CASE PostFails(r)
  <2>1. AbstractStep(r)
    BY <1>9, SMT DEF PostFails, Goto, Answer
  <2>2. Others(r)
    BY <1>9, SMT DEF PostFails, Goto, Answer
  <2> QED BY <2>1, <2>2, OneRequestSteps
<1>10. CASE ArmTimeout(r)
  <2>1. AbstractStep(r)
    BY <1>10, SMT DEF ArmTimeout, Goto
  <2>2. Others(r)
    BY <1>10, SMT DEF ArmTimeout, Goto
  <2> QED BY <2>1, <2>2, OneRequestSteps
<1>11. CASE RejectTimeout(r)
  <2>1. AbstractStep(r)
    BY <1>11, SMT DEF RejectTimeout, Goto, Answer
  <2>2. Others(r)
    BY <1>11, SMT DEF RejectTimeout, Goto, Answer
  <2> QED BY <2>1, <2>2, OneRequestSteps
<1>12. CASE TakeResult(r)
  <2>1. AbstractStep(r)
    BY <1>12, SMT DEF TakeResult, Goto, Answer
  <2>2. Others(r)
    BY <1>12, SMT DEF TakeResult, Goto, Answer
  <2> QED BY <2>1, <2>2, OneRequestSteps
<1>13. CASE WaitTimesOut(r)
  <2>1. AbstractStep(r)
    BY <1>13, SMT DEF WaitTimesOut, Goto
  <2>2. Others(r)
    BY <1>13, SMT DEF WaitTimesOut, Goto
  <2> QED BY <2>1, <2>2, OneRequestSteps
<1>14. CASE Cancel(r)
  <2>1. AbstractStep(r)
    BY <1>14, SMT DEF Cancel, Goto, Answer
  <2>2. Others(r)
    BY <1>14, SMT DEF Cancel, Goto, Answer
  <2> QED BY <2>1, <2>2, OneRequestSteps
<1>15. CASE ReportUnknown(r)
  <2>1. AbstractStep(r)
    BY <1>15, SMT DEF ReportUnknown, Goto, Answer
  <2>2. Others(r)
    BY <1>15, SMT DEF ReportUnknown, Goto, Answer
  <2> QED BY <2>1, <2>2, OneRequestSteps
<1>16. CASE SendResponse(r)
  <2>1. AbstractStep(r)
    BY <1>16, SMT DEF SendResponse, Goto, Hears
  <2>2. Others(r)
    BY <1>16, SMT DEF SendResponse, Goto, Hears
  <2> QED BY <2>1, <2>2, OneRequestSteps
<1>17. CASE SendTooLarge(r)
  <2>1. AbstractStep(r)
    BY <1>17, SMT DEF SendTooLarge, Goto, Hears
  <2>2. Others(r)
    BY <1>17, SMT DEF SendTooLarge, Goto, Hears
  <2> QED BY <2>1, <2>2, OneRequestSteps
<1>18. CASE SendFails(r)
  <2>1. AbstractStep(r)
    BY <1>18, SMT DEF SendFails, Goto
  <2>2. Others(r)
    BY <1>18, SMT DEF SendFails, Goto
  <2> QED BY <2>1, <2>2, OneRequestSteps
<1>19. CASE CloseConnection(r)
  <2>1. AbstractStep(r)
    BY <1>19, SMT DEF CloseConnection, Goto, Hears
  <2>2. Others(r)
    BY <1>19, SMT DEF CloseConnection, Goto, Hears
  <2> QED BY <2>1, <2>2, OneRequestSteps
<1>20. CASE ReleaseConnection(r)
  <2>1. AbstractStep(r)
    BY <1>20, SMT DEF ReleaseConnection, Goto
  <2>2. Others(r)
    BY <1>20, SMT DEF ReleaseConnection, Goto
  <2> QED BY <2>1, <2>2, OneRequestSteps
<1>21. CASE MainBegin(r)
  <2>1. AbstractStep(r)
    BY <1>21, SMT DEF MainBegin
  <2>2. Others(r)
    BY <1>21, SMT DEF MainBegin
  <2> QED BY <2>1, <2>2, OneRequestSteps
<1>22. CASE MainSkip(r)
  <2>1. AbstractStep(r)
    BY <1>22, SMT DEF MainSkip
  <2>2. Others(r)
    BY <1>22, SMT DEF MainSkip
  <2> QED BY <2>1, <2>2, OneRequestSteps
<1>23. CASE MainExecute(r)
  <2>1. AbstractStep(r)
    BY <1>23, SMT DEF MainExecute
  <2>2. Others(r)
    BY <1>23, SMT DEF MainExecute
  <2> QED BY <2>1, <2>2, OneRequestSteps
<1>24. CASE MainComplete(r)
  <2>1. AbstractStep(r)
    BY <1>24, SMT DEF MainComplete
  <2>2. Others(r)
    BY <1>24, SMT DEF MainComplete
  <2> QED BY <2>1, <2>2, OneRequestSteps
<1>25. CASE MainRelease(r)
  <2>1. AbstractStep(r)
    BY <1>25, SMT DEF MainRelease
  <2>2. Others(r)
    BY <1>25, SMT DEF MainRelease
  <2> QED BY <2>1, <2>2, OneRequestSteps
<1> QED BY <1>1, <1>2, <1>3, <1>4, <1>5, <1>6, <1>7, <1>8, <1>9, <1>10, <1>11,
         <1>12, <1>13, <1>14, <1>15, <1>16, <1>17, <1>18, <1>19, <1>20, <1>21,
         <1>22, <1>23, <1>24, <1>25 DEF Handler, Main

(* The end of the host is HostEnds for the callers that were waiting.      *)
LEMMA StopImplements ==
    ASSUME IInv, HostStops
    PROVE  Call!HostNext
<1> DEFINE S == {r \in Requests : client[r] = "waiting"}
<1>1. \A r \in Requests :
        /\ PhaseOf(r)' = IF PhaseOf(r) = "running" THEN "lost" ELSE PhaseOf(r)
        /\ OutcomeOf(r)' = IF r \in S THEN "unknown" ELSE OutcomeOf(r)
        /\ r \in S => OutcomeOf(r) = "none"
  BY RequestsAssumption, SMT DEF HostStops, pendingVars, IInv, TypeOK, Ends, Responses, NeverRan, Ran,
     PhaseOf, OutcomeOf, Refused
<1>2. Call!HostEnds(S)
  BY <1>1 DEF Call!HostEnds
<1> QED BY <1>2 DEF Call!HostNext

(* For every number of calls, connections and slots the bridge implements  *)
(* HostCall: a command runs at most once and never beside another one, a   *)
(* refusal is final, and no caller is told of an effect that has not       *)
(* happened.                                                               *)
THEOREM BridgeImplementsHostCall == Spec => ImplementsHostCall
<1>1. Init => Call!HostInit
  <2> SUFFICES ASSUME Init PROVE Call!HostInit
    OBVIOUS
  <2>1. \A r \in Requests : PhaseOf(r) = "offered" /\ OutcomeOf(r) = "none"
    BY SMT DEF Init, PhaseOf, OutcomeOf, Refused, NeverRan, Ran
  <2> QED BY <2>1 DEF Call!HostInit
<1>2. IInv /\ IInv' /\ [Next]_vars => [Call!HostNext]_(Call!hostVars)
  <2> SUFFICES ASSUME IInv, IInv', [Next]_vars PROVE [Call!HostNext]_(Call!hostVars)
    OBVIOUS
  <2>1. CASE HostStarts \/ UNCHANGED vars
    <3>0. UNCHANGED <<client, response, result, mainReq, runs>>
      BY <2>1 DEF HostStarts, vars, clientVars, handlerVars, pendingVars, mainVars
    <3>1. \A r \in Requests : PhaseOf(r)' = PhaseOf(r) /\ OutcomeOf(r)' = OutcomeOf(r)
      BY <3>0, SMT DEF IInv, TypeOK, PhaseOf, OutcomeOf, Refused, NeverRan, Ran
    <3> QED BY <3>1 DEF Call!hostVars
  <2> QED BY <2>1, RequestImplements, StopImplements DEF Next
<1> QED BY <1>1, <1>2, StagesHold, PTL DEF Spec, ImplementsHostCall, Call!HostSpec

================================================================================
