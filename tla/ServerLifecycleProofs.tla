----------------------- MODULE ServerLifecycleProofs -----------------------
(***************************************************************************)
(* Proofs about ServerLifecycle, for every number of processes and         *)
(* requests: that retries are safe whatever the environment does, and that *)
(* without the three hazards of Env the socket is a lock on the database   *)
(* and the gate keeps handlers on an open one, across idle culls, crashes, *)
(* failed opens and recoveries of stale sockets.                           *)
(***************************************************************************)
EXTENDS ServerLifecycle, TLAPS

\* The states of a main goroutine that has won the election and not yet
\* unlinked the path.
Owning == {"chmod", "open", "serve", "cleanup"}

\* The path leads to the elected process, and nobody who is about to unlink it
\* threatens one.
Election ==
    /\ \A s \in Server : main[s] \in Owning => path = s
    /\ \A s \in Server : main[s] \in {"chmod", "open"} => s \in listening
    /\ \A s \in listening : main[s] \in {"chmod", "open", "serve"}
    /\ (\E t \in Server : main[t] = "unlink") \/ (\E r \in Request : rpc[r] = "remove")
          => \A s \in Server : path = s => main[s] \notin Owning

\* A shutdown goes: draining, database, listener; and only in idle servers.
Order ==
    /\ \A s \in Server : stopper[s] \in {"none", "idle", "idleCommit", "closeDB",
                                         "closeListener", "done"}
    /\ \A s \in Server : stopper[s] # "none" =>
          main[s] \in {"serve", "cleanup", "closing", "gone"}
    /\ \A s \in Server : main[s] \in {"cleanup", "closing", "gone"} => stopper[s] = "done"
    /\ \A s \in Server : stopper[s] \notin {"none", "idle"} => s \in draining
    /\ \A s \in Server : stopper[s] # "done" => fails[s] = 0
    /\ \A s \in Server : main[s] = "serve" /\ stopper[s] # "done" => s \in listening
    /\ \A s \in Server :
          s \in db <=> /\ main[s] = "serve"
                      /\ stopper[s] \in {"none", "idle", "idleCommit", "closeDB"}

\* Handlers run in serving processes that no shutdown has committed to close.
Gated ==
    /\ \A r \in Request : rpc[r] \in {"sent"} \cup Counted => rsrv[r] \in Server
    /\ \A r \in Request : rpc[r] \in Counted =>
          main[rsrv[r]] \in {"serve", "cleanup", "closing", "gone"}
    /\ \A r \in Request : rpc[r] \in {"handling", "committed"} =>
          /\ rsrv[r] \in db
          /\ stopper[rsrv[r]] \in {"none", "idle", "idleCommit"}

Inv == Env = {} /\ TypeOK /\ Election /\ Order /\ Gated

\* Nothing has started.
LEMMA InitInv == ASSUME Init, Env = {} PROVE Inv
  BY ServerAssumption DEF Init, Inv, TypeOK, Election, Order, Gated, MainPC, StopperPC,
     RequestPC, Sending, Counted, Owning, failThreshold

\* Every step of a process keeps the invariant.
LEMMA ServerKeeps ==
    ASSUME Inv, NEW s \in Server, ServerStep(s)
    PROVE  Inv'
<1> USE ServerAssumption DEF Inv, TypeOK, Election, Order, Gated, MainPC, StopperPC,
       RequestPC, Sending, Counted, Owning, serverVars, requestVars
<1>1. CASE FirstBind(s)
  BY <1>1 DEF FirstBind, Bind, MayBind
<1>2. CASE ProbeSocket(s)
  BY <1>2 DEF ProbeSocket, Live, LooksStale
<1>3. CASE UnlinkStale(s)
  BY <1>3 DEF UnlinkStale
<1>4. CASE SecondBind(s)
  BY <1>4 DEF SecondBind, Bind, MayBind
<1>5. CASE Chmod(s)
  BY <1>5 DEF Chmod, DropRequests
<1>6. CASE OpenDatabase(s)
  BY <1>6 DEF OpenDatabase
<1>7. CASE OpenFails(s)
  BY <1>7 DEF OpenFails, DropRequests
<1>8. CASE IdleTick(s)
  BY <1>8 DEF IdleTick, InFlight
<1>9. CASE ForcedStop(s)
  BY <1>9 DEF ForcedStop
<1>10. CASE OwnershipCheck(s)
  BY <1>10 DEF OwnershipCheck, Confirmed, failThreshold
<1>11. CASE OwnershipStop(s)
  BY <1>11 DEF OwnershipStop, failThreshold
<1>12. CASE StoreDraining(s)
  BY <1>12 DEF StoreDraining
<1>13. CASE Commit(s)
  BY <1>13 DEF Commit, InFlight
<1>14. CASE CloseStorage(s)
  BY <1>14 DEF CloseStorage
<1>15. CASE StopAccepting(s)
  BY <1>15 DEF StopAccepting
<1>16. CASE Drained(s)
  BY <1>16 DEF Drained
<1>17. CASE ServeReturns(s)
  BY <1>17 DEF ServeReturns
<1>18. CASE cleanupSocket(s)
  BY <1>18 DEF cleanupSocket
<1>19. CASE DeferredClose(s)
  BY <1>19 DEF DeferredClose
<1>20. CASE EndProcess(s)
  <2>1. /\ Election' /\ Order' /\ Env = {}
    BY <1>20 DEF EndProcess, DropRequests, failThreshold
  <2>2. Gated'
    BY <1>20 DEF EndProcess, DropRequests
  <2>3. TypeOK'
    BY <1>20 DEF EndProcess, DropRequests, failThreshold
  <2> QED
    BY <2>1, <2>2, <2>3
<1> QED
  BY <1>1, <1>2, <1>3, <1>4, <1>5, <1>6, <1>7, <1>8, <1>9, <1>10, <1>11, <1>12, <1>13, <1>14, <1>15, <1>16, <1>17, <1>18, <1>19, <1>20
  DEF ServerStep, Elect, Teardown, Exit, Crash

\* Every step of a client or a handler keeps the invariant.
LEMMA RequestKeeps ==
    ASSUME Inv, NEW r \in Request, Issue(r) \/ ClientStep(r) \/ HandlerStep(r)
    PROVE  Inv'
<1> USE ServerAssumption DEF Inv, TypeOK, Election, Order, Gated, MainPC, StopperPC,
       RequestPC, Sending, Counted, Owning, serverVars, requestVars
<1>1. CASE Issue(r)
  BY <1>1 DEF Issue, Goto
<1>2. CASE Send(r)
  BY <1>2 DEF Send, Goto, Live, Retry, Settle
<1>3. CASE ensureUp(r)
  BY <1>3 DEF ensureUp, Goto, Live
<1>4. CASE CheckStale(r)
  BY <1>4 DEF CheckStale, Goto, Live, LooksStale
<1>5. CASE RemoveStale(r)
  BY <1>5 DEF RemoveStale, Goto
<1>6. CASE Refused(r)
  BY <1>6 DEF Refused, Settle, Goto
<1>7. CASE Enter(r)
  BY <1>7 DEF Enter, Goto
<1>8. CASE Gate(r)
  BY <1>8 DEF Gate, Goto, Retry, Settle
<1>9. CASE Handle(r)
  BY <1>9 DEF Handle, Goto, Settle
<1>10. CASE Respond(r)
  BY <1>10 DEF Respond, Settle, Goto
<1>11. ASSUME NEW s \in Server, spawnServer(r, s) PROVE Inv'
  BY <1>11 DEF spawnServer, Goto
<1> QED
  BY <1>1, <1>2, <1>3, <1>4, <1>5, <1>6, <1>7, <1>8, <1>9, <1>10, <1>11 DEF ClientStep, HandlerStep

\* The invariant holds in every reachable state of a hazard-free environment.
LEMMA Invariance == Env = {} /\ Spec => []Inv
<1>1. Env = {} /\ Init => Inv
  BY InitInv
<1>2. Inv /\ [Next]_vars => Inv'
  <2> SUFFICES ASSUME Inv, [Next]_vars PROVE Inv'
    OBVIOUS
  <2>1. CASE Next
    BY <2>1, ServerKeeps, RequestKeeps DEF Next
  <2>2. CASE UNCHANGED vars
    BY <2>2 DEF vars, Inv, TypeOK, Election, Order, Gated
  <2> QED
    BY <2>1, <2>2
<1> QED
  BY <1>1, <1>2, PTL DEF Spec

\* The socket path is a lock on the database: for any number of processes that
\* start, crash, fail to open, are idle-culled and recover stale sockets
\* (electUnix, runServer, Server.shutdown), the one with the database open is
\* the one the path leads to.
THEOREM LockTheorem == Env = {} /\ Spec => []DatabaseUnderLock
<1>1. Inv => DatabaseUnderLock
  BY DEF Inv, TypeOK, Election, Order, Owning, DatabaseUnderLock
<1> QED
  BY <1>1, Invariance, PTL

\* Hence no two processes have the database open (electUnix).
THEOREM OneWriterTheorem == Env = {} /\ Spec => []OneWriter
<1>1. DatabaseUnderLock => OneWriter
  BY DEF DatabaseUnderLock, OneWriter
<1> QED
  BY <1>1, LockTheorem, PTL

\* A request that withActivity let through never has the database closed under
\* it, for any number of requests racing any number of idle culls.
THEOREM GateTheorem == Env = {} /\ Spec => []HandlersKeepDatabase
<1>1. Inv => HandlersKeepDatabase
  BY DEF Inv, Gated, HandlersKeepDatabase
<1> QED
  BY <1>1, Invariance, PTL

\* Work that is committed belongs to a request still inside its server.
AppliedInside ==
    /\ rpc \in [Request -> RequestPC]
    /\ applied \subseteq Request
    /\ \A r \in applied : rpc[r] = "committed"

\* A client never sends again what a server has applied (Client.do with its
\* draining and connect retries), whatever the environment does.
THEOREM RetryTheorem == Spec => []RetryIsSafe
<1> USE DEF AppliedInside, RequestPC, Sending, Counted
<1>1. Init => AppliedInside
  BY DEF Init
<1>2. AppliedInside /\ [Next]_vars => AppliedInside'
  <2> SUFFICES ASSUME AppliedInside, [Next]_vars PROVE AppliedInside'
    OBVIOUS
  <2>1. ASSUME UNCHANGED requestVars PROVE AppliedInside'
    BY <2>1 DEF requestVars
  <2>2. ASSUME NEW s \in Server, DropRequests(s) PROVE AppliedInside'
    BY <2>2 DEF DropRequests
  <2>3. ASSUME NEW s \in Server, ServerStep(s) PROVE AppliedInside'
    BY <2>3, <2>1, <2>2 DEF ServerStep, Elect, Teardown, FirstBind, SecondBind, Bind, ProbeSocket,
       UnlinkStale, Chmod, OpenDatabase, OpenFails, IdleTick, ForcedStop, OwnershipCheck,
       OwnershipStop, StoreDraining, Commit, CloseStorage, StopAccepting, Drained, ServeReturns,
       cleanupSocket, DeferredClose, Exit, Crash, EndProcess, requestVars
  <2>4. ASSUME NEW r \in Request, Issue(r) \/ ClientStep(r) PROVE AppliedInside'
    BY <2>4 DEF Issue, ClientStep, Send, Retry, Settle, ensureUp, CheckStale, RemoveStale,
       spawnServer, Goto
  <2>5. ASSUME NEW r \in Request, HandlerStep(r) PROVE AppliedInside'
    BY <2>5 DEF HandlerStep, Refused, Enter, Gate, Handle, Respond, Retry, Settle, Goto
  <2> QED
    BY <2>1, <2>3, <2>4, <2>5 DEF Next, vars, requestVars
<1>3. AppliedInside => RetryIsSafe
  BY DEF RetryIsSafe
<1> QED
  BY <1>1, <1>2, <1>3, PTL DEF Spec

-----------------------------------------------------------------------------
\* Every step of a process keeps the types.
LEMMA TypeServer ==
    ASSUME TypeOK, NEW s \in Server, ServerStep(s)
    PROVE  TypeOK'
<1> USE DEF TypeOK, MainPC, StopperPC, serverVars, requestVars
<1>1. CASE FirstBind(s) \/ SecondBind(s)
  BY <1>1 DEF FirstBind, SecondBind, Bind
<1>2. CASE ProbeSocket(s) \/ UnlinkStale(s) \/ OpenDatabase(s)
  BY <1>2 DEF ProbeSocket, UnlinkStale, OpenDatabase
<1>3. ASSUME DropRequests(s)
      PROVE  /\ rpc' \in [Request -> RequestPC]
             /\ rsrv' \in [Request -> Server \cup {NoServer}]
             /\ tries' \in [Request -> 0..MaxRetries]
             /\ applied' \subseteq Request
  BY <1>3, ServerAssumption DEF DropRequests, RequestPC
<1>4. CASE Chmod(s)
  BY <1>3, <1>4 DEF Chmod
<1>5. CASE OpenFails(s)
  BY <1>3, <1>5 DEF OpenFails
<1>6. CASE IdleTick(s) \/ ForcedStop(s) \/ OwnershipStop(s)
  BY <1>6 DEF IdleTick, ForcedStop, OwnershipStop
<1>7. CASE OwnershipCheck(s)
  BY <1>7 DEF OwnershipCheck, failThreshold
<1>8. CASE StoreDraining(s) \/ Commit(s)
  BY <1>8 DEF StoreDraining, Commit
<1>9. CASE CloseStorage(s) \/ StopAccepting(s) \/ Drained(s)
  BY <1>9 DEF CloseStorage, StopAccepting, Drained
<1>10. CASE ServeReturns(s) \/ cleanupSocket(s) \/ DeferredClose(s)
  BY <1>10 DEF ServeReturns, cleanupSocket, DeferredClose
<1>11. CASE EndProcess(s)
  BY <1>3, <1>11 DEF EndProcess, failThreshold
<1> QED
  BY <1>1, <1>2, <1>4, <1>5, <1>6, <1>7, <1>8, <1>9, <1>10, <1>11
  DEF ServerStep, Elect, Teardown, Exit, Crash

\* So does every step of a client or a handler.
LEMMA TypeRequest ==
    ASSUME TypeOK, NEW r \in Request, Issue(r) \/ ClientStep(r) \/ HandlerStep(r)
    PROVE  TypeOK'
<1> USE DEF TypeOK, RequestPC, Sending, Counted, serverVars, requestVars, Goto
<1>1. ASSUME Settle(r) \/ Retry(r), UNCHANGED <<path, serverVars>> PROVE TypeOK'
  BY <1>1, ServerAssumption DEF Settle, Retry
<1>2. CASE Send(r)
  BY <1>1, <1>2 DEF Send, Live
<1>3. CASE Issue(r) \/ ensureUp(r) \/ CheckStale(r) \/ RemoveStale(r)
  BY <1>3 DEF Issue, ensureUp, CheckStale, RemoveStale
<1>4. CASE Refused(r) \/ Respond(r)
  BY <1>1, <1>4 DEF Refused, Respond
<1>5. CASE Enter(r)
  BY <1>5 DEF Enter
<1>6. CASE Gate(r)
  BY <1>1, <1>6 DEF Gate
<1>7. CASE Handle(r)
  BY <1>1, <1>7 DEF Handle
<1>8. ASSUME NEW s \in Server, spawnServer(r, s) PROVE TypeOK'
  BY <1>8 DEF spawnServer, MainPC
<1> QED
  BY <1>2, <1>3, <1>4, <1>5, <1>6, <1>7, <1>8 DEF ClientStep, HandlerStep

\* Type correctness in every environment, the hazardous ones included: no client
\* retries more often than handoffBackoffs allows (Client.do) and the ownership
\* monitor never counts past its threshold.
THEOREM TypeTheorem == Spec => []TypeOK
<1>1. Init => TypeOK
  BY ServerAssumption DEF Init, TypeOK, MainPC, StopperPC, RequestPC, failThreshold
<1>2. TypeOK /\ [Next]_vars => TypeOK'
  <2>1. TypeOK /\ UNCHANGED vars => TypeOK'
    BY DEF TypeOK, vars
  <2> QED
    BY <2>1, TypeServer, TypeRequest DEF Next
<1> QED
  BY <1>1, <1>2, PTL DEF Spec
=============================================================================
