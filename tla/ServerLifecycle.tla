-------------------------- MODULE ServerLifecycle --------------------------
(***************************************************************************)
(* One unix socket path, one database file, and the server processes that  *)
(* come and go over them (server/server.go, cmd/server.go): the election   *)
(* by bind, the recovery of a stale socket, the gate that keeps requests   *)
(* off a closing database, the ordered teardown and the ownership monitor; *)
(* and the clients (client/client.go, client/autospawn.go) that send       *)
(* requests, respawn a server when none answers and retry.                 *)
(*                                                                         *)
(* A socket file belongs to the process that bound it; path names that     *)
(* process.  A dial succeeds when the process still listens.  The bind,    *)
(* probe, unlink, the atomics inFlight and draining, the closing of the    *)
(* database and of the listener are separate steps.                        *)
(*                                                                         *)
(* The probes of a path (three dials, 100 ms apart) are one step: the dial *)
(* that decided.  Keep-alive connections, TCP listeners and authentication *)
(* are not modelled.                                                       *)
(***************************************************************************)
EXTENDS Naturals, FiniteSets

CONSTANTS
    Server,      \* server processes; an id is reused by a later process
    NoServer,    \* "no file at the socket path"
    Request,     \* client requests, each sent again when it is settled
    MaxRetries,  \* len(handoffBackoffs)
    Env          \* what the environment adds, a subset of the following:
                 \*   "forced"       operators stop servers that are busy
                 \*   "slowTeardown" a probe outruns the closing process
                 \*   "recoveryRace" a server binds between another
                 \*                  process's last probe and its unlink

ASSUME ServerAssumption ==
    /\ NoServer \notin Server
    /\ MaxRetries \in Nat
    /\ Env \subseteq {"forced", "slowTeardown", "recoveryRace"}

VARIABLES
    path,       \* the process whose socket file is at the path
    listening,  \* processes that accept connections
    db,         \* processes that have the database open
    draining,   \* Server.draining
    main,       \* the main goroutine of each process
    stopper,    \* the shutdown in progress in each process
    fails,      \* consecutive failed self-dials of the ownership monitor
    rpc,        \* where each request is
    rsrv,       \* the process it is connected to
    tries,      \* retries so far
    applied     \* requests whose work has been committed

serverVars  == <<listening, db, draining, main, stopper, fails>>
requestVars == <<rpc, rsrv, tries, applied>>
vars        == <<path, listening, db, draining, main, stopper, fails,
                 rpc, rsrv, tries, applied>>

failThreshold == 3

MainPC == {"off", "bind", "probe", "unlink", "rebind", "chmod", "open",
           "serve", "cleanup", "closing", "gone"}

StopperPC == {"none", "idle", "force", "idleCommit", "forceCommit",
              "closeDB", "closeListener", "closeListenerBusy", "drain", "done"}

\* A request on the client's side, and one inside a server.
Sending  == {"send", "ensureUp", "stale", "remove", "spawn"}
Counted  == {"entered", "handling", "committed"}

RequestPC == {"idle", "sent"} \cup Sending \cup Counted

TypeOK ==
    /\ path \in Server \cup {NoServer}
    /\ listening \subseteq Server /\ db \subseteq Server /\ draining \subseteq Server
    /\ main \in [Server -> MainPC] /\ stopper \in [Server -> StopperPC]
    /\ fails \in [Server -> 0..failThreshold]
    /\ rpc \in [Request -> RequestPC]
    /\ rsrv \in [Request -> Server \cup {NoServer}]
    /\ tries \in [Request -> 0..MaxRetries]
    /\ applied \subseteq Request

Init ==
    /\ path = NoServer /\ listening = {} /\ db = {} /\ draining = {}
    /\ main = [s \in Server |-> "off"]
    /\ stopper = [s \in Server |-> "none"]
    /\ fails = [s \in Server |-> 0]
    /\ rpc = [r \in Request |-> "idle"]
    /\ rsrv = [r \in Request |-> NoServer]
    /\ tries = [r \in Request |-> 0]
    /\ applied = {}

\* A dial of the path succeeds.
Live == path \in listening

\* A probe finds nobody; a process that was closing has unlinked the path by
\* then, unless the teardown is slow.
LooksStale ==
    /\ ~Live
    /\ "slowTeardown" \in Env \/ \A s \in Server : path = s => main[s] \notin {"serve", "cleanup"}

\* Server.inFlight
InFlight(s) == {r \in Request : rsrv[r] = s /\ rpc[r] \in Counted}

ResendBroken(s) ==
    /\ rpc'  = [r \in Request |-> IF rsrv[r] = s THEN "send" ELSE rpc[r]]
    /\ rsrv' = [r \in Request |-> IF rsrv[r] = s THEN NoServer ELSE rsrv[r]]
    /\ UNCHANGED <<tries, applied>>

\* What becomes of the requests a dying process had accepted: the client sees
\* a broken connection, which it never retries.
DropRequests(s) ==
    /\ rpc'  = [r \in Request |-> IF rsrv[r] = s THEN "idle" ELSE rpc[r]]
    /\ rsrv' = [r \in Request |-> IF rsrv[r] = s THEN NoServer ELSE rsrv[r]]
    /\ tries' = [r \in Request |-> IF rsrv[r] = s THEN 0 ELSE tries[r]]
    /\ applied' = {r \in applied : rsrv[r] # s}

-----------------------------------------------------------------------------
(***************************************************************************)
(* Becoming the server: electUnix, then the database.                      *)
(***************************************************************************)
MayBind(s) ==
    "recoveryRace" \in Env \/
        /\ \A t \in Server \ {s} : main[t] # "unlink"
        /\ \A r \in Request : rpc[r] # "remove"

\* net.Listen: takes the free path, or fails with EADDRINUSE.
Bind(s, onInUse) ==
    /\ \/ /\ path = NoServer
          /\ MayBind(s)
          /\ path' = s
          /\ listening' = listening \cup {s}
          /\ main' = [main EXCEPT ![s] = "chmod"]
       \/ /\ path # NoServer
          /\ main' = [main EXCEPT ![s] = onInUse]
          /\ UNCHANGED <<path, listening>>
    /\ UNCHANGED <<db, draining, stopper, fails, requestVars>>

FirstBind(s) == main[s] = "bind" /\ Bind(s, "probe")

\* socketIsLive: a live owner wins, a dead one is taken for stale.
ProbeSocket(s) ==
    /\ main[s] = "probe"
    /\ \/ Live /\ main' = [main EXCEPT ![s] = "off"]
       \/ LooksStale /\ main' = [main EXCEPT ![s] = "unlink"]
    /\ UNCHANGED <<path, listening, db, draining, stopper, fails, requestVars>>

\* os.Remove of whatever is at the path by now.
UnlinkStale(s) ==
    /\ main[s] = "unlink"
    /\ path' = NoServer
    /\ main' = [main EXCEPT ![s] = "rebind"]
    /\ UNCHANGED <<listening, db, draining, stopper, fails, requestVars>>

SecondBind(s) == main[s] = "rebind" /\ Bind(s, "off")

\* os.Chmod fails, and the bind is given up, when the file is gone again.
Chmod(s) ==
    /\ main[s] = "chmod"
    /\ \/ /\ path # NoServer
          /\ main' = [main EXCEPT ![s] = "open"]
          /\ UNCHANGED <<listening, requestVars>>
       \/ /\ path = NoServer
          /\ main' = [main EXCEPT ![s] = "off"]
          /\ listening' = listening \ {s}
          /\ DropRequests(s)
    /\ UNCHANGED <<path, db, draining, stopper, fails>>

\* storage.Open and ServeListener, only after the election is won.
OpenDatabase(s) ==
    /\ main[s] = "open"
    /\ db' = db \cup {s}
    /\ main' = [main EXCEPT ![s] = "serve"]
    /\ UNCHANGED <<path, listening, draining, stopper, fails, requestVars>>

\* storage.Open fails: releaseToken closes the listener and unlinks the path.
OpenFails(s) ==
    /\ main[s] = "open"
    /\ main' = [main EXCEPT ![s] = "off"]
    /\ listening' = listening \ {s}
    /\ path' = NoServer
    /\ DropRequests(s)
    /\ UNCHANGED <<db, draining, stopper, fails>>

-----------------------------------------------------------------------------
(***************************************************************************)
(* Ceasing to be the server: Server.shutdown, in its own goroutine, beside *)
(* the main goroutine that returns from Serve when the listener closes.    *)
(***************************************************************************)

\* The idle monitor finds nothing in flight.
IdleTick(s) ==
    /\ main[s] = "serve" /\ stopper[s] = "none"
    /\ InFlight(s) = {}
    /\ stopper' = [stopper EXCEPT ![s] = "idle"]
    /\ UNCHANGED <<path, listening, db, draining, main, fails, requestVars>>

\* A signal, or POST /admin/shutdown.
ForcedStop(s) ==
    /\ "forced" \in Env
    /\ main[s] = "serve" /\ stopper[s] = "none"
    /\ stopper' = [stopper EXCEPT ![s] = "force"]
    /\ UNCHANGED <<path, listening, db, draining, main, fails, requestVars>>

\* A self-dial over a connection that is kept alive.
ConfirmedByKeepAlive(s) == s \in listening

\* The self-dial reaches the process that the path leads to.
Confirmed(s) == path = s /\ s \in listening

OwnershipCheck(s) ==
    /\ main[s] = "serve" /\ fails[s] < failThreshold
    /\ fails' = [fails EXCEPT ![s] = IF Confirmed(s) THEN 0 ELSE fails[s] + 1]
    /\ UNCHANGED <<path, listening, db, draining, main, stopper, requestVars>>

OwnershipStop(s) ==
    /\ main[s] = "serve" /\ fails[s] = failThreshold
    /\ stopper[s] = "none"
    /\ stopper' = [stopper EXCEPT ![s] = "force"]
    /\ UNCHANGED <<path, listening, db, draining, main, fails, requestVars>>

\* draining is stored before inFlight is read ...
StoreDraining(s) ==
    /\ stopper[s] \in {"idle", "force"}
    /\ draining' = draining \cup {s}
    /\ stopper' = [stopper EXCEPT ![s] =
                     IF stopper[s] = "idle" THEN "idleCommit" ELSE "forceCommit"]
    /\ UNCHANGED <<path, listening, db, main, fails, requestVars>>

CommitListenerFirst(s) ==
    /\ stopper[s] \in {"idleCommit", "forceCommit"}
    /\ stopper' = [stopper EXCEPT ![s] = "closeListenerBusy"]
    /\ UNCHANGED <<path, listening, db, draining, main, fails, requestVars>>

\* ... and a busy server is drained first, or, when idle-culled, kept.
Commit(s) ==
    /\ \/ /\ stopper[s] = "idleCommit" /\ InFlight(s) # {}
          /\ draining' = draining \ {s}
          /\ stopper' = [stopper EXCEPT ![s] = "none"]
       \/ /\ stopper[s] = "forceCommit" /\ InFlight(s) # {}
          /\ stopper' = [stopper EXCEPT ![s] = "closeListenerBusy"]
          /\ UNCHANGED draining
       \/ /\ stopper[s] \in {"idleCommit", "forceCommit"} /\ InFlight(s) = {}
          /\ stopper' = [stopper EXCEPT ![s] = "closeDB"]
          /\ UNCHANGED draining
    /\ UNCHANGED <<path, listening, db, main, fails, requestVars>>

CloseStorage(s) ==
    /\ stopper[s] = "closeDB"
    /\ db' = db \ {s}
    /\ stopper' = [stopper EXCEPT ![s] = "closeListener"]
    /\ UNCHANGED <<path, listening, draining, main, fails, requestVars>>

\* http.Server.Shutdown closes the listener at once ...
StopAccepting(s) ==
    /\ stopper[s] \in {"closeListener", "closeListenerBusy"}
    /\ listening' = listening \ {s}
    /\ stopper' = [stopper EXCEPT ![s] =
                     IF stopper[s] = "closeListener" THEN "done" ELSE "drain"]
    /\ UNCHANGED <<path, db, draining, main, fails, requestVars>>

\* ... and waits for the requests in flight, or for its deadline.
Drained(s) ==
    /\ stopper[s] = "drain"
    /\ db' = db \ {s}
    /\ stopper' = [stopper EXCEPT ![s] = "done"]
    /\ UNCHANGED <<path, listening, draining, main, fails, requestVars>>

\* Serve returns as soon as the listener is closed.
ServeReturns(s) ==
    /\ main[s] = "serve" /\ s \notin listening
    /\ main' = [main EXCEPT ![s] = "cleanup"]
    /\ UNCHANGED <<path, listening, db, draining, stopper, fails, requestVars>>

\* os.Remove of whatever is at the path by now.
cleanupSocket(s) ==
    /\ main[s] = "cleanup"
    /\ path' = NoServer
    /\ main' = [main EXCEPT ![s] = "closing"]
    /\ UNCHANGED <<listening, db, draining, stopper, fails, requestVars>>

\* runServer returns: the deferred store.Close.
DeferredClose(s) ==
    /\ main[s] = "closing"
    /\ db' = db \ {s}
    /\ main' = [main EXCEPT ![s] = "gone"]
    /\ UNCHANGED <<path, listening, draining, stopper, fails, requestVars>>

\* The process ends, whatever its other goroutines were doing.
EndProcess(s) ==
    /\ main' = [main EXCEPT ![s] = "off"]
    /\ stopper' = [stopper EXCEPT ![s] = "none"]
    /\ fails' = [fails EXCEPT ![s] = 0]
    /\ listening' = listening \ {s}
    /\ draining' = draining \ {s}
    /\ db' = db \ {s}
    /\ DropRequests(s)
    /\ UNCHANGED path

Exit(s) == main[s] = "gone" /\ EndProcess(s)

\* A crash leaves the socket file behind.
Crash(s) == main[s] # "off" /\ EndProcess(s)

-----------------------------------------------------------------------------
(***************************************************************************)
(* Requests: Client.do with its retries and ensureUp on the client's side, *)
(* withActivity and the handler on the server's.                           *)
(***************************************************************************)
Goto(r, pc) == rpc' = [rpc EXCEPT ![r] = pc]

\* The request is over, answered or failed.
Settle(r) ==
    /\ Goto(r, "idle")
    /\ rsrv' = [rsrv EXCEPT ![r] = NoServer]
    /\ tries' = [tries EXCEPT ![r] = 0]
    /\ applied' = applied \ {r}

RetryForever(r) ==
    /\ Goto(r, "ensureUp")
    /\ rsrv' = [rsrv EXCEPT ![r] = NoServer]
    /\ UNCHANGED <<tries, applied>>

\* A connect failure or a draining 503: back off, reconnect, resend.
Retry(r) ==
    \/ tries[r] = MaxRetries /\ Settle(r)
    \/ /\ tries[r] < MaxRetries
       /\ tries' = [tries EXCEPT ![r] = tries[r] + 1]
       /\ Goto(r, "ensureUp")
       /\ rsrv' = [rsrv EXCEPT ![r] = NoServer]
       /\ UNCHANGED applied

Issue(r) ==
    /\ rpc[r] = "idle"
    /\ Goto(r, "send")
    /\ UNCHANGED <<path, serverVars, rsrv, tries, applied>>

\* doOnce: a dial that succeeds puts the request in the process's backlog.
Send(r) ==
    /\ rpc[r] = "send"
    /\ \/ /\ Live
          /\ Goto(r, "sent")
          /\ rsrv' = [rsrv EXCEPT ![r] = path]
          /\ UNCHANGED <<tries, applied>>
       \/ ~Live /\ Retry(r)
    /\ UNCHANGED <<path, serverVars>>

\* The health probes of ensureUp.
ensureUp(r) ==
    /\ rpc[r] = "ensureUp"
    /\ Goto(r, IF Live THEN "send" ELSE "stale")
    /\ UNCHANGED <<path, serverVars, rsrv, tries, applied>>

\* removeStaleSocket: a file that nobody answers on is to be removed ...
CheckStale(r) ==
    /\ rpc[r] = "stale"
    /\ \/ path # NoServer /\ LooksStale /\ Goto(r, "remove")
       \/ (path = NoServer \/ Live) /\ Goto(r, "spawn")
    /\ UNCHANGED <<path, serverVars, rsrv, tries, applied>>

\* ... which removes whatever is at the path by now.
RemoveStale(r) ==
    /\ rpc[r] = "remove"
    /\ path' = NoServer
    /\ Goto(r, "spawn")
    /\ UNCHANGED <<serverVars, rsrv, tries, applied>>

spawnServer(r, s) ==
    /\ rpc[r] = "spawn"
    /\ main[s] = "off"
    /\ main' = [main EXCEPT ![s] = "bind"]
    /\ Goto(r, "send")
    /\ UNCHANGED <<path, listening, db, draining, stopper, fails, rsrv, tries, applied>>

\* The listener closed before the connection was accepted.
Refused(r) ==
    /\ rpc[r] = "sent" /\ rsrv[r] \notin listening
    /\ Settle(r)
    /\ UNCHANGED <<path, serverVars>>

\* withActivity counts the request in ...
Enter(r) ==
    /\ rpc[r] = "sent" /\ main[rsrv[r]] \in {"serve", "cleanup", "closing"}
    /\ Goto(r, "entered")
    /\ UNCHANGED <<path, serverVars, rsrv, tries, applied>>

EnterUnchecked(r) ==
    /\ rpc[r] = "entered"
    /\ Goto(r, "handling")
    /\ UNCHANGED <<path, serverVars, rsrv, tries, applied>>

\* ... before it reads draining, and turns it away with a 503 if set.
Gate(r) ==
    /\ rpc[r] = "entered"
    /\ \/ rsrv[r] \in draining /\ Retry(r)
       \/ rsrv[r] \notin draining /\ Goto(r, "handling") /\ UNCHANGED <<rsrv, tries, applied>>
    /\ UNCHANGED <<path, serverVars>>

\* The handler commits its work; a closed database makes it a 500.
Handle(r) ==
    /\ rpc[r] = "handling"
    /\ \/ /\ rsrv[r] \in db
          /\ applied' = applied \cup {r}
          /\ Goto(r, "committed")
          /\ UNCHANGED <<rsrv, tries>>
       \/ rsrv[r] \notin db /\ Settle(r)
    /\ UNCHANGED <<path, serverVars>>

Respond(r) ==
    /\ rpc[r] = "committed"
    /\ Settle(r)
    /\ UNCHANGED <<path, serverVars>>

-----------------------------------------------------------------------------
Elect(s) == FirstBind(s) \/ ProbeSocket(s) \/ UnlinkStale(s) \/ SecondBind(s) \/ Chmod(s)

Teardown(s) ==
    \/ StoreDraining(s) \/ Commit(s) \/ CloseStorage(s) \/ StopAccepting(s) \/ Drained(s)
    \/ ServeReturns(s) \/ cleanupSocket(s) \/ DeferredClose(s) \/ Exit(s)

ServerStep(s) ==
    \/ Elect(s) \/ OpenDatabase(s) \/ OpenFails(s)
    \/ IdleTick(s) \/ ForcedStop(s) \/ OwnershipCheck(s) \/ OwnershipStop(s)
    \/ Teardown(s) \/ Crash(s)

ClientStep(r) ==
    \/ Send(r) \/ ensureUp(r) \/ CheckStale(r) \/ RemoveStale(r)
    \/ \E s \in Server : spawnServer(r, s)

HandlerStep(r) == Refused(r) \/ Enter(r) \/ Gate(r) \/ Handle(r) \/ Respond(r)

Next ==
    \/ \E s \in Server : ServerStep(s)
    \/ \E r \in Request : Issue(r) \/ ClientStep(r) \/ HandlerStep(r)

Spec == Init /\ [][Next]_vars

(***************************************************************************)
(* Fairness: a process that is elected opens its database, a shutdown that *)
(* began runs on, the ownership monitor keeps ticking and gets the mutex   *)
(* in the end (sync.Mutex does not starve a waiter), and clients and       *)
(* handlers keep going.  Nobody need crash, stop a server or issue a       *)
(* request.                                                                *)
(***************************************************************************)
Fairness ==
    /\ \A s \in Server :
         /\ WF_vars(Elect(s)) /\ WF_vars(OpenDatabase(s) \/ OpenFails(s))
         /\ WF_vars(Teardown(s))
         /\ WF_vars(OwnershipCheck(s)) /\ SF_vars(OwnershipStop(s))
    /\ \A r \in Request : WF_vars(ClientStep(r)) /\ WF_vars(HandlerStep(r))

FairSpec == Spec /\ Fairness

-----------------------------------------------------------------------------
(***************************************************************************)
(* Properties.                                                             *)
(***************************************************************************)

\* The socket is the lock on the database: a process that has it open is the
\* one the path leads to.  So two processes never have it open at once, and a
\* teardown closes the database before it gives up the path.
DatabaseUnderLock == \A s \in db : path = s

\* A request that passed the gate of withActivity works on an open database:
\* the store-then-load of shutdown and the add-then-load of the gate never let
\* an idle cull close it under a handler.
HandlersKeepDatabase ==
    \A r \in Request : rpc[r] \in {"handling", "committed"} => rsrv[r] \in db

\* What the client sends again has not been applied: a draining 503 and a
\* failed connect mean that no work was done, so a retry never applies a
\* request twice.
RetryIsSafe == \A r \in applied : rpc[r] \notin Sending

\* A process that serves while the path leads elsewhere steps down, however
\* it lost the path.
OrphanStepsDown ==
    \A s \in Server : (main[s] = "serve" /\ path # s) ~> main[s] # "serve"

\* Every request is answered or fails, also when servers crash, are culled or
\* replaced under it: no client waits for ever.
RequestSettles == \A r \in Request : (rpc[r] # "idle") ~> (rpc[r] = "idle")

\* No two processes have the database open.  Two recoveries of one stale socket
\* at the same time ("recoveryRace") break it until the ownership monitor acts.
OneWriter == \A s, t \in db : s = t
=============================================================================
