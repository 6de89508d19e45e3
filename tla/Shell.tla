-------------------------------- MODULE Shell --------------------------------
(***************************************************************************)
(* The remote shell (src/src/alpn/shell.py): a dashboard of a peer         *)
(* (src/src/webapp.py) asks its own engine to open a shell on this node;   *)
(* the engine holds a permit of its semaphore while it connects and while  *)
(* the session lives.  This node checks the permission and its caps, runs  *)
(* bash on a pty between two streams, and tears the session down.          *)
(*                                                                         *)
(* An attempt is one WebSocket of one dashboard.  Four parties move it:    *)
(* the web thread, the client's engine, the server's engine, and bash.     *)
(* Terminal bytes and frame formats are left out.                          *)
(***************************************************************************)
EXTENDS Integers, FiniteSets

CONSTANTS
    Attempt,     \* shell attempts
    Peer,        \* nodes that open shells here
    By,          \* the peer of each attempt
    MaxSessions, \* SHELL_MAX_SESSIONS
    MaxPerPeer,  \* SHELL_MAX_PER_PEER
    MaxFaults    \* bound: changes of permissions, failed writes, shutdowns

ASSUME ShellAssumption == /\ By \in [Attempt -> Peer] /\ IsFiniteSet(Attempt)
                          /\ MaxSessions \in Nat \ {0} /\ MaxPerPeer \in Nat \ {0}
                          /\ MaxFaults \in Nat

VARIABLES
    web,       \* the WebSocket thread: "none", "waiting", "live" or "gone"
    cli,       \* open_peer_shell and its ShellSession
    sem,       \* _shell_semaphore of each peer's engine: permits left
    sessions,  \* _shell_sessions, of all peers
    conn,      \* the connection: "none", "up" or "down"
    srv,       \* _serve_shell
    child,     \* bash: "none", "alive" or "dead"
    teardowns, \* _shell_server_teardowns
    counts,    \* _shell_peer_counts
    granted,   \* peers with the "shell" permission
    opened,    \* attempts with a shell_open entry in the trust log
    closed,    \* attempts with a shell_close entry
    down,      \* the server's daemon: "up", "stopping", or "down"
    faults     \* so far

cvars == <<web, cli, sem, sessions>>
registry == <<teardowns, counts>>
audit == <<opened, closed>>
vars == <<cvars, conn, srv, child, registry, granted, audit, down, faults>>

CliStates == {"none", "acquire", "connect", "open", "closing", "closed", "failed"}
SrvStates == {"none", "refused", "spawn", "primed", "running", "teardown", "reaping", "closed"}

Init ==
    /\ web = [a \in Attempt |-> "none"] /\ cli = [a \in Attempt |-> "none"]
    /\ sem = [p \in Peer |-> MaxSessions] /\ sessions = {}
    /\ conn = [a \in Attempt |-> "none"]
    /\ srv = [a \in Attempt |-> "none"] /\ child = [a \in Attempt |-> "none"]
    /\ teardowns = {} /\ counts = [p \in Peer |-> 0]
    /\ granted = Peer /\ opened = {} /\ closed = {}
    /\ down = "up" /\ faults = 0

Fault == faults < MaxFaults /\ faults' = faults + 1

-----------------------------------------------------------------------------
(* The dashboard's thread, _serve_peer_shell *)

\* run_coroutine_threadsafe(open_peer_shell)
WebOpen(a) ==
    /\ web[a] = "none" /\ web' = [web EXCEPT ![a] = "waiting"]
    /\ cli' = [cli EXCEPT ![a] = "acquire"]
    /\ UNCHANGED <<sem, sessions, conn, srv, child, registry, granted, audit, down, faults>>

\* fut.result returns, or raises what the coroutine raised
WebResult(a) ==
    /\ web[a] = "waiting" /\ cli[a] \in {"open", "failed"}
    /\ web' = [web EXCEPT ![a] = IF cli[a] = "open" THEN "live" ELSE "gone"]
    /\ UNCHANGED <<cli, sem, sessions, conn, srv, child, registry, granted, audit, down, faults>>

\* fut.result(timeout=35) gives up; the coroutine goes on by itself
WebGivesUp(a) ==
    /\ web[a] = "waiting" /\ web' = [web EXCEPT ![a] = "gone"]
    /\ UNCHANGED <<cli, sem, sessions, conn, srv, child, registry, granted, audit, down, faults>>

-----------------------------------------------------------------------------
(* The client's engine *)

\* open_peer_shell raises before it asks for a permit: there is no node, or
\* the target is not one
OpenRaises(a) ==
    /\ cli[a] = "acquire" /\ cli' = [cli EXCEPT ![a] = "failed"]
    /\ UNCHANGED <<web, sem, sessions, conn, srv, child, registry, granted, audit, down, faults>>

Acquire(a) ==
    /\ cli[a] = "acquire" /\ sem[By[a]] > 0
    /\ sem' = [sem EXCEPT ![By[a]] = @ - 1]
    /\ cli' = [cli EXCEPT ![a] = "connect"]
    /\ UNCHANGED <<web, sessions, conn, srv, child, registry, granted, audit, down, faults>>

Connect(a) ==
    /\ cli[a] = "connect" /\ conn[a] = "none" /\ down # "down"
    /\ conn' = [conn EXCEPT ![a] = "up"]
    /\ UNCHANGED <<cvars, srv, child, registry, granted, audit, down, faults>>

\* accept_uni resolves once the server has written its first frame; then the
\* client opens its own stream and writes to it
ClientStreams(a) ==
    /\ cli[a] = "connect" /\ conn[a] = "up" /\ srv[a] = "primed"
    /\ cli' = [cli EXCEPT ![a] = "open"]
    /\ sessions' = sessions \cup {a}
    /\ UNCHANGED <<web, sem, conn, srv, child, registry, granted, audit, down, faults>>

\* Mutant: the permit is not given back when opening fails
OpenFails_KeepsPermit(a) ==
    /\ cli[a] = "connect" /\ cli' = [cli EXCEPT ![a] = "failed"]
    /\ conn' = [conn EXCEPT ![a] = "down"]
    /\ UNCHANGED <<web, sem, sessions, srv, child, registry, granted, audit, down, faults>>

\* A timeout, or an error of the connection: close it, give back the permit.
\* except Exception does not catch a cancellation, but nothing cancels the
\* coroutine while its engine lives: the web thread's timeout leaves it running
OpenFails(a) ==
    /\ cli[a] = "connect" /\ cli' = [cli EXCEPT ![a] = "failed"]
    /\ conn' = [conn EXCEPT ![a] = "down"]
    /\ sem' = [sem EXCEPT ![By[a]] = @ + 1]
    /\ UNCHANGED <<web, sessions, srv, child, registry, granted, audit, down, faults>>

\* Mutant: the handler returns without closing the session
WebLeaves_NoClose(a) ==
    /\ web[a] = "live" /\ web' = [web EXCEPT ![a] = "gone"]
    /\ UNCHANGED <<cli, sem, sessions, conn, srv, child, registry, granted, audit, down, faults>>

\* Mutant: _aclose without the _closed flag
WebLeaves_Recloses(a) ==
    /\ web[a] = "live" /\ web' = [web EXCEPT ![a] = "gone"]
    /\ cli' = [cli EXCEPT ![a] = "closing"]
    /\ UNCHANGED <<sem, sessions, conn, srv, child, registry, granted, audit, down, faults>>

\* The browser leaves, or the relay saw the end of the session: close()
\* schedules _aclose, which begins by setting _closed
WebLeaves(a) ==
    /\ web[a] = "live" /\ web' = [web EXCEPT ![a] = "gone"]
    /\ cli' = [cli EXCEPT ![a] = IF @ = "open" THEN "closing" ELSE @]
    /\ UNCHANGED <<sem, sessions, conn, srv, child, registry, granted, audit, down, faults>>

\* The shutdown of the client's engine calls _aclose on each session
ClientShutdown(a) ==
    /\ a \in sessions /\ cli[a] = "open" /\ Fault
    /\ cli' = [cli EXCEPT ![a] = "closing"]
    /\ UNCHANGED <<web, sem, sessions, conn, srv, child, registry, granted, audit, down>>

\* The rest of _aclose, after its writes
AcloseEnd(a) ==
    /\ cli[a] = "closing" /\ cli' = [cli EXCEPT ![a] = "closed"]
    /\ conn' = [conn EXCEPT ![a] = "down"]
    /\ sessions' = sessions \ {a}
    /\ sem' = [sem EXCEPT ![By[a]] = @ + 1]
    /\ UNCHANGED <<web, srv, child, registry, granted, audit, down, faults>>

\* The network loses the connection; both ends find out
ConnDrops(a) ==
    /\ conn[a] = "up" /\ conn' = [conn EXCEPT ![a] = "down"]
    /\ UNCHANGED <<cvars, srv, child, registry, granted, audit, down, faults>>

-----------------------------------------------------------------------------
(* The server's engine *)

\* An append to the trust log, which may fail; the caller logs and goes on
AppendEntry(recorded) == IF recorded THEN UNCHANGED faults ELSE Fault

Refused(a) == \/ By[a] \notin granted
              \/ Cardinality(teardowns) >= MaxSessions
              \/ counts[By[a]] >= MaxPerPeer

Refuse(a) ==
    /\ conn[a] = "up" /\ srv[a] = "none" /\ down # "down" /\ Refused(a)
    /\ srv' = [srv EXCEPT ![a] = "refused"] /\ conn' = [conn EXCEPT ![a] = "down"]
    /\ UNCHANGED <<cvars, child, registry, granted, audit, down, faults>>

\* accept and _serve_shell up to its first await: no other task runs in between
Accept(a) ==
    /\ conn[a] = "up" /\ srv[a] = "none" /\ down # "down" /\ ~Refused(a)
    /\ srv' = [srv EXCEPT ![a] = "spawn"]
    /\ teardowns' = teardowns \cup {a}
    /\ counts' = [counts EXCEPT ![By[a]] = @ + 1]
    /\ \E recorded \in BOOLEAN :
         /\ AppendEntry(recorded)
         /\ opened' = IF recorded THEN opened \cup {a} ELSE opened
    /\ UNCHANGED <<cvars, conn, child, granted, closed, down>>

\* bash runs; the server opens its stream and writes the first frame
Spawn(a) ==
    /\ srv[a] = "spawn" /\ down # "down"
    /\ srv' = [srv EXCEPT ![a] = "primed"] /\ child' = [child EXCEPT ![a] = "alive"]
    /\ UNCHANGED <<cvars, conn, registry, granted, audit, down, faults>>

\* The client's stream has come: the pumps and the watchdog start
Run(a) ==
    /\ srv[a] = "primed" /\ conn[a] = "up" /\ cli[a] \in {"open", "closing"}
    /\ srv' = [srv EXCEPT ![a] = "running"]
    /\ UNCHANGED <<cvars, conn, child, registry, granted, audit, down, faults>>

ChildExits(a) ==
    /\ child[a] = "alive" /\ child' = [child EXCEPT ![a] = "dead"]
    /\ UNCHANGED <<cvars, conn, srv, registry, granted, audit, down, faults>>

\* fork, openpty or a stream fails, or a stream does not come in ten seconds
ServeFails(a) ==
    /\ srv[a] \in {"spawn", "primed"}
    /\ srv' = [srv EXCEPT ![a] = "teardown"]
    /\ UNCHANGED <<cvars, conn, child, registry, granted, audit, down, faults>>

\* What surely sets stop: the connection is gone, CLOSE came, or shutdown
StopReason(a) == conn[a] = "down" \/ cli[a] = "closing" \/ down = "stopping"

\* A pump or the watchdog sets stop and _serve_shell wakes up
Stop(a) ==
    /\ srv[a] = "running" /\ StopReason(a)
    /\ srv' = [srv EXCEPT ![a] = "teardown"]
    /\ UNCHANGED <<cvars, conn, child, registry, granted, audit, down, faults>>

\* The watchdog: no byte for SHELL_IDLE_TIMEOUT; or the end of the pty, which
\* comes after bash has gone, but not while a background job keeps it open
IdleStop(a) ==
    /\ srv[a] = "running" /\ ~StopReason(a)
    /\ srv' = [srv EXCEPT ![a] = "teardown"]
    /\ UNCHANGED <<cvars, conn, child, registry, granted, audit, down, faults>>

\* Mutant: bash gets its signal, and nobody waits for it before the rest
Reap_NoWait(a) ==
    /\ srv[a] = "teardown" /\ srv' = [srv EXCEPT ![a] = "reaping"]
    /\ UNCHANGED <<cvars, conn, child, registry, granted, audit, down, faults>>

\* SIGTERM, two seconds, SIGKILL, and wait for the process
Reap(a) ==
    /\ srv[a] = "teardown" /\ srv' = [srv EXCEPT ![a] = "reaping"]
    /\ child' = [child EXCEPT ![a] = IF @ = "alive" THEN "dead" ELSE @]
    /\ UNCHANGED <<cvars, conn, registry, granted, audit, down, faults>>

\* The end of _serve_shell: fds, connection, registry, and the shell_close entry
CloseSession(a) ==
    /\ srv[a] = "reaping" /\ srv' = [srv EXCEPT ![a] = "closed"]
    /\ conn' = [conn EXCEPT ![a] = "down"]
    /\ teardowns' = teardowns \ {a} /\ counts' = [counts EXCEPT ![By[a]] = @ - 1]
    /\ \E recorded \in BOOLEAN :
         /\ AppendEntry(recorded)
         /\ closed' = IF recorded THEN closed \cup {a} ELSE closed
    /\ UNCHANGED <<cvars, child, granted, opened, down>>

-----------------------------------------------------------------------------
(* Permissions and the server's daemon *)

SetPermission(p) ==
    /\ Fault /\ granted' = IF p \in granted THEN granted \ {p} ELSE granted \cup {p}
    /\ UNCHANGED <<cvars, conn, srv, child, registry, audit, down>>

\* shutdown sets every stop event and does not wait for the sessions
ShutdownBegins ==
    /\ down = "up" /\ Fault /\ down' = "stopping"
    /\ UNCHANGED <<cvars, conn, srv, child, registry, granted, audit>>

\* The process ends: its ptys hang up, its connections close
ShutdownEnds ==
    /\ down = "stopping" /\ down' = "down"
    /\ srv' = [a \in Attempt |-> IF srv[a] \in {"none", "refused"} THEN srv[a] ELSE "closed"]
    /\ child' = [a \in Attempt |-> IF child[a] = "alive" THEN "dead" ELSE child[a]]
    /\ conn' = [a \in Attempt |-> IF conn[a] = "up" THEN "down" ELSE conn[a]]
    /\ teardowns' = {} /\ counts' = [p \in Peer |-> 0]
    /\ UNCHANGED <<cvars, granted, audit, faults>>

ServerStarts ==
    /\ down = "down" /\ down' = "up"
    /\ UNCHANGED <<cvars, conn, srv, child, registry, granted, audit, faults>>

Next ==
    \/ \E a \in Attempt :
         \/ WebOpen(a) \/ WebResult(a) \/ WebGivesUp(a) \/ WebLeaves(a)
         \/ OpenRaises(a) \/ Acquire(a) \/ Connect(a) \/ ClientStreams(a) \/ OpenFails(a) \/ ConnDrops(a)
         \/ ClientShutdown(a) \/ AcloseEnd(a)
         \/ Refuse(a) \/ Accept(a) \/ Spawn(a) \/ Run(a) \/ ChildExits(a)
         \/ ServeFails(a) \/ Stop(a) \/ IdleStop(a) \/ Reap(a) \/ CloseSession(a)
    \/ \E p \in Peer : SetPermission(p)
    \/ ShutdownBegins \/ ShutdownEnds \/ ServerStarts

\* The server's loop runs its tasks, and its ten-second timeouts fire; the
\* client's loop runs _aclose, and its timeouts fire; the relay thread ends the
\* WebSocket when the session is over.  A user need not leave.
Fairness ==
    /\ \A a \in Attempt : /\ WF_vars(ServeFails(a) \/ Spawn(a) \/ Run(a)) /\ WF_vars(Stop(a))
                          /\ WF_vars(Reap(a)) /\ WF_vars(CloseSession(a))
                          /\ WF_vars(AcloseEnd(a)) /\ WF_vars(OpenFails(a) \/ ClientStreams(a))
    /\ \A a \in Attempt : WF_vars(conn[a] = "down" /\ WebLeaves(a))
    /\ WF_vars(ShutdownEnds)

Spec == Init /\ [][Next]_vars
FairSpec == Spec /\ Fairness

-----------------------------------------------------------------------------
(* Properties *)

\* Every variable holds a value of its kind.
TypeOK ==
    /\ web \in [Attempt -> {"none", "waiting", "live", "gone"}]
    /\ cli \in [Attempt -> CliStates] /\ srv \in [Attempt -> SrvStates]
    /\ sem \in [Peer -> 0..MaxSessions] /\ sessions \subseteq Attempt
    /\ conn \in [Attempt -> {"none", "up", "down"}]
    /\ child \in [Attempt -> {"none", "alive", "dead"}]
    /\ teardowns \subseteq Attempt /\ counts \in [Peer -> 0..MaxPerPeer]
    /\ granted \subseteq Peer /\ opened \subseteq Attempt /\ closed \subseteq Attempt
    /\ down \in {"up", "stopping", "down"}
    /\ faults \in 0..MaxFaults

Alive == {a \in Attempt : child[a] = "alive"}
Of(p) == {a \in Attempt : By[a] = p}

\* However sessions open, fail, time out and are torn down, no more bash
\* processes run than the global cap and the cap per peer allow, the ones that
\* are being killed included.
ChildrenCapped == /\ Cardinality(Alive) <= MaxSessions
                  /\ \A p \in Peer : Cardinality(Alive \cap Of(p)) <= MaxPerPeer

Holding == {a \in Attempt : cli[a] \in {"connect", "open", "closing"}}

\* A client's permits are never lost or made up: each one is free or held by
\* one attempt that is connecting, open or closing, on every way out of
\* open_peer_shell and with a close by the browser racing one by shutdown.
PermitsConserved == \A p \in Peer : sem[p] + Cardinality(Holding \cap Of(p)) = MaxSessions

\* The trust log tells the truth about the end of a session: from its
\* shell_close entry on the bash is gone, and the session counts against neither
\* cap, whichever of the pumps, the watchdog, a failure or the shutdown ended it.
ClosedMeansGone == \A a \in closed : child[a] # "alive" /\ a \notin teardowns

\* bash does not outlive its connection: once the connection is down, whoever
\* closed it, the process is killed and the session leaves the caps.
ShellReaped == \A a \in Attempt :
    (conn[a] = "down" /\ a \in teardowns) ~> (child[a] # "alive" /\ a \notin teardowns)

\* A session that the dashboard owns gives its permit back once its connection
\* is down.  (One that the web thread gave up waiting for has no owner: nobody
\* closes it, and it holds its permit until the engine stops.)
PermitReturns == \A a \in Attempt :
    (web[a] = "live" /\ conn[a] = "down") ~> cli[a] = "closed"

\* A process that runs counts as running, whatever the registry says of it
PhaseOf(s, c) == IF c = "alive" THEN "running"
                 ELSE IF s \in {"none", "refused"} THEN "new"
                 ELSE IF s = "closed" THEN "closed"
                 ELSE IF c = "dead" THEN "ended" ELSE "admitted"

Phase == [a \in Attempt |-> PhaseOf(srv[a], child[a])]

Service == INSTANCE ShellService WITH phase <- Phase

\* _serve_shell, with its teardown, the watchdog and the shutdown, implements
\* the abstract service: a session leaves the caps only when its bash is gone,
\* and no attempt is served twice.
ImplementsService == Service!Spec
=============================================================================
