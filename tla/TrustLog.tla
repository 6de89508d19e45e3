------------------------------ MODULE TrustLog ------------------------------
(***************************************************************************)
(* The signed trust log (src/src/log.py), the peer view derived from it    *)
(* (src/src/trust.py) and the processes that share log.jsonl:              *)
(*                                                                         *)
(*   - the daemon's event loop, which appends monitor and shell events and *)
(*     re-reads the file on every heartbeat cycle;                         *)
(*   - the daemon's control-socket and dashboard handler threads, which    *)
(*     run the trust mutations and POST /v1/reload;                        *)
(*   - a command-line process that finds no control socket and therefore   *)
(*     loads and appends to the file itself.                               *)
(*                                                                         *)
(* A line of the file is an entry.  SHA-256 is taken to be injective, so   *)
(* the hash of an entry is the number of the signature it carries.         *)
(* Modification times are the number of writes made to the file: two       *)
(* writes never share one.                                                 *)
(***************************************************************************)
EXTENDS Integers, Sequences, FiniteSets

CONSTANTS
    Peer,       \* remote node ids
    Perms,      \* the permission sets an operator may grant
    Alias,      \* aliases
    Tag,        \* tags
    Loop,       \* the event-loop thread
    Control,    \* the control-socket and dashboard handler threads
    None,       \* no thread
    TailMax,    \* _MONITOR_EVENT_TAIL
    MaxAppends, \* bound: appends to the log, by any process
    Races       \* environment events this instance admits, see below

(***************************************************************************)
(* "stat_window"  a reload may stat the file between another thread's      *)
(*                write and the stat by which that append records it       *)
(* "cli_overlap"  a command-line process may use the file while a daemon   *)
(*                runs without its control socket                          *)
(* "write_fail"   writing a line may fail (disk full, permissions)         *)
(***************************************************************************)
ASSUME RacesAssumption == Races \subseteq {"stat_window", "cli_overlap", "write_fail"}
ASSUME ThreadAssumption == Loop \notin Control /\ None \notin Control \cup {Loop}
ASSUME TagAssumption == Tag \cap UNION Perms = {}
ASSUME BoundAssumption == TailMax \in Nat \ {0} /\ MaxAppends \in Nat

Thread == {Loop} \cup Control

VARIABLES
    disk,      \* the lines of log.jsonl
    ver,       \* its modification time
    up,        \* a daemon is running
    sock,      \* the control socket file exists
    mem,       \* TrustLog._entries of the daemon
    tail,      \* TrustLog._monitor_tail
    lastVer,   \* TrustLog._last_mtime
    view,      \* PeerTrustManager._peers_by_nid
    pc,        \* what each daemon thread does next
    cur,       \* the entry a thread's mutation has appended
    buf,       \* the entries a reload has read and verified
    logLock,   \* holder of TrustLog._lock across steps
    trustLock, \* holder of PeerTrustManager._lock across steps
    cli,       \* the command-line process
    cliMem,    \* the entries it has loaded
    appends,   \* entries signed so far, by any process
    acked      \* ghost: entries whose mutation returned True

daemonVars == <<up, sock, mem, tail, lastVer, view, pc, cur, buf, logLock, trustLock>>
vars == <<disk, ver, daemonVars, cli, cliMem, appends, acked>>

-----------------------------------------------------------------------------
(* Entries, the chain, and the view it stands for *)

PeerOps == {"add_peer", "revoke_peer", "update_permissions", "add_peer_alias",
            "set_tags", "set_maintenance", "clear_maintenance"}
OpTypes == PeerOps \cup {"genesis", "monitor", "shell"}
ZeroHash == 0

\* arg is the set of permissions, tags or the alias the operation carries
Op(type, p, arg) == [type |-> type, peer |-> p, arg |-> arg]
\* Mutant: the first entry is of a type the log does not know
Genesis_Unknown == Op("init", None, {})
Genesis == Op("genesis", None, {})
\* what a write that stopped half-way leaves in the file: it does not parse
TornLine == [seq |-> -1, op |-> Op("torn", None, {}), prev |-> -1, hash |-> -1]

LogHead(s) == IF s = <<>> THEN [seq |-> -1, hash |-> ZeroHash]
            ELSE [seq |-> s[Len(s)].seq, hash |-> s[Len(s)].hash]

\* The entry append signs on top of s
NewEntry(s, op) == [seq |-> LogHead(s).seq + 1, op |-> op,
                    prev |-> LogHead(s).hash, hash |-> appends + 1]

VerifyChain(s) ==
    \A i \in 1..Len(s) :
        /\ s[i].seq = i - 1
        /\ s[i].prev = IF i = 1 THEN ZeroHash ELSE s[i - 1].hash
        /\ s[i].op.type \in OpTypes

Unknown == [present |-> FALSE, revoked |-> FALSE, perms |-> {},
            alias |-> {}, tags |-> {}, maint |-> FALSE]
NoPeers == [p \in Peer |-> Unknown]

\* Mutant: any update of a record clears its revocation
ApplyOp_Revives(peers, op) ==
    IF op.type \notin PeerOps THEN peers
    ELSE [peers EXCEPT ![op.peer] =
            [@ EXCEPT !.present = TRUE, !.revoked = (op.type = "revoke_peer")]]

\* One step of materialize_peers: add_peer starts a fresh record, every other
\* operation touches a record only if there is one
ApplyOp(peers, op) ==
    IF op.type \notin PeerOps THEN peers
    ELSE IF op.type = "add_peer"
         THEN [peers EXCEPT ![op.peer] =
                 [Unknown EXCEPT !.present = TRUE, !.perms = op.arg \ Tag,
                                 !.tags = op.arg \cap Tag]]
    ELSE IF ~peers[op.peer].present THEN peers
    ELSE [peers EXCEPT ![op.peer] =
            CASE op.type = "revoke_peer" -> [@ EXCEPT !.revoked = TRUE]
              [] op.type = "update_permissions" -> [@ EXCEPT !.perms = op.arg]
              [] op.type = "add_peer_alias" -> [@ EXCEPT !.alias = op.arg]
              [] op.type = "set_tags" -> [@ EXCEPT !.tags = op.arg]
              [] op.type = "set_maintenance" -> [@ EXCEPT !.maint = TRUE]
              [] op.type = "clear_maintenance" -> [@ EXCEPT !.maint = FALSE]]

Materialize(s) ==
    LET upTo[i \in 0..Len(s)] ==
            IF i = 0 THEN NoPeers ELSE ApplyOp(upTo[i - 1], s[i].op)
    IN  upTo[Len(s)]

IsMonitorEvent(e) == e.op.type = "monitor"
Trim(s) == IF Len(s) <= TailMax THEN s ELSE SubSeq(s, Len(s) - TailMax + 1, Len(s))
MonitorEvents(s) ==
    LET upTo[i \in 0..Len(s)] ==
            IF i = 0 THEN <<>>
            ELSE IF IsMonitorEvent(s[i]) THEN Append(upTo[i - 1], s[i]) ELSE upTo[i - 1]
    IN  upTo[Len(s)]
MonitorTailFrom(s) == Trim(MonitorEvents(s))

\* What load and ensure_genesis leave in the file
Loaded(s) == IF s = <<>> THEN <<NewEntry(s, Genesis)>> ELSE s

-----------------------------------------------------------------------------
(* The mutations of PeerTrustManager: the operations each method appends   *)
(* when the peer view is v.  A method that refuses appends nothing.        *)

Active(v, p) == v[p].present /\ ~v[p].revoked

add_peer(v) == {Op("add_peer", p, a \cup t) :
                    p \in {q \in Peer : ~Active(v, q)}, a \in Perms, t \in SUBSET Tag}
revoke_peer(v) == {Op("revoke_peer", p, {}) : p \in {q \in Peer : Active(v, q)}}
update_permissions(v) == {Op("update_permissions", p, a) :
                    p \in {q \in Peer : Active(v, q)}, a \in Perms}
set_alias(v) == {Op("add_peer_alias", p, {a}) : p \in {q \in Peer : v[q].present}, a \in Alias}
\* set_tags, add_tag and remove_tag: any new set, but the last two only a change
set_tags(v) == {Op("set_tags", p, t) : p \in {q \in Peer : v[q].present}, t \in SUBSET Tag}
set_maintenance(v) == {Op("set_maintenance", p, {}) : p \in {q \in Peer : v[q].present}}
clear_maintenance(v) == {Op("clear_maintenance", p, {}) :
                    p \in {q \in Peer : v[q].present /\ v[q].maint}}

Mutations(v) == add_peer(v) \cup revoke_peer(v) \cup update_permissions(v)
                \cup set_alias(v) \cup set_tags(v)
                \cup set_maintenance(v) \cup clear_maintenance(v)

\* Events the engine records from the loop: status changes and shell sessions
Events == {Op("monitor", p, {}) : p \in Peer} \cup {Op("shell", p, {}) : p \in Peer}

verify_and_authorize(v, p, protocol) ==
    Active(v, p) /\ (protocol \in v[p].perms \/ "*" \in v[p].perms)

-----------------------------------------------------------------------------
(* The daemon *)

Stopped == /\ mem' = <<>> /\ tail' = <<>> /\ lastVer' = 0 /\ view' = NoPeers
           /\ pc' = [t \in Thread |-> "idle"]
           /\ cur' = [t \in Thread |-> None]
           /\ buf' = [t \in Thread |-> <<>>]
           /\ logLock' = None /\ trustLock' = None

Init == /\ disk = <<>> /\ ver = 0 /\ up = FALSE /\ sock = FALSE
        /\ mem = <<>> /\ tail = <<>> /\ lastVer = 0 /\ view = NoPeers
        /\ pc = [t \in Thread |-> "idle"]
        /\ cur = [t \in Thread |-> None]
        /\ buf = [t \in Thread |-> <<>>]
        /\ logLock = None /\ trustLock = None
        /\ cli = "idle" /\ cliMem = <<>> /\ appends = 0 /\ acked = {}

\* Loading an empty log writes the genesis entry
LoadDisk == /\ VerifyChain(disk)
            /\ disk' = Loaded(disk)
            /\ disk = <<>> => appends < MaxAppends
            /\ IF disk = <<>> THEN ver' = ver + 1 /\ appends' = appends + 1
               ELSE UNCHANGED <<ver, appends>>

\* _build_trust, then MonitorEngine.init.  A log that does not verify raises
\* and the daemon does not start.  The control socket replaces a stale one;
\* binding it may fail and the daemon carries on without it
StartDaemon ==
    /\ ~up
    /\ cli = "idle" \/ "cli_overlap" \in Races
    /\ LoadDisk
    /\ up' = TRUE
    /\ sock' \in {TRUE} \cup (IF "cli_overlap" \in Races THEN {FALSE} ELSE {})
    /\ mem' = disk' /\ tail' = MonitorTailFrom(disk') /\ lastVer' = ver'
    /\ view' = Materialize(disk')
    /\ UNCHANGED <<pc, cur, buf, logLock, trustLock, cli, cliMem, acked>>

\* An orderly stop unlinks the socket, a crash leaves it behind; either may
\* find handler threads (daemon threads) in the middle of a request
StopDaemon ==
    /\ up /\ up' = FALSE
    /\ sock' \in {FALSE, sock}
    /\ Stopped
    /\ UNCHANGED <<disk, ver, cli, cliMem, appends, acked>>

\* Mutant: the line is buffered and never reaches the file
AppendLine_Unflushed(t, op) ==
    /\ logLock = None
    /\ appends < MaxAppends /\ appends' = appends + 1
    /\ mem' = Append(mem, NewEntry(mem, op))
    /\ tail' = MonitorTailFrom(mem')
    /\ logLock' = t /\ UNCHANGED <<disk, ver>>

\* append, up to and including the write of the line
AppendLine(t, op) ==
    LET e == NewEntry(mem, op) IN
    /\ logLock = None
    /\ appends < MaxAppends /\ appends' = appends + 1
    /\ mem' = Append(mem, e)
    /\ tail' = IF IsMonitorEvent(e) THEN Trim(Append(tail, e)) ELSE tail
    /\ disk' = Append(disk, e) /\ ver' = ver + 1
    /\ logLock' = t

\* A mutation: the check against the view and the append, under the trust lock
Mutate(t) ==
    /\ up /\ pc[t] = "idle" /\ t \in Control
    /\ trustLock = None /\ trustLock' = t
    /\ \E op \in Mutations(view) :
          /\ AppendLine(t, op)
          /\ cur' = [cur EXCEPT ![t] = NewEntry(mem, op)]
    /\ pc' = [pc EXCEPT ![t] = "stamp"]
    /\ UNCHANGED <<up, sock, lastVer, view, buf, cli, cliMem, acked>>

RecordEvent ==
    /\ up /\ pc[Loop] = "idle"
    /\ \E op \in Events : AppendLine(Loop, op)
    /\ pc' = [pc EXCEPT ![Loop] = "stamp"]
    /\ UNCHANGED <<up, sock, lastVer, view, cur, buf, trustLock, cli, cliMem, acked>>

\* The end of append: record the new modification time, release the lock
Stamp(t) ==
    /\ up /\ pc[t] = "stamp"
    /\ lastVer' = ver
    /\ logLock' = None
    /\ pc' = [pc EXCEPT ![t] = IF cur[t] = None THEN "idle" ELSE "rebuild"]
    /\ UNCHANGED <<disk, ver, up, sock, mem, tail, view, cur, buf, trustLock,
                   cli, cliMem, appends, acked>>

\* The write raises after the entry has entered memory: the exception leaves
\* append, releases the locks and skips the rebuild of the view
AppendFails(t, op) ==
    LET e == NewEntry(mem, op) IN
    /\ "write_fail" \in Races
    /\ logLock = None
    /\ appends < MaxAppends /\ appends' = appends + 1
    /\ mem' = Append(mem, e)
    /\ tail' = IF IsMonitorEvent(e) THEN Trim(Append(tail, e)) ELSE tail
    /\ \/ UNCHANGED <<disk, ver>>
       \/ disk' = Append(disk, TornLine) /\ ver' = ver + 1
    /\ UNCHANGED <<up, sock, lastVer, view, pc, cur, buf, logLock, trustLock,
                   cli, cliMem, acked>>

MutateFails(t) ==
    /\ up /\ pc[t] = "idle" /\ t \in Control /\ trustLock = None
    /\ \E op \in Mutations(view) : AppendFails(t, op)

RecordEventFails ==
    /\ up /\ pc[Loop] = "idle"
    /\ \E op \in Events : AppendFails(Loop, op)

\* Mutant: the entries are not verified before they are installed
ReloadRead_Unverified(t) ==
    /\ up /\ pc[t] = "idle" /\ (t \in Control => sock)
    /\ ver > lastVer
    /\ buf' = [buf EXCEPT ![t] = disk]
    /\ pc' = [pc EXCEPT ![t] = "install"]
    /\ UNCHANGED <<disk, ver, up, sock, mem, tail, lastVer, view, cur, logLock,
                   trustLock, cli, cliMem, appends, acked>>

\* reload_if_changed, before the lock: stat, read, verify.  A file that does
\* not verify raises; _check_reload logs it and nothing changes
ReloadRead(t) ==
    /\ up /\ pc[t] = "idle" /\ (t \in Control => sock)
    /\ ver > lastVer
    /\ logLock = None \/ "stat_window" \in Races
    /\ VerifyChain(disk)
    /\ buf' = [buf EXCEPT ![t] = disk]
    /\ pc' = [pc EXCEPT ![t] = "install"]
    /\ UNCHANGED <<disk, ver, up, sock, mem, tail, lastVer, view, cur, logLock,
                   trustLock, cli, cliMem, appends, acked>>

\* Mutants: a reload that forgets the monitor tail, or the peer view
ReloadInstall_NoTail(t) ==
    /\ up /\ pc[t] = "install" /\ logLock = None
    /\ mem' = buf[t] /\ lastVer' = ver
    /\ buf' = [buf EXCEPT ![t] = <<>>]
    /\ pc' = [pc EXCEPT ![t] = "rebuild"]
    /\ UNCHANGED <<disk, ver, up, sock, tail, view, cur, logLock, trustLock,
                   cli, cliMem, appends, acked>>
ReloadInstall_NoRebuild(t) ==
    /\ up /\ pc[t] = "install" /\ logLock = None
    /\ mem' = buf[t] /\ tail' = MonitorTailFrom(buf[t]) /\ lastVer' = ver
    /\ buf' = [buf EXCEPT ![t] = <<>>]
    /\ pc' = [pc EXCEPT ![t] = "idle"]
    /\ UNCHANGED <<disk, ver, up, sock, view, cur, logLock, trustLock,
                   cli, cliMem, appends, acked>>

\* ... under the log lock: install what was read, stat the file again
ReloadInstall(t) ==
    /\ up /\ pc[t] = "install" /\ logLock = None
    /\ mem' = buf[t] /\ tail' = MonitorTailFrom(buf[t])
    /\ lastVer' = ver
    /\ buf' = [buf EXCEPT ![t] = <<>>]
    /\ pc' = [pc EXCEPT ![t] = "rebuild"]
    /\ UNCHANGED <<disk, ver, up, sock, view, cur, logLock, trustLock,
                   cli, cliMem, appends, acked>>

\* _rebuild_from_log, the last step of a mutation (which then returns True)
\* and of a reload
Rebuild(t) ==
    /\ up /\ pc[t] = "rebuild" /\ logLock = None /\ trustLock \in {None, t}
    /\ view' = Materialize(mem)
    /\ acked' = IF cur[t] = None THEN acked ELSE acked \cup {cur[t]}
    /\ cur' = [cur EXCEPT ![t] = None]
    /\ trustLock' = None
    /\ pc' = [pc EXCEPT ![t] = "idle"]
    /\ UNCHANGED <<disk, ver, up, sock, mem, tail, lastVer, buf, logLock,
                   cli, cliMem, appends>>

-----------------------------------------------------------------------------
(* The command line, when control_client.available() says there is no socket *)

\* --fetch-dashboard starts and stops a second engine, whose control socket
\* server unlinks the running daemon's socket
UnlinkSocket ==
    /\ "cli_overlap" \in Races /\ up /\ sock
    /\ sock' = FALSE
    /\ UNCHANGED <<disk, ver, up, mem, tail, lastVer, view, pc, cur, buf, logLock,
                   trustLock, cli, cliMem, appends, acked>>

\* Mutant: the command line never looks for the control socket
CliLoad_NoSocketCheck ==
    /\ cli = "idle" /\ LoadDisk
    /\ cli' = "loaded" /\ cliMem' = disk'
    /\ UNCHANGED <<daemonVars, acked>>

CliLoad ==
    /\ cli = "idle" /\ ~sock
    /\ up => "cli_overlap" \in Races
    /\ LoadDisk
    /\ cli' = "loaded" /\ cliMem' = disk'
    /\ UNCHANGED <<daemonVars, acked>>

\* The mutation against what the process loaded; the process then exits
CliMutate ==
    /\ cli = "loaded"
    /\ appends < MaxAppends /\ appends' = appends + 1
    /\ \E op \in Mutations(Materialize(cliMem)) :
          LET e == NewEntry(cliMem, op) IN
          /\ disk' = Append(disk, e) /\ ver' = ver + 1
          /\ acked' = acked \cup {e}
    /\ cli' = "idle" /\ cliMem' = <<>>
    /\ UNCHANGED daemonVars

\* ... or the mutation is refused
CliExit ==
    /\ cli = "loaded" /\ cli' = "idle" /\ cliMem' = <<>>
    /\ UNCHANGED <<disk, ver, daemonVars, appends, acked>>

Next == \/ StartDaemon \/ StopDaemon \/ RecordEvent \/ RecordEventFails
        \/ UnlinkSocket \/ CliLoad \/ CliMutate \/ CliExit
        \/ \E t \in Thread : \/ Mutate(t) \/ MutateFails(t) \/ Stamp(t)
                             \/ ReloadRead(t) \/ ReloadInstall(t) \/ Rebuild(t)

Spec == Init /\ [][Next]_vars

-----------------------------------------------------------------------------
(* Properties *)

OpRecord == [type : OpTypes \cup {"torn"}, peer : Peer \cup {None},
             arg : SUBSET ((UNION Perms) \cup Tag \cup Alias)]
Line == [seq : Int, op : OpRecord, prev : Int, hash : Int]
ASSUME NoneAssumption == None \notin Line

\* Every variable holds a value of its type (the view and the tail are values
\* computed from the log: ViewFresh and TailOK say which).
TypeOK ==
    /\ disk \in Seq(Line) /\ ver \in Nat
    /\ up \in BOOLEAN /\ sock \in BOOLEAN
    /\ mem \in Seq(Line) /\ lastVer \in Nat
    /\ pc \in [Thread -> {"idle", "stamp", "install", "rebuild"}]
    /\ cur \in [Thread -> Line \cup {None}]
    /\ buf \in [Thread -> Seq(Line)]
    /\ logLock \in Thread \cup {None} /\ trustLock \in Thread \cup {None}
    /\ cli \in {"idle", "loaded"} /\ cliMem \in Seq(Line)
    /\ appends \in Nat /\ acked \in SUBSET Line

\* Whatever races with it, the log the daemon works from is a well-formed
\* chain: TrustLog.append extends it and reload_if_changed installs only what
\* _verify_chain accepted, so a fork or a torn line on disk never enters it.
MemChainOK == up => VerifyChain(mem)

\* The incrementally maintained _monitor_tail is at all times what a scan of
\* _entries would return, across appends, failed writes and reloads.
TailOK == tail = MonitorTailFrom(mem)

\* Unless a thread is between changing _entries and rebuilding the peer view,
\* or a failed write has left an entry in memory only (the exception skips
\* _rebuild_from_log), authorization decisions are made on the replay of the
\* daemon's own log, whichever threads reloaded and mutated, in any order.
ViewFresh == (/\ up /\ \A t \in Thread : pc[t] \notin {"stamp", "rebuild"}
              /\ \A i \in DOMAIN mem : \E j \in DOMAIN disk : disk[j] = mem[i])
                => view = Materialize(mem)

\* The next load of log.jsonl, by a restarted daemon or by the command line,
\* verifies: log.py's docstring says this is what the lock in append is for.
DiskLoads == VerifyChain(disk)

\* A mutation that returned True is in the file, and in force in a running
\* daemon: not lost by a reload, a crash or a restart.
AckedInForce ==
    \A e \in acked : /\ \E i \in 1..Len(disk) : disk[i] = e
                     /\ up => \E i \in 1..Len(mem) : mem[i] = e

\* The newest entry that decides what peer p may do grants the protocol
Granted(s, p, protocol) ==
    \E i \in 1..Len(s) :
        /\ s[i].op.peer = p /\ s[i].op.type \in {"add_peer", "update_permissions"}
        /\ {protocol, "*"} \cap (s[i].op.arg \ Tag) # {}
        /\ \A j \in (i + 1)..Len(s) :
              s[j].op.peer = p => s[j].op.type \notin
                  {"add_peer", "update_permissions", "revoke_peer"}

\* Once the threads are done, a connection is authorized exactly when the file
\* says so: the newest add, permission change or revocation of the peer in
\* log.jsonl is a grant.  No alias, tag or maintenance entry, reload, crash or
\* restart revives a revoked peer or drops a grant.
AuthorizedIffGranted ==
    (up /\ \A t \in Thread : pc[t] = "idle") =>
        \A p \in Peer : \A protocol \in UNION Perms :
            verify_and_authorize(view, p, protocol) <=> Granted(disk, p, protocol)
=============================================================================
