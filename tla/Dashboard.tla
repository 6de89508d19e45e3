----------------------------- MODULE Dashboard -----------------------------
(***************************************************************************)
(* What the web dashboard shows about a monitored peer: the queries of     *)
(* src/src/history.py over the probe rows, and the page that an HTTP       *)
(* thread of src/src/webapp.py puts together from them while the event     *)
(* loop goes on (PeerMonitor).  Each query takes the store's lock for      *)
(* itself, and the status is read last, so a page mixes several instants.  *)
(* A page keeps the state objects it listed at its start; a device reload  *)
(* would replace them, so the module is for instances without reloads.     *)
(*                                                                         *)
(* A percentage is the pair of what it divides.  One tick is one second.   *)
(***************************************************************************)
EXTENDS PeerMonitor, SequencesExt

CONSTANTS
    DAY,      \* 24 h, of the uptime figure
    MONTH,    \* 720 h, how far back incidents go
    HOUR,     \* 3600 s
    Hours,    \* hours asked of hourly_uptime_buckets
    Limit,    \* how many incidents and beats a page lists at most
    PageMax   \* bound: the longest a page takes, far less than 29 days

ASSUME ViewAssumption == /\ {DAY, MONTH, HOUR, Hours, Limit} \subseteq Nat \ {0}
                         /\ PageMax \in Nat /\ DAY + PageMax <= MONTH

VARIABLE page  \* the page being built or shown

NoPage == [pc |-> "none"]
None == -1  \* no timestamp

-----------------------------------------------------------------------------
(* HistoryStore queries *)

Between(p, from, to) == {r \in hist[p] : from <= r.ts /\ r.ts <= to}
Alive(rows) == Cardinality({r \in rows : r.st = "ALIVE"})
Sorted(rows) == [i \in 1..Cardinality(rows) |->
                    CHOOSE r \in rows : Cardinality({q \in rows : q.ts < r.ts}) = i - 1]

Share(rows) == [ok |-> Alive(rows), total |-> Cardinality(rows)]

uptime_percent(p, span) == Share(Between(p, now - span, now))

\* Mutant: the first bucket is an hour early
StartHour_Early == (now \div HOUR) * HOUR - Hours * HOUR

\* The start of the oldest of the Hours hours, the current one included
StartHour == (now \div HOUR) * HOUR - (Hours - 1) * HOUR

\* The rows of bucket i, by the start of their hour
Bucket(p, i) ==
    {r \in hist[p] : /\ StartHour <= r.ts /\ r.ts < (now \div HOUR) * HOUR + HOUR
                     /\ ((r.ts \div HOUR) * HOUR - StartHour) \div HOUR = i - 1}

hourly_uptime_buckets(p) == [i \in 1..Hours |-> Share(Bucket(p, i))]

\* The newest rows, oldest first
recent_beats(p) ==
    LET all == Sorted(hist[p])
    IN  SubSeq(all, IF Len(all) > Limit THEN Len(all) - Limit + 1 ELSE 1, Len(all))

rtt_stats(p) == LET rows == {r \in hist[p] : r.ts >= now - DAY}
                IN  [probes |-> Cardinality(rows), alive |-> Alive(rows),
                     dead |-> Cardinality(rows) - Alive(rows)]

Incident(start, end, dur) == [started |-> start, ended |-> end, duration |-> dur]

\* Mutant: every failed row opens an incident, also inside one
Opens_Every(acc, r) == r.st # "ALIVE"

\* A row that failed after one that did not, or after none
Opens(acc, r) == r.st # "ALIVE" /\ acc.prev \in {"none", "ALIVE"}

\* One turn of the loop of incidents
IncidentStep(acc, r) ==
    [prev |-> r.st,
     open |-> CASE Opens(acc, r) -> r.ts
                [] r.st = "ALIVE" -> None
                [] OTHER -> acc.open,
     list |-> IF r.st = "ALIVE" /\ acc.prev \notin {"none", "ALIVE"} /\ acc.open # None
              THEN Append(acc.list, Incident(acc.open, r.ts, r.ts - acc.open)) ELSE acc.list]

\* The loop over the rows, oldest first
IncidentLoop(rows) ==
    LET acc[i \in 0..Len(rows)] ==
            IF i = 0 THEN [prev |-> "none", open |-> None, list |-> <<>>]
            ELSE IncidentStep(acc[i - 1], rows[i])
    IN  acc[Len(rows)]

\* Oldest first; one that is still open at the end of the rows has no end
AllIncidents(rows) ==
    LET acc == IncidentLoop(rows)
    IN  IF acc.open = None THEN acc.list
        ELSE Append(acc.list, Incident(acc.open, None, Last(rows).ts - acc.open))

\* Mutant: incidents go back as far as the uptime figure only
Recent_Day(p) == {r \in hist[p] : r.ts >= now - DAY}

Recent(p) == {r \in hist[p] : r.ts >= now - MONTH}

\* Newest first
incidents(p) ==
    LET all == AllIncidents(Sorted(Recent(p)))
    IN  SubSeq(Reverse(all), 1, IF Len(all) > Limit THEN Limit ELSE Len(all))

-----------------------------------------------------------------------------
(* WebApp._build_peers and _build_dashboard, for one peer *)

ViewInit == Init /\ page = NoPage

Monitor == /\ Next /\ UNCHANGED page
           /\ page # NoPage => now' - page.at <= PageMax

PageStart(p) ==
    /\ page = NoPage /\ p \in devs
    /\ page' = [pc |-> "uptime", peer |-> p, at |-> now, maint |-> in_maintenance(p, now),
                uptime |-> uptime_percent(p, DAY)]
    /\ UNCHANGED vars

PageBeats ==
    /\ page.pc = "uptime"
    /\ page' = [pc |-> "beats", peer |-> page.peer, at |-> page.at, maint |-> page.maint,
                uptime |-> page.uptime, beats |-> recent_beats(page.peer)]
    /\ UNCHANGED vars

PageIncidents ==
    /\ page.pc = "beats"
    /\ page' = [pc |-> "incidents", peer |-> page.peer, at |-> page.at, maint |-> page.maint,
                uptime |-> page.uptime, beats |-> page.beats,
                incidents |-> incidents(page.peer)]
    /\ UNCHANGED vars

\* The fleet's status: down, or else degraded by maintenance
fleet_status(st, maint) == IF st = "DEAD" THEN "down"
                           ELSE IF maint THEN "degraded" ELSE "operational"

\* The latency figures and the status
PageShown ==
    /\ page.pc = "incidents"
    /\ LET st == dev[page.peer].status
       IN  page' = [pc |-> "shown", peer |-> page.peer, at |-> page.at, maint |-> page.maint,
                    uptime |-> page.uptime, beats |-> page.beats,
                    incidents |-> page.incidents, rtt |-> rtt_stats(page.peer),
                    status |-> st, fleet |-> fleet_status(st, page.maint)]
    /\ UNCHANGED vars

\* The answer is sent, and the thread is done
PageSent == page.pc = "shown" /\ page' = NoPage /\ UNCHANGED vars

ViewNext == \/ Monitor \/ \E p \in Peer : PageStart(p)
            \/ PageBeats \/ PageIncidents \/ PageShown \/ PageSent

ViewSpec == ViewInit /\ [][ViewNext]_<<vars, page>>

-----------------------------------------------------------------------------
(* Properties *)

\* A failure with no failure just before it
FirstFailures(rows) ==
    {r \in rows : /\ r.st = "DEAD"
                  /\ \A q \in rows : (q.ts < r.ts /\ q.st = "DEAD") =>
                        \E a \in rows : a.st = "ALIVE" /\ q.ts < a.ts /\ a.ts < r.ts}

\* The times of the successes after a row
Recoveries(rows, r) == {a.ts : a \in {b \in rows : b.st = "ALIVE" /\ b.ts > r.ts}}

\* The outages that rows show: from a first failure to the next success
Outages(rows) ==
    {IF Recoveries(rows, r) = {} THEN Incident(r.ts, None, Newest(rows).ts - r.ts)
     ELSE Incident(r.ts, Min(Recoveries(rows, r)), Min(Recoveries(rows, r)) - r.ts) :
     r \in FirstFailures(rows)}

\* The outages that an edge from ALIVE begins
EdgeOutages(rows) ==
    {o \in Outages(rows) : \E a \in rows : a.st = "ALIVE" /\ a.ts < o.started}

\* The single pass of incidents reports the outages that its docstring defines
\* by edges: each with its own end and length, newest first, and it drops one
\* only for Limit newer ones.  Beside them it can list one outage that no edge
\* opens, the oldest, when the window begins inside it: the code opens an
\* incident at a failing first row, which the docstring does not say.
IncidentsAreOutages ==
    \A p \in Peer :
        LET list == incidents(p)
            rows == Recent(p)
            edges == EdgeOutages(rows)
        IN  /\ \A i \in 1..Len(list) :
                  \/ list[i] \in edges
                  \/ /\ i = Len(list) /\ list[i] \in Outages(rows)
                     /\ \A r \in rows : list[i].started <= r.ts
            /\ \A i \in 1..(Len(list) - 1) : list[i].started > list[i + 1].started
            /\ \A o \in edges \ ToSet(list) :
                  Len(list) = Limit /\ o.started < Last(list).started

Total(f) == LET upTo[i \in 0..Len(f)] == IF i = 0 THEN 0 ELSE upTo[i - 1] + f[i]
            IN  upTo[Len(f)]

\* Two queries over the same hours agree: the hourly buckets add up to the
\* uptime over the time they span, no row is in two hours or in none.
BucketsAddUp ==
    \A p \in Peer :
        LET b == hourly_uptime_buckets(p)
            u == uptime_percent(p, now - StartHour)
        IN  /\ Total([i \in 1..Hours |-> b[i].ok]) = u.ok
            /\ Total([i \in 1..Hours |-> b[i].total]) = u.total
            /\ \A i \in 1..Hours : b[i].total > 0 =>
                  \E r \in hist[p] : r.ts \div HOUR = (now \div HOUR) - Hours + i

\* A page explains what it shows, though its parts are read at different
\* times: an uptime below 100 %, or a failed beat of the last days, comes with
\* at least one incident.
DowntimeExplained ==
    page.pc = "shown" =>
        \/ page.incidents # <<>>
        \/ /\ page.uptime.ok = page.uptime.total
           /\ \A r \in ToSet(page.beats) : r.st = "ALIVE" \/ r.ts < page.at - DAY
=============================================================================
