------------------------------ MODULE Coverage ------------------------------
(***************************************************************************)
(* The record of scanned areas behind /discover.  A request names a circle;*)
(* if some recent scan's circle contains it the database answers, otherwise*)
(* the sources are asked and the scan is recorded in the row of its        *)
(* centre's geohash cell.  A scheduler job scans again the areas that were *)
(* asked for lately.                                                       *)
(*                                                                         *)
(* The world is a line: a position is a point, a geohash cell CellSize     *)
(* points, a circle an interval.  Several scans may run at a time; time    *)
(* passes between the decision to scan and the record of the scan, for the *)
(* job too, which looks for its areas once and scans city by city.         *)
(***************************************************************************)
EXTENDS Integers, FiniteSets, FiniteSetsExt, Functions

CONSTANTS
    Ground,      \* all points
    Spot,        \* points requests are made for
    Radius,      \* radii requests ask for
    MaxRadius,   \* settings.discover_max_radius_km
    CellSize,    \* points in a geohash cell of precision 6
    Tolerance,   \* CONTAIN_TOLERANCE_KM
    City,        \* the city of each point
    Stale,       \* settings.discover_stale_minutes, in ticks
    Keep,        \* settings.coverage_rescan_days, in ticks
    MaxTime,     \* bound: ticks
    MaxRunning,  \* bound: scans at a time
    MaxRescans,  \* bound: runs of the rescan job
    None

ASSUME CoverageAssumption ==
    /\ Ground \subseteq Nat /\ Spot \subseteq Ground
    /\ Radius \subseteq 1 .. MaxRadius
    /\ CellSize \in Nat \ {0} /\ Tolerance \in Nat /\ CellSize <= Tolerance + 1
    /\ DOMAIN City = Ground
    /\ {Stale, Keep, MaxTime, MaxRunning, MaxRescans, MaxRadius} \subseteq Nat
    /\ None \notin Nat

\* The mean of points.  Those of points of the ground lie on it.
MeanOf(points) == SumSet(points) \div Cardinality(points)

ASSUME MeansLieOnTheGround ==
    \A points \in (SUBSET Ground) \ {{}} : MeanOf(points) \in Ground

Cell == {p \div CellSize : p \in Ground}
Circle == [at : Spot, radius : Radius]

VARIABLES
    clock,
    center, radius, scannedAt, requestedAt,  \* coverage_cells, by cell
    running,    \* circles being scanned now, with the scans of each
    rescans,    \* runs of the rescan job so far
    groups,     \* rows of each city that this run has yet to scan
    rescan,     \* its scan that is running: circle, and the areas it is for
    covered,    \* when each point was last in the circle of a scan
    visited     \* when a user last asked for a circle in each city

table == <<center, radius, scannedAt, requestedAt>>
rescanning == <<rescans, groups, rescan>>
vars == <<clock, table, running, rescanning, covered, visited>>

Rows == {c \in Cell : center[c] # None}
Cities == {City[p] : p \in Ground}
NoGroups == [k \in Cities |-> {}]
NoRescan == [areas |-> {}]
Scans == SumFunction(running) + IF rescan = NoRescan THEN 0 ELSE 1

Init ==
    /\ clock = 0
    /\ center = [c \in Cell |-> None]
    /\ radius = [c \in Cell |-> None]
    /\ scannedAt = [c \in Cell |-> None]
    /\ requestedAt = [c \in Cell |-> None]
    /\ running = [r \in Circle |-> 0]
    /\ rescans = 0 /\ groups = NoGroups /\ rescan = NoRescan
    /\ covered = [p \in Ground |-> None]
    /\ visited = [k \in Cities |-> None]

Distance(p, q) == IF p <= q THEN q - p ELSE p - q
Larger(t, u) == IF t # None /\ t > u THEN t ELSE u

-----------------------------------------------------------------------------
(* Is an area fresh?                                                       *)

Recent(t) == t # None /\ t >= clock - Stale

EnclosesExactly(c, at, r) == Distance(at, center[c]) + r <= radius[c]
Encloses(c, at, r) == Distance(at, center[c]) + r <= radius[c] + Tolerance

\* coverage_status: a recent scan's circle contains the request's.  ("stale"
\* and "never_scanned" both make the request scan.)
Fresh(at, r) == \E c \in Rows : Encloses(c, at, r) /\ Recent(scannedAt[c])

-----------------------------------------------------------------------------
(* _record_scan.  The row keeps the centre of the cell's first request.    *)

KeepsRadius(c, r) == scannedAt[c] # None /\ Recent(scannedAt[c]) /\ r < radius[c]

Requested(c, at) ==
    /\ center' = [center EXCEPT ![c] = IF @ = None THEN at ELSE @]
    /\ requestedAt' = [requestedAt EXCEPT ![c] = clock]

RecordScan(at, r) ==
    LET c == at \div CellSize IN
    /\ Requested(c, at)
    /\ radius' = [radius EXCEPT ![c] = IF KeepsRadius(c, r) THEN @ ELSE r]
    /\ scannedAt' = [scannedAt EXCEPT ![c] = clock]
    /\ covered' = [p \in Ground |-> IF Distance(p, at) <= r THEN clock ELSE covered[p]]

RecordRequestGrowing(at, r) ==
    LET c == at \div CellSize IN
    /\ Requested(c, at)
    /\ radius' = [radius EXCEPT ![c] = IF @ = None THEN r ELSE Larger(@, r)]
    /\ UNCHANGED <<scannedAt, covered>>

\* Nothing was scanned: the area was fresh, or no source was usable.  Only a
\* row that was never scanned takes the radius.
RecordRequest(at, r) ==
    LET c == at \div CellSize IN
    /\ Requested(c, at)
    /\ radius' = [radius EXCEPT ![c] = IF scannedAt[c] = None THEN Larger(@, r) ELSE @]
    /\ UNCHANGED <<scannedAt, covered>>

-----------------------------------------------------------------------------
(* scan_area.                                                              *)

Visit(at) == visited' = [visited EXCEPT ![City[at]] = clock]

\* The area is fresh and the client does not insist, or no source is usable.
AnswerFromDatabase(at, r, force, usable) ==
    /\ (~force /\ Fresh(at, r)) \/ ~usable
    /\ RecordRequest(at, r)
    /\ Visit(at)
    /\ UNCHANGED <<clock, running, rescanning>>

BeginScan(at, r, force, usable) ==
    /\ force \/ ~Fresh(at, r)
    /\ usable
    /\ Scans < MaxRunning
    /\ running' = [running EXCEPT ![[at |-> at, radius |-> r]] = @ + 1]
    /\ Visit(at)
    /\ UNCHANGED <<clock, table, rescanning, covered>>

FinishScan(at, r) ==
    /\ running[[at |-> at, radius |-> r]] > 0
    /\ RecordScan(at, r)
    /\ running' = [running EXCEPT ![[at |-> at, radius |-> r]] = @ - 1]
    /\ UNCHANGED <<clock, rescanning, visited>>

\* The scan dies before it is recorded: a crash, or two scans that insert the
\* row of one cell (cell is unique, the second flush fails).
FailScan(at, r) ==
    /\ running[[at |-> at, radius |-> r]] > 0
    /\ running' = [running EXCEPT ![[at |-> at, radius |-> r]] = @ - 1]
    /\ UNCHANGED <<clock, table, rescanning, covered, visited>>

-----------------------------------------------------------------------------
(* rescan_recent_cells.  One scan for each city: around the mean of the    *)
(* centres of its recently requested rows, out to the far end of each.     *)

Group(k) == {c \in Rows : City[center[c]] = k /\ requestedAt[c] >= clock - Keep}

StartRescans ==
    /\ groups = NoGroups /\ rescan = NoRescan
    /\ rescans < MaxRescans /\ rescans' = rescans + 1
    /\ groups' = [k \in Cities |-> Group(k)]
    /\ UNCHANGED <<clock, table, running, rescan, covered, visited>>

Mean(group) == MeanOf({center[c] : c \in group})
Capped(r) == IF r > MaxRadius THEN MaxRadius ELSE r

FarEnd(c, at) == Distance(at, center[c]) + radius[c]
Farthest(group, at) == {far \in group : \A c \in group : FarEnd(c, at) <= FarEnd(far, at)}

Area(c) == [at |-> center[c], radius |-> radius[c]]

\* scan_area, forced.  The rows are read again when it is the turn of their city.
Rescan(k, at, r, usable) ==
    /\ groups[k] # {} /\ rescan = NoRescan /\ Scans < MaxRunning
    /\ groups' = [groups EXCEPT ![k] = {}]
    /\ IF usable
       THEN /\ rescan' = [at |-> at, radius |-> r, areas |-> {Area(c) : c \in groups[k]}]
            /\ UNCHANGED <<table, covered>>
       ELSE RecordRequest(at, r) /\ UNCHANGED rescan
    /\ UNCHANGED <<clock, running, rescans, visited>>

RescanCentres(k, usable) ==
    LET at == Mean(groups[k])
        reach == {Distance(at, center[c]) : c \in groups[k]}
    IN  \E r \in reach : (\A s \in reach : s <= r) /\ Rescan(k, at, Capped(Larger(1, r)), usable)

RescanUncapped(k, usable) ==
    LET at == Mean(groups[k])
    IN  \E far \in Farthest(groups[k], at) : Rescan(k, at, FarEnd(far, at), usable)

RescanCity(k, usable) ==
    LET at == Mean(groups[k])
    IN  \E far \in Farthest(groups[k], at) : Rescan(k, at, Capped(FarEnd(far, at)), usable)

FinishRescan ==
    /\ rescan # NoRescan
    /\ RecordScan(rescan.at, rescan.radius)
    /\ rescan' = NoRescan
    /\ UNCHANGED <<clock, running, rescans, groups, visited>>

\* A crash, or a scan that raises: the job ends.
FailRescans ==
    /\ groups # NoGroups \/ rescan # NoRescan
    /\ groups' = NoGroups /\ rescan' = NoRescan
    /\ UNCHANGED <<clock, table, running, rescans, covered, visited>>

Tick ==
    /\ clock < MaxTime
    /\ clock' = clock + 1
    /\ UNCHANGED <<table, running, rescanning, covered, visited>>

-----------------------------------------------------------------------------
Next ==
    \/ Tick
    \/ \E at \in Spot, r \in Radius :
          \/ \E force, usable \in BOOLEAN :
                AnswerFromDatabase(at, r, force, usable) \/ BeginScan(at, r, force, usable)
          \/ FinishScan(at, r) \/ FailScan(at, r)
    \/ StartRescans \/ FinishRescan \/ FailRescans
    \/ \E k \in Cities, usable \in BOOLEAN : RescanCity(k, usable)

Spec == Init /\ [][Next]_vars

-----------------------------------------------------------------------------
(* Properties.                                                             *)

\* The rows are well typed; a row's centre lies in its cell, a row that was
\* ever scanned or asked for has all its columns, and no time is in the future.
TypeOK ==
    LET Time == 0 .. clock
    IN  /\ clock \in 0 .. MaxTime /\ rescans \in 0 .. MaxRescans
        /\ \A c \in Rows : /\ center[c] \in Ground /\ center[c] \div CellSize = c
                           /\ radius[c] \in 1 .. MaxRadius
                           /\ requestedAt[c] \in Time
                           /\ scannedAt[c] \in Time \cup {None}
        /\ \A c \in Cell \ Rows : {radius[c], scannedAt[c], requestedAt[c]} = {None}
        /\ running \in [Circle -> Nat]
        /\ groups \in [Cities -> SUBSET Rows]
        /\ rescan # NoRescan => rescan.at \in Ground /\ rescan.radius \in 1 .. MaxRadius
        /\ covered \in [Ground -> Time \cup {None}]
        /\ visited \in [Cities -> Time \cup {None}]

\* How far a row's circle may overstate what was scanned: the tolerance, and
\* the distance of the centre it keeps from that of a later scan.
Slack == Tolerance + CellSize - 1

Inner(at, r) == {p \in Ground : Distance(p, at) + Slack <= r}

\* An area is called fresh only if every point of it, up to the slack, was in
\* the circle of some scan: rows that keep their first centre, radii that grow
\* and shrink with new scans, requests that scanned nothing and scans that died
\* never add up to a circle nobody scanned (discovery.py:107-135, :138-162).
FreshWasScanned ==
    \A at \in Spot, r \in Radius : Fresh(at, r) => \A p \in Inner(at, r) : covered[p] # None

\* "fresh: a recent scan circle contains the request circle"
\* (discovery.py:110): so every point of it was scanned recently.
FreshIsRecent ==
    \A at \in Spot, r \in Radius : Fresh(at, r) => \A p \in Inner(at, r) : Recent(covered[p])

\* Once a scan is recorded the same request is answered from the database,
\* although the row may keep another centre and another radius: asking again
\* does not scan again (discovery.py:6-12).
ScanMakesFresh ==
    [][\A at \in Spot, r \in Radius : FinishScan(at, r) => Fresh(at, r)']_vars

\* The areas of the group that the largest radius of a scan does not cut off.
InReach == {a \in rescan.areas : Distance(rescan.at, a.at) + a.radius <= MaxRadius}

\* One scan per city is enough (discovery.py:232-233): when it is recorded, every
\* area it was for, but those the largest radius cuts off, was scanned all over and
\* is answered from the database, whatever requests and scans wrote to the rows
\* since the job looked at them.
RescanCoversCity ==
    [][FinishRescan =>
          \A a \in InReach :
              /\ Fresh(a.at, a.radius)'
              /\ \A p \in Ground : Distance(p, a.at) <= a.radius => covered'[p] = clock]_vars

\* "re-scan every distinct area requested in the last COVERAGE_RESCAN_DAYS"
\* (discovery.py:230-231): an area nobody asks for any more is left alone.
RescansOnlyVisited ==
    [][StartRescans =>
          \A k \in Cities : groups'[k] # {} => visited[k] # None /\ visited[k] >= clock - Keep]_vars
=============================================================================
