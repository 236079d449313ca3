----------------------------- MODULE RTreeFuzz -----------------------------
(***************************************************************************)
(* The R-tree persistence fuzz harness, src/test/python/rtree_fuzz.py.    *)
(*                                                                         *)
(* One Python process drives one DuckDB connection `con` through a loop of *)
(* `Iterations` steps.  On every `Cadence`-th step it performs a lifecycle *)
(* event (CHECKPOINT, a soft reload, or a hard restart), on every other    *)
(* step a random INSERT of generated points or a random DELETE of the      *)
(* points inside a rectangle, on the table `tbl` that carries an R-tree    *)
(* index.                                                                  *)
(*                                                                         *)
(* The engine is abstracted to what the harness can observe or trip over:  *)
(*   tbl       the committed rows of fuzz.db's table, row id -> position;  *)
(*   walDirty  fuzz.db.wal holds entries that no checkpoint has absorbed;  *)
(*   con       the live connection: is it open, which catalog is the       *)
(*             default, is the spatial extension loaded into it, does its  *)
(*             database checkpoint when it is closed.                      *)
(* Every committed statement is durable (written to the WAL), so closing a *)
(* connection loses nothing; what can go wrong is that a statement or a    *)
(* reconnection is rejected, which raises in Python and ends the run       *)
(* (pc = "failed").                                                        *)
(*                                                                         *)
(* Geometry is kept at the granularity that decides ST_Within.  A          *)
(* coordinate is doubled: an even value 2c is the grid line c, an odd      *)
(* value 2c+1 the open interval (c, c+1).  ST_GeneratePoints draws points  *)
(* uniformly from a box, so in a box with lo < hi on an axis a point lies  *)
(* on a grid line with probability 0 (odd positions), while in a box with  *)
(* lo = hi every point lies on the line lo.                                *)
(***************************************************************************)
EXTENDS Integers, FiniteSets, Functions

CONSTANTS
    Iterations,   \* for i in range(10000)
    Cadence,      \* if (i % 500 == 0): a lifecycle event
    MaxWidth,     \* MAX_WIDTH
    MaxHeight,    \* MAX_HEIGHT
    PointBound,   \* num_points = randrange(1000), i.e. 0 .. PointBound-1
    NoRect        \* the value of `rect` before any rectangle was sampled

ASSUME IterationsAssumption == Iterations \in Nat
ASSUME CadenceAssumption == Cadence \in Nat \ {0}
\* randrange(MAX_WIDTH - 1) raises unless MAX_WIDTH - 1 >= 1.
ASSUME WidthAssumption == MaxWidth \in Nat /\ MaxWidth >= 2
ASSUME HeightAssumption == MaxHeight \in Nat /\ MaxHeight >= 2
ASSUME PointBoundAssumption == PointBound \in Nat \ {0}

VARIABLES
    pc,             \* "start" | "loop" | "done" | "failed"
    i,              \* the loop index of the next iteration
    checkpoints,    \* the script's counters
    restarts,
    hard_restarts,
    con,            \* the live connection, see ConRecord
    tbl,            \* committed rows of tbl: row id -> position
    ckptTbl,        \* the rows of tbl in fuzz.db's checkpointed image
    nextId,         \* the next row id the engine hands out
    walDirty,       \* fuzz.db.wal holds un-checkpointed entries
    rect            \* the rectangle sampled by the last generate_rectangle

vars == <<pc, i, checkpoints, restarts, hard_restarts, con, tbl, ckptTbl,
          nextId, walDirty, rect>>

(***************************************************************************)
(* Data.                                                                   *)
(***************************************************************************)
\* generate_rectangle: x1 = randrange(MAX_WIDTH - 1), x2 = randrange(x1,
\* MAX_WIDTH), and the same for y.  The set of its possible results.
GenerateRectangle ==
    {r \in [x1 : 0 .. MaxWidth - 2, x2 : 0 .. MaxWidth - 1,
            y1 : 0 .. MaxHeight - 2, y2 : 0 .. MaxHeight - 1] :
        r.x1 <= r.x2 /\ r.y1 <= r.y2}

Point == (0 .. 2 * (MaxWidth - 1)) \X (0 .. 2 * (MaxHeight - 1))

ConRecord == [open : BOOLEAN, catalog : {"fuzz", "memory"},
              ext : BOOLEAN, ckptOnShutdown : BOOLEAN]

\* A connection on fuzz.db, extension loaded, default settings.
FuzzCon == [open |-> TRUE, catalog |-> "fuzz", ext |-> TRUE,
            ckptOnShutdown |-> TRUE]

ClosedCon == [open |-> FALSE, catalog |-> "memory", ext |-> FALSE,
              ckptOnShutdown |-> TRUE]

(***************************************************************************)
(* The rectangle sampler and the two spatial predicates of the workload.   *)
(***************************************************************************)

\* Mutant: points generated up to and including the cell past hi.
AxisPositionsPastHi(lo, hi) ==
    IF lo < hi THEN {2 * c + 1 : c \in lo .. hi} ELSE {2 * lo}

\* The doubled positions on one axis where ST_GeneratePoints can put a point
\* of a box spanning lo .. hi.
AxisPositions(lo, hi) ==
    IF lo < hi THEN {2 * c + 1 : c \in lo .. hi - 1} ELSE {2 * lo}

GeneratedPoints(r) ==
    AxisPositions(r.x1, r.x2) \X AxisPositions(r.y1, r.y2)

\* ST_Within(geom, ST_MakeEnvelope(x1, y1, x2, y2)): the point lies in the
\* interior of the envelope.
Within(p, r) ==
    /\ 2 * r.x1 < p[1] /\ p[1] < 2 * r.x2
    /\ 2 * r.y1 < p[2] /\ p[2] < 2 * r.y2

\* INSERT: the new rows, with fresh ids, join the table.
AppendRows(t, new) ==
    [id \in DOMAIN t \cup DOMAIN new |->
        IF id \in DOMAIN t THEN t[id] ELSE new[id]]

(***************************************************************************)
(* The engine at a (re)connection.  fuzz.db is a checkpointed image        *)
(* `ckptTbl` plus a WAL.  The WAL holds entries of tbl, whose index is an  *)
(* R-tree; replaying them needs the spatial extension loaded into the      *)
(* instance that opens the file.                                           *)
(***************************************************************************)
ReplayOk(dirty, extLoaded) == dirty => extLoaded

\* The table seen after fuzz.db is reopened: the image, plus the replay of
\* every statement the WAL holds when it is dirty.
Recovered(image, dirty) == IF dirty THEN tbl ELSE image

\* Closing a connection checkpoints its databases unless
\* disable_checkpoint_on_shutdown was issued on it.
WalAfterClose(c) == walDirty /\ ~c.ckptOnShutdown
ImageAfterClose(c) == IF c.ckptOnShutdown THEN tbl ELSE ckptTbl

\* An INSERT or DELETE that changes rows is logged in the WAL.
WalAfterWrite(changed) == walDirty \/ changed

\* Mutant: the soft reload also issues the pragma, as the spec's open
\* question suggests doing uniformly.
SoftReloadClosingWithPragma(c) == [c EXCEPT !.ckptOnShutdown = FALSE]

\* The connection the soft reload closes: as it is.
SoftReloadClosing(c) == c

\* The connection the hard restart closes: after PRAGMA
\* disable_checkpoint_on_shutdown.
HardRestartClosing(c) == [c EXCEPT !.ckptOnShutdown = FALSE]

\* A statement of the workload runs against tbl of fuzz.db and calls spatial
\* functions: it needs an open connection whose default catalog is fuzz and
\* which has the extension loaded.
WorkloadOk(c) == c.open /\ c.catalog = "fuzz" /\ c.ext

\* Mutant: the cadence test shifted by one.
IsLifecycleStepShifted == (i + 1) % Cadence = 0

IsLifecycleStep == i % Cadence = 0

(***************************************************************************)
(* Init: the script before its first line.                                 *)
(***************************************************************************)
Init ==
    /\ pc = "start"
    /\ i = 0
    /\ checkpoints = 0
    /\ restarts = 0
    /\ hard_restarts = 0
    /\ con = ClosedCon
    /\ tbl = <<>>
    /\ ckptTbl = <<>>
    /\ nextId = 0
    /\ walDirty = FALSE
    /\ rect = NoRect

(***************************************************************************)
(* Setup: remove fuzz.db, connect to it, LOAD the extension, CREATE TABLE, *)
(* CREATE INDEX ... USING rtree.  The two DDL statements go to the WAL.    *)
(***************************************************************************)
Setup ==
    /\ pc = "start"
    /\ pc' = "loop"
    /\ con' = FuzzCon
    /\ tbl' = <<>>
    /\ ckptTbl' = <<>>
    /\ walDirty' = TRUE
    /\ UNCHANGED <<i, checkpoints, restarts, hard_restarts, nextId, rect>>

\* The loop body runs for i < Iterations.
LoopStep == pc = "loop" /\ i < Iterations

(***************************************************************************)
(* CHECKPOINT on the default catalog; checkpoints += 1.                    *)
(***************************************************************************)
Checkpoint ==
    /\ LoopStep /\ IsLifecycleStep
    /\ IF con.open
          THEN /\ walDirty' = (walDirty /\ con.catalog # "fuzz")
               /\ ckptTbl' = IF con.catalog = "fuzz" THEN tbl ELSE ckptTbl
               /\ checkpoints' = checkpoints + 1
               /\ i' = i + 1
               /\ UNCHANGED pc
          ELSE /\ pc' = "failed"
               /\ UNCHANGED <<walDirty, ckptTbl, checkpoints, i>>
    /\ UNCHANGED <<restarts, hard_restarts, con, tbl, nextId, rect>>

(***************************************************************************)
(* Soft reload: con.close(); con = duckdb.connect("fuzz.db"); LOAD;        *)
(* restarts += 1.  The file is opened, and its WAL replayed, before the    *)
(* extension is loaded into the new connection.                            *)
(***************************************************************************)
SoftReload ==
    /\ LoopStep /\ IsLifecycleStep
    /\ LET closing == SoftReloadClosing(con)
           dirty   == WalAfterClose(closing)
           image   == ImageAfterClose(closing)
       IN  /\ walDirty' = dirty
           /\ ckptTbl' = image
           /\ IF ReplayOk(dirty, FALSE)
                 THEN /\ con' = FuzzCon
                      /\ tbl' = Recovered(image, dirty)
                      /\ restarts' = restarts + 1
                      /\ i' = i + 1
                      /\ UNCHANGED pc
                 ELSE /\ pc' = "failed"
                      /\ con' = ClosedCon
                      /\ UNCHANGED <<tbl, restarts, i>>
    /\ UNCHANGED <<checkpoints, hard_restarts, nextId, rect>>

(***************************************************************************)
(* Hard restart: PRAGMA disable_checkpoint_on_shutdown; con.close();       *)
(* con = duckdb.connect() (in memory); LOAD; ATTACH 'fuzz.db'; USE fuzz;   *)
(* hard_restarts += 1.  The close leaves the WAL as it is; the ATTACH      *)
(* replays it in an instance that has the extension loaded.  LOAD comes    *)
(* before ATTACH in the code's fixed call order, so ReplayOk(dirty, TRUE)  *)
(* always holds and the step has no failure branch.                        *)
(***************************************************************************)
HardRestart ==
    /\ LoopStep /\ IsLifecycleStep
    /\ LET closing == HardRestartClosing(con)
           dirty   == WalAfterClose(closing)
           image   == ImageAfterClose(closing)
       IN  /\ walDirty' = dirty
           /\ ckptTbl' = image
           /\ con' = FuzzCon
           /\ tbl' = Recovered(image, dirty)
           /\ hard_restarts' = hard_restarts + 1
           /\ i' = i + 1
    /\ UNCHANGED <<pc, checkpoints, restarts, nextId, rect>>

(***************************************************************************)
(* generate_insert: sample a rectangle and num_points, INSERT the points   *)
(* ST_GeneratePoints draws in it, print the inserted row count.            *)
(***************************************************************************)
GenerateInsert ==
    /\ LoopStep /\ ~IsLifecycleStep
    /\ \E r \in GenerateRectangle, k \in 0 .. PointBound - 1 :
         \E place \in [nextId .. nextId + k - 1 -> GeneratedPoints(r)] :
           /\ rect' = r
           /\ IF WorkloadOk(con)
                 THEN /\ tbl' = AppendRows(tbl, place)
                      /\ nextId' = nextId + k
                      /\ walDirty' = WalAfterWrite(k > 0)
                      /\ i' = i + 1
                      /\ UNCHANGED pc
                 ELSE /\ pc' = "failed"
                      /\ UNCHANGED <<tbl, nextId, walDirty, i>>
    /\ UNCHANGED <<checkpoints, restarts, hard_restarts, con, ckptTbl>>

(***************************************************************************)
(* generate_delete: sample a rectangle, DELETE the rows within it, print   *)
(* the deleted row count.                                                  *)
(***************************************************************************)
GenerateDelete ==
    /\ LoopStep /\ ~IsLifecycleStep
    /\ \E r \in GenerateRectangle :
         LET gone == {id \in DOMAIN tbl : Within(tbl[id], r)}
         IN  /\ rect' = r
             /\ IF WorkloadOk(con)
                   THEN /\ tbl' = Restrict(tbl, DOMAIN tbl \ gone)
                        /\ walDirty' = WalAfterWrite(gone # {})
                        /\ i' = i + 1
                        /\ UNCHANGED pc
                   ELSE /\ pc' = "failed"
                        /\ UNCHANGED <<tbl, walDirty, i>>
    /\ UNCHANGED <<checkpoints, restarts, hard_restarts, con, ckptTbl,
                   nextId>>

(***************************************************************************)
(* After the loop the script prints the three counters and exits.          *)
(***************************************************************************)
Finish ==
    /\ pc = "loop" /\ i = Iterations
    /\ pc' = "done"
    /\ UNCHANGED <<i, checkpoints, restarts, hard_restarts, con, tbl,
                   ckptTbl, nextId, walDirty, rect>>

Next ==
    \/ Setup
    \/ Checkpoint
    \/ SoftReload
    \/ HardRestart
    \/ GenerateInsert
    \/ GenerateDelete
    \/ Finish

Spec == Init /\ [][Next]_vars

(***************************************************************************)
(* Properties.                                                             *)
(***************************************************************************)

TypeOK ==
    /\ pc \in {"start", "loop", "done", "failed"}
    /\ i \in 0 .. Iterations
    /\ {checkpoints, restarts, hard_restarts, nextId}
           \subseteq Nat
    /\ con \in ConRecord
    /\ DOMAIN tbl \subseteq 0 .. nextId - 1
    /\ tbl \in [DOMAIN tbl -> Point]
    /\ DOMAIN ckptTbl \subseteq 0 .. nextId - 1
    /\ ckptTbl \in [DOMAIN ckptTbl -> Point]
    /\ walDirty \in BOOLEAN
    /\ rect \in GenerateRectangle \cup {NoRect}

\* The harness's own sequence of calls never makes the engine reject one:
\* every INSERT/DELETE runs on fuzz.db with the extension loaded, and every
\* reopening of fuzz.db that has to replay R-tree entries from the WAL
\* happens in an instance that has the extension (the soft reload opens the
\* file before LOAD, which is safe only because its close checkpointed).
HarnessNeverAborts == pc # "failed"

\* The three printed counters add up to the number of cadence boundaries
\* the loop has passed: one lifecycle event per i with i % 500 = 0.
CountersMatchCadence ==
    pc # "start" =>
        checkpoints + restarts + hard_restarts = (i + Cadence - 1) \div Cadence

\* generate_rectangle's comment and the spec: "x1 < x2 and y1 < y2", the
\* rectangle is never degenerate.
RectangleWellFormed ==
    rect # NoRect => rect.x1 < rect.x2 /\ rect.y1 < rect.y2

=============================================================================
