-------------------------- MODULE RTreeFuzzProofs --------------------------
(***************************************************************************)
(* Proofs about the fuzz harness model RTreeFuzz, for every value of the   *)
(* constants that satisfies its assumptions.                               *)
(***************************************************************************)
EXTENDS RTreeFuzz, FiniteSetTheorems, TLAPS

(***************************************************************************)
(* Lemmas on the geometry helpers.                                         *)
(***************************************************************************)

\* ST_GeneratePoints stays on the grid on one axis: a box lo .. hi inside
\* 0 .. n-1 yields doubled positions inside 0 .. 2(n-1).
LEMMA AxisPositionsInRange ==
    ASSUME NEW n \in Nat, NEW lo \in 0 .. n - 1, NEW hi \in lo .. n - 1
    PROVE  AxisPositions(lo, hi) \subseteq 0 .. 2 * (n - 1)
<1>1. CASE lo < hi
  <2>1. ASSUME NEW c \in lo .. hi - 1 PROVE 2 * c + 1 \in 0 .. 2 * (n - 1)
    BY <2>1
  <2>2. QED BY <1>1, <2>1 DEF AxisPositions
<1>2. CASE ~(lo < hi)
  BY <1>2 DEF AxisPositions
<1>3. QED BY <1>1, <1>2

\* Every point a sampled rectangle can generate is a Point of the grid.
LEMMA GeneratedPointsInGrid ==
    ASSUME NEW r \in GenerateRectangle
    PROVE  GeneratedPoints(r) \subseteq Point
<1>1. /\ r.x1 \in 0 .. MaxWidth - 1 /\ r.x2 \in r.x1 .. MaxWidth - 1
      /\ r.y1 \in 0 .. MaxHeight - 1 /\ r.y2 \in r.y1 .. MaxHeight - 1
  BY WidthAssumption, HeightAssumption DEF GenerateRectangle
<1>2. AxisPositions(r.x1, r.x2) \subseteq 0 .. 2 * (MaxWidth - 1)
  BY <1>1, WidthAssumption, AxisPositionsInRange
<1>3. AxisPositions(r.y1, r.y2) \subseteq 0 .. 2 * (MaxHeight - 1)
  BY <1>1, HeightAssumption, AxisPositionsInRange
<1>4. QED BY <1>2, <1>3 DEF GeneratedPoints, Point

(***************************************************************************)
(* Type correctness.                                                       *)
(***************************************************************************)

\* TypeOK without its Boolean conjunct, which Zenon handles better than SMT.
TypeRest ==
    /\ pc \in {"start", "loop", "done", "failed"}
    /\ i \in 0 .. Iterations
    /\ {checkpoints, restarts, hard_restarts, nextId}
           \subseteq Nat
    /\ con \in ConRecord
    /\ DOMAIN tbl \subseteq 0 .. nextId - 1
    /\ tbl \in [DOMAIN tbl -> Point]
    /\ DOMAIN ckptTbl \subseteq 0 .. nextId - 1
    /\ ckptTbl \in [DOMAIN ckptTbl -> Point]
    /\ rect \in GenerateRectangle \cup {NoRect}

\* One step of the harness keeps every state well typed.
LEMMA TypeStep == TypeOK /\ [Next]_vars => TypeOK'
<1> USE IterationsAssumption, PointBoundAssumption
<1> SUFFICES ASSUME TypeRest, walDirty \in BOOLEAN, [Next]_vars
             PROVE  TypeRest' /\ walDirty' \in BOOLEAN
  BY Zenon DEF TypeOK, TypeRest
<1>1. CASE Setup
  <2>1. walDirty' \in BOOLEAN BY <1>1, Zenon DEF Setup
  <2>2. TypeRest' BY <1>1 DEF Setup, TypeRest, FuzzCon, ConRecord
  <2>3. QED BY <2>1, <2>2
<1>2. CASE Checkpoint
  <2>1. walDirty' \in BOOLEAN BY <1>2, Zenon DEF Checkpoint
  <2>2. TypeRest' BY <1>2 DEF Checkpoint, LoopStep, TypeRest
  <2>3. QED BY <2>1, <2>2
<1>3. CASE SoftReload
  <2> DEFINE closing == SoftReloadClosing(con)
             dirty   == WalAfterClose(closing)
             image   == ImageAfterClose(closing)
  <2>1. /\ walDirty' = dirty /\ ckptTbl' = image
        /\ UNCHANGED <<checkpoints, hard_restarts, nextId, rect>>
        /\ LoopStep
    BY <1>3, Zenon DEF SoftReload
  <2>2. walDirty' \in BOOLEAN
    BY <2>1, Zenon DEF WalAfterClose
  <2>3. DOMAIN image \subseteq 0 .. nextId - 1 /\ image \in [DOMAIN image -> Point]
    BY DEF ImageAfterClose, TypeRest
  <2>4. FuzzCon \in ConRecord /\ ClosedCon \in ConRecord
    BY DEF FuzzCon, ClosedCon, ConRecord
  <2>5. CASE ReplayOk(dirty, FALSE)
    <3>1. /\ con' = FuzzCon /\ tbl' = Recovered(image, dirty)
          /\ restarts' = restarts + 1 /\ i' = i + 1 /\ pc' = pc
      BY <1>3, <2>5, Zenon DEF SoftReload
    <3>2. tbl' = tbl \/ tbl' = image
      BY <3>1 DEF Recovered
    <3>3. TypeRest'
      BY <2>1, <2>3, <2>4, <3>1, <3>2 DEF TypeRest, LoopStep
    <3>4. QED BY <2>2, <3>3
  <2>6. CASE ~ReplayOk(dirty, FALSE)
    <3>1. /\ con' = ClosedCon /\ pc' = "failed"
          /\ UNCHANGED <<tbl, restarts, i>>
      BY <1>3, <2>6, Zenon DEF SoftReload
    <3>2. TypeRest'
      BY <2>1, <2>3, <2>4, <3>1 DEF TypeRest
    <3>3. QED BY <2>2, <3>2
  <2>7. QED BY <2>5, <2>6
<1>4. CASE HardRestart
  <2> DEFINE closing == HardRestartClosing(con)
             dirty   == WalAfterClose(closing)
             image   == ImageAfterClose(closing)
  <2>1. /\ walDirty' = dirty /\ ckptTbl' = image
        /\ UNCHANGED <<checkpoints, restarts, nextId, rect>>
        /\ con' = FuzzCon /\ tbl' = Recovered(image, dirty)
        /\ hard_restarts' = hard_restarts + 1 /\ i' = i + 1 /\ pc' = pc
        /\ LoopStep
    BY <1>4, Zenon DEF HardRestart
  <2>2. walDirty' \in BOOLEAN
    BY <2>1, Zenon DEF WalAfterClose
  <2>3. DOMAIN image \subseteq 0 .. nextId - 1 /\ image \in [DOMAIN image -> Point]
    BY DEF ImageAfterClose, TypeRest
  <2>4. FuzzCon \in ConRecord
    BY DEF FuzzCon, ConRecord
  <2>5. tbl' = tbl \/ tbl' = image
    BY <2>1 DEF Recovered
  <2>6. TypeRest'
    BY <2>1, <2>3, <2>4, <2>5 DEF TypeRest, LoopStep
  <2>7. QED BY <2>2, <2>6
<1>5. CASE GenerateInsert
  <2>0. PICK r \in GenerateRectangle, k \in 0 .. PointBound - 1 :
             \E place \in [nextId .. nextId + k - 1 -> GeneratedPoints(r)] :
                  /\ rect' = r
                  /\ IF WorkloadOk(con)
                        THEN /\ tbl' = AppendRows(tbl, place)
                                 /\ nextId' = nextId + k
                                 /\ walDirty' = WalAfterWrite(k > 0)
                                 /\ i' = i + 1
                                 /\ UNCHANGED pc
                        ELSE /\ pc' = "failed"
                                 /\ UNCHANGED <<tbl, nextId, walDirty, i>>
    BY <1>5 DEF GenerateInsert
  <2>1. PICK place \in [nextId .. nextId + k - 1 -> GeneratedPoints(r)] :
                /\ rect' = r
                /\ IF WorkloadOk(con)
                      THEN /\ tbl' = AppendRows(tbl, place)
                           /\ nextId' = nextId + k
                           /\ walDirty' = WalAfterWrite(k > 0)
                           /\ i' = i + 1
                           /\ UNCHANGED pc
                      ELSE /\ pc' = "failed"
                           /\ UNCHANGED <<tbl, nextId, walDirty, i>>
    BY <2>0
  <2>2. GeneratedPoints(r) \subseteq Point
    BY GeneratedPointsInGrid
  <2>3. UNCHANGED <<checkpoints, restarts, hard_restarts, con, ckptTbl>>
          /\ LoopStep
    BY <1>5 DEF GenerateInsert
  <2>4. walDirty' \in BOOLEAN
    BY <2>1, Zenon DEF WalAfterWrite
  <2>5. CASE WorkloadOk(con)
    <3>1. /\ tbl' = AppendRows(tbl, place) /\ nextId' = nextId + k /\ i' = i + 1 /\ pc' = pc
      BY <2>1, <2>5, Zenon
    <3>0. nextId \in Nat /\ k \in Nat
      BY DEF TypeRest
    <3>a. DOMAIN tbl' = DOMAIN tbl \cup (nextId .. nextId + k - 1)
      BY <3>1, Zenon DEF AppendRows
    <3>b. DOMAIN tbl' \subseteq 0 .. nextId' - 1
      BY <3>0, <3>1, <3>a DEF TypeRest
    <3>c. \A id \in DOMAIN tbl' : tbl'[id] \in Point
      BY <2>2, <3>1, <3>a DEF TypeRest, AppendRows
    <3>2. DOMAIN tbl' \subseteq 0 .. nextId' - 1 /\ tbl' \in [DOMAIN tbl' -> Point]
      BY <3>1, <3>b, <3>c DEF AppendRows
    <3>3. rect' \in GenerateRectangle \cup {NoRect}
      BY <2>1
    <3>4. DOMAIN ckptTbl' \subseteq 0 .. nextId' - 1
      BY <2>3, <3>1 DEF TypeRest
    <3>5. i' \in 0 .. Iterations
      BY <2>3, <3>1 DEF TypeRest, LoopStep
    <3>6. {checkpoints, restarts, hard_restarts, nextId}'
            \subseteq Nat
      BY <2>3, <3>1 DEF TypeRest
    <3>7. TypeRest'
      BY <2>3, <3>1, <3>2, <3>3, <3>4, <3>5, <3>6, Zenon DEF TypeRest
    <3>8. QED BY <2>4, <3>7
  <2>6. CASE ~WorkloadOk(con)
    <3>1. pc' = "failed" /\ UNCHANGED <<tbl, nextId, walDirty, i>>
      BY <2>1, <2>6, Zenon
    <3>2. QED BY <2>1, <2>3, <3>1 DEF TypeRest
  <2>7. QED BY <2>4, <2>5, <2>6
<1>6. CASE GenerateDelete
  <2>1. PICK r \in GenerateRectangle :
           LET gone == {id \in DOMAIN tbl : Within(tbl[id], r)}
           IN  /\ rect' = r
               /\ IF WorkloadOk(con)
                     THEN /\ tbl' = Restrict(tbl, DOMAIN tbl \ gone)
                          /\ walDirty' = WalAfterWrite(gone # {})
                          /\ i' = i + 1
                          /\ UNCHANGED pc
                     ELSE /\ pc' = "failed"
                          /\ UNCHANGED <<tbl, walDirty, i>>
    BY <1>6 DEF GenerateDelete
  <2> DEFINE gone == {id \in DOMAIN tbl : Within(tbl[id], r)}
  <2>3. UNCHANGED <<checkpoints, restarts, hard_restarts, con, ckptTbl,
                    nextId>> /\ LoopStep
    BY <1>6 DEF GenerateDelete
  <2>4. walDirty' \in BOOLEAN
    BY <2>1, Zenon DEF WalAfterWrite
  <2>5. TypeRest'
    <3>1. CASE WorkloadOk(con)
      BY <2>1, <2>3, <3>1 DEF TypeRest, LoopStep, Restrict
    <3>2. CASE ~WorkloadOk(con)
      BY <2>1, <2>3, <3>2 DEF TypeRest
    <3>3. QED BY <3>1, <3>2
  <2>6. QED BY <2>4, <2>5
<1>7. CASE Finish
  <2>1. walDirty' \in BOOLEAN BY <1>7, Zenon DEF Finish
  <2>2. TypeRest' BY <1>7 DEF Finish, TypeRest
  <2>3. QED BY <2>1, <2>2
<1>8. CASE UNCHANGED vars
  <2>1. walDirty' \in BOOLEAN BY <1>8, Zenon DEF vars
  <2>2. TypeRest' BY <1>8 DEF vars, TypeRest
  <2>3. QED BY <2>1, <2>2
<1>9. QED BY <1>1, <1>2, <1>3, <1>4, <1>5, <1>6, <1>7, <1>8 DEF Next

\* Every state of the harness is well typed: counters are naturals, the
\* loop index stays within range(Iterations), row ids are below the next
\* id the engine hands out, and every row lies on the grid.
THEOREM TypeCorrect == Spec => []TypeOK
<1> USE IterationsAssumption, PointBoundAssumption
<1>1. Init => TypeOK
  <2> SUFFICES ASSUME Init PROVE TypeRest /\ walDirty \in BOOLEAN
    BY Zenon DEF TypeOK, TypeRest
  <2>1. walDirty \in BOOLEAN
    BY Zenon DEF Init
  <2>2. TypeRest
    BY DEF Init, TypeRest, ClosedCon, ConRecord
  <2>3. QED BY <2>1, <2>2
<1>2. TypeOK /\ [Next]_vars => TypeOK'
  BY TypeStep
<1>3. QED BY <1>1, <1>2, PTL DEF Spec

(***************************************************************************)
(* The harness never aborts.                                               *)
(***************************************************************************)

\* FuzzCon admits every statement of the workload.
LEMMA FuzzConAdmitsWorkload == WorkloadOk(FuzzCon)
  BY DEF WorkloadOk, FuzzCon

\* Closing FuzzCon as the soft reload does checkpoints: the WAL is clean,
\* so reopening before LOAD replays nothing.
LEMMA SoftReloadReplaysNothing ==
    ~WalAfterClose(SoftReloadClosing(FuzzCon))
  BY DEF WalAfterClose, SoftReloadClosing, FuzzCon

\* Why the harness never aborts, as an inductive invariant: whenever the loop
\* runs, `con` is a connection on fuzz.db with the extension loaded and
\* checkpoint-on-shutdown in force, which is what lets the next soft reload
\* open the file before LOAD and the next hard restart replay the WAL.
SessionInvariant ==
    /\ pc # "failed"
    /\ pc \in {"loop", "done"} => con = FuzzCon

\* SessionInvariant is inductive: each step from a state where the loop runs
\* on FuzzCon ends on FuzzCon again, and never in "failed".
LEMMA SessionInductive ==
    TypeOK /\ SessionInvariant /\ [Next]_vars => SessionInvariant'
<1> SUFFICES ASSUME TypeOK, SessionInvariant, [Next]_vars
             PROVE  SessionInvariant'
  OBVIOUS
<1>1. CASE Setup
  BY <1>1 DEF Setup, SessionInvariant
<1>2. CASE Checkpoint
  <2>1. con = FuzzCon BY <1>2 DEF Checkpoint, LoopStep, SessionInvariant
  <2>2. con.open BY <2>1 DEF FuzzCon
  <2>3. pc' = pc /\ con' = con /\ pc = "loop"
    BY <1>2, <2>2 DEF Checkpoint, LoopStep
  <2>4. QED BY <2>1, <2>3 DEF SessionInvariant
<1>3. CASE SoftReload
  <2>1. con = FuzzCon BY <1>3 DEF SoftReload, LoopStep, SessionInvariant
  <2>2. ReplayOk(WalAfterClose(SoftReloadClosing(con)), FALSE)
    BY <2>1, SoftReloadReplaysNothing DEF ReplayOk
  <2>3. pc' = pc /\ con' = FuzzCon /\ pc = "loop"
    BY <1>3, <2>2, Zenon DEF SoftReload, LoopStep
  <2>4. QED BY <2>3 DEF SessionInvariant
<1>4. CASE HardRestart
  <2>1. pc' = pc /\ con' = FuzzCon /\ pc = "loop"
    BY <1>4, Zenon DEF HardRestart, LoopStep
  <2>2. QED BY <2>1 DEF SessionInvariant
<1>5. CASE GenerateInsert
  <2>1. con = FuzzCon BY <1>5 DEF GenerateInsert, LoopStep, SessionInvariant
  <2>2. WorkloadOk(con) BY <2>1, FuzzConAdmitsWorkload
  <2>3. pc' = pc /\ con' = con /\ pc = "loop"
    BY <1>5, <2>2, Zenon DEF GenerateInsert, LoopStep
  <2>4. QED BY <2>1, <2>3 DEF SessionInvariant
<1>6. CASE GenerateDelete
  <2>1. con = FuzzCon BY <1>6 DEF GenerateDelete, LoopStep, SessionInvariant
  <2>2. WorkloadOk(con) BY <2>1, FuzzConAdmitsWorkload
  <2>3. pc' = pc /\ con' = con /\ pc = "loop"
    BY <1>6, <2>2, Zenon DEF GenerateDelete, LoopStep
  <2>4. QED BY <2>1, <2>3 DEF SessionInvariant
<1>7. CASE Finish
  BY <1>7 DEF Finish, SessionInvariant
<1>8. CASE UNCHANGED vars
  BY <1>8 DEF vars, SessionInvariant
<1>9. QED BY <1>1, <1>2, <1>3, <1>4, <1>5, <1>6, <1>7, <1>8 DEF Next

\* Whenever the loop runs or has ended, the script's connection is on
\* fuzz.db with the extension loaded and checkpoint on shutdown in force:
\* the pragma of a hard restart never outlives its connection, and the
\* hard restart's USE fuzz always comes back to fuzz.db.
LEMMA SessionInvariantHolds == Spec => []SessionInvariant
<1>1. Init => SessionInvariant
  BY DEF Init, SessionInvariant
<1>2. QED BY <1>1, TypeCorrect, SessionInductive, PTL DEF Spec

\* The harness's sequence of engine calls (workload on fuzz.db with the
\* extension loaded; soft reload reopening before LOAD only after a
\* checkpointing close; hard restart attaching only after LOAD) never makes
\* the engine reject a call, for every iteration count, cadence, grid and
\* point bound.
THEOREM NeverAborts == Spec => []HarnessNeverAborts
<1>1. SessionInvariant => HarnessNeverAborts
  BY DEF SessionInvariant, HarnessNeverAborts
<1>2. QED BY <1>1, SessionInvariantHolds, PTL

=============================================================================
