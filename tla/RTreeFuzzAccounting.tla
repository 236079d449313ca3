------------------------- MODULE RTreeFuzzAccounting -------------------------
(***************************************************************************)
(* The harness's bookkeeping, for every value of the constants: the three  *)
(* printed lifecycle counters add up to the cadence boundaries the loop   *)
(* has passed.                                                             *)
(***************************************************************************)
EXTENDS RTreeFuzzProofs

(* Before setup nothing has been counted.                                  *)
StartsAtZero ==
    pc = "start" =>
        /\ i = 0
        /\ checkpoints + restarts + hard_restarts = 0

(***************************************************************************)
(* Arithmetic of the cadence test i % 500 == 0.                            *)
(***************************************************************************)

\* The number of boundaries 0, C, 2C, ... below x + 1 grows by one exactly
\* when x itself is a boundary.
LEMMA BoundariesStep ==
    ASSUME NEW x \in Nat
    PROVE  (x + 1 + Cadence - 1) \div Cadence
             = (x + Cadence - 1) \div Cadence + (IF x % Cadence = 0 THEN 1 ELSE 0)
  BY CadenceAssumption

\* Before the first iteration no boundary has been passed.
LEMMA NoBoundaryYet == (0 + Cadence - 1) \div Cadence = 0
  BY CadenceAssumption

(***************************************************************************)
(* CountersMatchCadence is inductive with TypeOK and StartsAtZero.         *)
(***************************************************************************)
LEMMA CountersStep ==
    TypeOK /\ StartsAtZero /\ CountersMatchCadence /\ [Next]_vars
      => (StartsAtZero /\ CountersMatchCadence)'
<1> DEFINE S == checkpoints + restarts + hard_restarts
           Bound(x) == (x + Cadence - 1) \div Cadence
<1> SUFFICES ASSUME TypeOK, StartsAtZero, CountersMatchCadence, [Next]_vars
             PROVE  (StartsAtZero /\ CountersMatchCadence)'
  OBVIOUS
<1>1. /\ i \in Nat /\ S \in Nat
      /\ checkpoints \in Nat /\ restarts \in Nat /\ hard_restarts \in Nat
  BY DEF TypeOK
\* A lifecycle boundary: one counter and i go up together, or neither.
<1>2. /\ pc = "loop" /\ IsLifecycleStep /\ pc' \in {"loop", "failed"}
      /\ \/ i' = i + 1 /\ S' = S + 1
         \/ i' = i /\ S' = S
      => (StartsAtZero /\ CountersMatchCadence)'
  <2> SUFFICES ASSUME pc = "loop", IsLifecycleStep, pc' \in {"loop", "failed"},
                      \/ i' = i + 1 /\ S' = S + 1
                      \/ i' = i /\ S' = S
               PROVE  (StartsAtZero /\ CountersMatchCadence)'
    OBVIOUS
  <2>1. Bound(i + 1) = Bound(i) + 1
    BY <1>1, BoundariesStep DEF IsLifecycleStep
  <2>2. S = Bound(i)
    BY DEF CountersMatchCadence
  <2>3. S' = Bound(i')
    BY <2>1, <2>2
  <2>4. QED BY <2>3 DEF StartsAtZero, CountersMatchCadence
\* A workload step: i goes up, or stays on failure, and no counter moves.
<1>3. /\ pc = "loop" /\ ~IsLifecycleStep /\ pc' \in {"loop", "failed"}
      /\ i' \in {i, i + 1} /\ S' = S
      => (StartsAtZero /\ CountersMatchCadence)'
  <2> SUFFICES ASSUME pc = "loop", ~IsLifecycleStep, pc' \in {"loop", "failed"},
                      i' \in {i, i + 1}, S' = S
               PROVE  (StartsAtZero /\ CountersMatchCadence)'
    OBVIOUS
  <2>0. Bound(i + 1) = Bound(i) + (IF i % Cadence = 0 THEN 1 ELSE 0)
    BY <1>1, BoundariesStep
  <2>1. i % Cadence # 0
    BY DEF IsLifecycleStep
  <2>2. Bound(i + 1) = Bound(i)
    BY <1>1, <2>0, <2>1, CadenceAssumption
  <2>3. S = Bound(i)
    BY DEF CountersMatchCadence
  <2>4. S' = Bound(i')
    BY <2>2, <2>3
  <2>5. QED BY <2>4 DEF StartsAtZero, CountersMatchCadence
<1>4. CASE Setup
  BY <1>4, NoBoundaryYet DEF Setup, StartsAtZero, CountersMatchCadence
<1>5. CASE Checkpoint
  <2>1. pc = "loop" /\ IsLifecycleStep
    BY <1>5 DEF Checkpoint, LoopStep
  <2>2. CASE con.open
    <3>1. i' = i + 1 /\ checkpoints' = checkpoints + 1 /\ pc' = pc
          /\ UNCHANGED <<restarts, hard_restarts>>
      BY <1>5, <2>2, Zenon DEF Checkpoint
    <3>2. pc' \in {"loop", "failed"} /\ i' = i + 1 /\ S' = S + 1
      BY <2>1, <3>1, <1>1
    <3>3. QED BY <2>1, <3>2, <1>2, Zenon
  <2>3. CASE ~con.open
    <3>1. pc' = "failed" /\ UNCHANGED <<i, checkpoints, restarts, hard_restarts>>
      BY <1>5, <2>3, Zenon DEF Checkpoint
    <3>2. QED BY <2>1, <3>1, <1>2
  <2>4. QED BY <2>2, <2>3
<1>6. CASE SoftReload
  <2>1. pc = "loop" /\ IsLifecycleStep
    BY <1>6, Zenon DEF SoftReload, LoopStep
  <2>2. \/ i' = i + 1 /\ restarts' = restarts + 1 /\ pc' = pc
        \/ i' = i /\ restarts' = restarts /\ pc' = "failed"
    BY <1>6, Zenon DEF SoftReload
  <2>3. UNCHANGED <<checkpoints, hard_restarts>>
    BY <1>6, Zenon DEF SoftReload
  <2>4. pc' \in {"loop", "failed"}
        /\ \/ i' = i + 1 /\ S' = S + 1
           \/ i' = i /\ S' = S
    BY <2>1, <2>2, <2>3, <1>1
  <2>5. QED BY <2>1, <2>4, <1>2, Zenon
<1>7. CASE HardRestart
  <2>1. pc = "loop" /\ IsLifecycleStep
    BY <1>7, Zenon DEF HardRestart, LoopStep
  <2>2. \/ i' = i + 1 /\ hard_restarts' = hard_restarts + 1 /\ pc' = pc
        \/ i' = i /\ hard_restarts' = hard_restarts /\ pc' = "failed"
    BY <1>7, Zenon DEF HardRestart
  <2>3. UNCHANGED <<checkpoints, restarts>>
    BY <1>7, Zenon DEF HardRestart
  <2>4. pc' \in {"loop", "failed"}
        /\ \/ i' = i + 1 /\ S' = S + 1
           \/ i' = i /\ S' = S
    BY <2>1, <2>2, <2>3, <1>1
  <2>5. QED BY <2>1, <2>4, <1>2, Zenon
<1>8. CASE GenerateInsert
  <2>1. /\ pc = "loop" /\ ~IsLifecycleStep /\ pc' \in {"loop", "failed"}
        /\ i' \in {i, i + 1}
        /\ UNCHANGED <<checkpoints, restarts, hard_restarts>>
    BY <1>8, Zenon DEF GenerateInsert, LoopStep
  <2>2. QED BY <2>1, <1>3
<1>9. CASE GenerateDelete
  <2>1. /\ pc = "loop" /\ ~IsLifecycleStep /\ pc' \in {"loop", "failed"}
        /\ i' \in {i, i + 1}
        /\ UNCHANGED <<checkpoints, restarts, hard_restarts>>
    BY <1>9, Zenon DEF GenerateDelete, LoopStep
  <2>2. QED BY <2>1, <1>3
<1>10. CASE Finish
  BY <1>10 DEF Finish, StartsAtZero, CountersMatchCadence
<1>11. CASE UNCHANGED vars
  BY <1>11 DEF vars, StartsAtZero, CountersMatchCadence
<1>12. QED BY <1>4, <1>5, <1>6, <1>7, <1>8, <1>9, <1>10, <1>11 DEF Next

LEMMA InitCounters == Init => StartsAtZero /\ CountersMatchCadence
  BY DEF Init, StartsAtZero, CountersMatchCadence

\* The printed checkpoints, restarts and hard_restarts always add up to the
\* number of i with i % 500 == 0 the loop has passed, whatever the cadence
\* and iteration count: a failed lifecycle step stops the loop before it
\* could miss a count.
THEOREM CountersMatchCadenceHolds == Spec => []CountersMatchCadence
<1>1. Init => StartsAtZero /\ CountersMatchCadence
  BY InitCounters
<1>2. TypeOK /\ (StartsAtZero /\ CountersMatchCadence) /\ [Next]_vars
        => (StartsAtZero /\ CountersMatchCadence)'
  BY CountersStep
<1>3. QED BY <1>1, <1>2, TypeCorrect, PTL DEF Spec
=============================================================================
