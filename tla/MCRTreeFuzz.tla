---------------------------- MODULE MCRTreeFuzz ----------------------------
(***************************************************************************)
(* A small instance of RTreeFuzz for TLC.                                  *)
(***************************************************************************)
EXTENDS RTreeFuzz

\* Three cadence boundaries (i = 0, 3, 6), so two lifecycle events follow
\* workload steps, and every pair of lifecycle events can be chained.
MCIterations == 7
MCCadence == 3
\* A grid 3 wide and 2 high: a box is degenerate or one cell high, and
\* degenerate, one or two cells wide.
MCMaxWidth == 3
MCMaxHeight == 2
\* num_points in 0 .. 1: inserts of nothing and of a row.
MCPointBound == 2

=============================================================================
