----------------------------- MODULE MCTestRun -----------------------------
(***************************************************************************)
(* Small instances of TestRun for TLC: one page that runs one test, on two *)
(* streams.  The sessions of an instance differ in mode and direction; the *)
(* one that is claimed gives the test its shape.                           *)
(***************************************************************************)
EXTENDS TestRun, TLC

\* Streams, with the indices they carry, are interchangeable.
Symmetry == Permutations(Stream) \cup Permutations(Index)

\* For liveness, where symmetry is not sound: each stream named by its index.
LiveRunInit == RunInit /\ idx = [s \in Stream |-> s]
LiveRunSpec == LiveRunInit /\ [][RunNext]_runVars /\ RunFairness
=============================================================================
