----------------------------- MODULE MCSessions -----------------------------
(***************************************************************************)
(* Small instances of Sessions for TLC.  Control connections and streams   *)
(* are model values; which sessions are manual and which phases they have  *)
(* is fixed by each configuration.                                         *)
(***************************************************************************)
EXTENDS Sessions, TLC

\* The streams are interchangeable; the control connections are not, because
\* their sessions differ in mode and direction.
Symmetry == Permutations(Stream) \cup Permutations(Index)

\* One test only, whichever its shape: no second caller.
OneTest == Cardinality({c \in Control : ctl'[c] # "hello"}) <= 1

\* For liveness, where symmetry is not sound: each stream named by its index.
LiveTestInit == Init /\ idx = [s \in Stream |-> s]
LiveTestSpec == LiveTestInit /\ [][Next /\ OneTest]_vars /\ Fairness
=============================================================================
