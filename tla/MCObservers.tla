---------------------------- MODULE MCObservers ----------------------------
(***************************************************************************)
(* Observers for TLC, with a specification for safety alone.               *)
(***************************************************************************)
EXTENDS Observers

SafetySpec == Init /\ [][Next]_vars
=============================================================================
