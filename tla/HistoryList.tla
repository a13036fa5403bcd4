---------------------------- MODULE HistoryList ----------------------------
(***************************************************************************)
(* What the history promises (src/history.go): a bounded list of runs that *)
(* a run joins in one step, whatever crashes or fails meanwhile.  When it  *)
(* is full it gives up the oldest of the runs it held, never the one that  *)
(* joins; it gives up all of them only when it cannot be read.             *)
(* History.tla is shown to implement this module.                          *)
(***************************************************************************)
EXTENDS HistoryData

VARIABLE list

Init == \E entries \in Earlier : list = Whole(entries)

\* A run joins what the list holds.
Add(e) == \E entries \in Joined(e, Known(list)) : list' = Whole(entries)

\* A run starts the list anew, because what it held cannot be read.
StartAnew(e) == list' = Whole({e})

\* Somebody else spoils the file.
Ruin == list' = Damaged

Next ==
  \/ \E e \in Entry : Add(e) \/ StartAnew(e)
  \/ Ruin

Spec == Init /\ [][Next]_list
=============================================================================
