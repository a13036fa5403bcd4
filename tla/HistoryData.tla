---------------------------- MODULE HistoryData ----------------------------
(***************************************************************************)
(* Stored runs and the lists Append builds from them (src/history.go).  A  *)
(* list is the set of its runs: loadLocked sorts by time whatever order    *)
(* they were kept in, runs of equal time in any order.                     *)
(***************************************************************************)
EXTENDS Naturals, FiniteSets

CONSTANTS Run,        \* run IDs
          Time,       \* timestamps, of a clock that may be set back
          Shape,      \* what makes runs comparable: network, mode, direction
          Foreign,    \* runs stored with another schema version
          MaxRuns     \* maxHistoryRuns

Entry == [id : Run, time : Time, shape : Shape, aborted : BOOLEAN]

ASSUME HistoryAssumption ==
  /\ Time \subseteq Nat
  /\ Foreign \subseteq Run
  /\ MaxRuns \in Nat \ {0}

\* A file on disk: a list of runs, one whose writing has begun and not ended, or
\* one that somebody else has damaged.  A missing file is one without runs.
Content == [kind : {"whole", "torn", "damaged"}, runs : SUBSET Entry]

Whole(entries) == [kind |-> "whole", runs |-> entries]
Torn           == [kind |-> "torn", runs |-> {}]
Damaged        == [kind |-> "damaged", runs |-> {}]

\* What the server may find on disk when it first starts: nothing, or runs an
\* earlier version has stored.
Earlier ==
  {entries \in SUBSET {e \in Entry : e.id \in Foreign} :
     /\ IsFiniteSet(entries) /\ Cardinality(entries) <= MaxRuns
     /\ \A d, e \in entries : d.id = e.id => d = e}

\* What loadLocked returns: the runs of this schema version, or none when the
\* file cannot be parsed.
Known(content) == {e \in content.runs : e.id \notin Foreign}

-----------------------------------------------------------------------------
(* Faulty variants of the definitions below *)

\* A list cut before it is sorted.
NewestUnsorted(entries, n) ==
  {kept \in SUBSET entries :
     /\ Cardinality(kept) <= n
     /\ kept # entries => Cardinality(kept) = n}

\* A list cut before the new run is put in front.
JoinedTooMany(e, entries) ==
  {{e} \cup kept :
     kept \in {k \in SUBSET entries :
                 /\ Cardinality(k) <= MaxRuns
                 /\ k # entries => Cardinality(k) = MaxRuns}}

-----------------------------------------------------------------------------
\* The first n runs of a list sorted newest first, however ties fall.
Newest(entries, n) ==
  {kept \in SUBSET entries :
     /\ Cardinality(kept) <= n
     /\ kept # entries => Cardinality(kept) = n
     /\ \A k \in kept, d \in entries \ kept : k.time >= d.time}

\* A run in front of a list, and the list cut to its bound.
Joined(e, entries) ==
  {{e} \cup kept : kept \in Newest(entries, MaxRuns - 1)}

\* A run that e is compared with: same shape, not e, and not aborted.
Comparable(d, e) == d.shape = e.shape /\ d.id # e.id /\ ~d.aborted

\* The candidates for "the previous run": Append takes the first comparable
\* one of a list sorted newest first.
Previous(e, entries) ==
  LET candidates == {d \in entries : Comparable(d, e)}
  IN {d \in candidates : \A c \in candidates : d.time >= c.time}
=============================================================================
