--------------------------- MODULE HistoryProofs ---------------------------
(***************************************************************************)
(* Theorems about History, for any number of runs, timestamps and shapes   *)
(* and any bound on the list.                                              *)
(***************************************************************************)
EXTENDS History, FiniteSetTheorems, TLAPS

-----------------------------------------------------------------------------
(* Lists *)

\* The new run is in front, the rest was there before; an empty list becomes
\* the new run alone.
LEMMA JoinedContents ==
  ASSUME NEW e, NEW entries, NEW joined \in Joined(e, entries)
  PROVE  /\ e \in joined
         /\ joined \subseteq {e} \cup entries
         /\ entries = {} => joined = {e}
BY DEF Joined, Newest

\* The list is cut to its bound, and only when it is full; what is cut is not
\* newer than what stays.
LEMMA JoinedBound ==
  ASSUME NEW e, NEW entries, IsFiniteSet(entries), e \notin entries,
         NEW joined \in Joined(e, entries)
  PROVE  /\ IsFiniteSet(joined)
         /\ Cardinality(joined) <= MaxRuns
         /\ \A d \in entries \ joined :
              /\ Cardinality(joined) = MaxRuns
              /\ \A k \in joined : k = e \/ k.time >= d.time
<1>1. PICK kept \in Newest(entries, MaxRuns - 1) : joined = {e} \cup kept
  BY DEF Joined
<1>2. /\ kept \subseteq entries
      /\ Cardinality(kept) <= MaxRuns - 1
      /\ kept # entries => Cardinality(kept) = MaxRuns - 1
      /\ \A k \in kept, d \in entries \ kept : k.time >= d.time
  BY <1>1 DEF Newest
<1>3. IsFiniteSet(kept) /\ Cardinality(kept) \in Nat
  BY <1>2, FS_Subset, FS_CardinalityType
<1>4. IsFiniteSet(joined) /\ Cardinality(joined) = Cardinality(kept) + 1
  <2>1. joined = kept \cup {e} /\ e \notin kept
    BY <1>1, <1>2
  <2> QED
    BY <2>1, <1>3, FS_AddElement
<1>5. Cardinality(joined) <= MaxRuns
  BY <1>2, <1>3, <1>4, HistoryAssumption
<1>6. ASSUME NEW d \in entries \ joined
      PROVE  /\ Cardinality(joined) = MaxRuns
             /\ \A k \in joined : k = e \/ k.time >= d.time
  <2>1. d \in entries \ kept
    BY <1>1, <1>6
  <2>2. Cardinality(joined) = MaxRuns
    BY <2>1, <1>2, <1>3, <1>4, HistoryAssumption
  <2> QED
    BY <2>1, <2>2, <1>1, <1>2
<1> QED
  BY <1>4, <1>5, <1>6

-----------------------------------------------------------------------------
(* Types and the strengthening *)

\* Types and the strengthening, which needs them, over all steps.
LEMMA HistoryInvHolds == Spec => [](HistoryTypeOK /\ HistoryStrengthening)
<1>1. Init => HistoryTypeOK /\ HistoryStrengthening
  <2> SUFFICES ASSUME Init PROVE HistoryTypeOK /\ HistoryStrengthening
    OBVIOUS
  <2>1. PICK entries \in Earlier : file = Whole(entries)
    BY DEF Init
  <2>2. entries \subseteq Entry /\ \A e \in entries : e.id \in Foreign
    BY DEF Earlier
  <2>3. IsFiniteSet(entries)
    BY DEF Earlier
  <2>4. HistoryTypeOK
    BY <2>1, <2>2, HistoryAssumption
       DEF Init, HistoryTypeOK, Whole, Content, Stage
  <2>5. HistoryStrengthening
    BY <2>1, <2>2, <2>3 DEF Init, HistoryStrengthening, Whole
  <2> QED BY <2>4, <2>5
<1>2. HistoryTypeOK /\ HistoryStrengthening /\ [Next]_vars
        => (HistoryTypeOK /\ HistoryStrengthening)'
  <2> SUFFICES ASSUME HistoryTypeOK, HistoryStrengthening, [Next]_vars
               PROVE  (HistoryTypeOK /\ HistoryStrengthening)'
    OBVIOUS
  <2>a. Known(file) \subseteq Entry
    BY DEF HistoryTypeOK, Content, Known
  <2>1. ASSUME NEW e \in Entry, HandleFinal(e)
        PROVE  (HistoryTypeOK /\ HistoryStrengthening)'
    <3>1. e.id \in Run
      BY DEF Entry
    <3>2. HistoryTypeOK'
      BY <2>1, <3>1 DEF HistoryTypeOK, HandleFinal, diskVars, Stage
    <3> QED
      BY <2>1, <3>2 DEF HistoryStrengthening, HandleFinal, diskVars, Known
  <2>2. ASSUME NEW error \in BOOLEAN, Load(error)
        PROVE  (HistoryTypeOK /\ HistoryStrengthening)'
    <3>1. loaded' \subseteq Entry /\ readError' \in BOOLEAN
      BY <2>2, <2>a DEF Load
    <3>2. previous' \in Entry \cup {NoRun}
      BY <2>2, <3>1 DEF Load, Previous
    <3>3. HistoryTypeOK'
      BY <2>2, <3>1, <3>2 DEF HistoryTypeOK, Load, diskVars, Stage
    <3> QED
      BY <2>2, <3>3 DEF HistoryStrengthening, Load, diskVars, Known
  <2>3. CASE BeginWrite
    <3>1. HistoryTypeOK'
      BY <2>3 DEF HistoryTypeOK, BeginWrite, Torn, Content, Stage
    <3> QED
      BY <2>3, <3>1 DEF HistoryStrengthening, BeginWrite, Known
  <2>4. CASE EndWrite
    <3>1. PICK entries \in Joined(cur, loaded) : tmp' = Whole(entries)
      BY <2>4 DEF EndWrite
    <3>2. cur \in Entry
      BY <2>4 DEF EndWrite, HistoryStrengthening
    <3>3. entries \subseteq Entry
      BY <3>2, JoinedContents DEF HistoryTypeOK
    <3>4. HistoryTypeOK'
      BY <2>4, <3>1, <3>3 DEF HistoryTypeOK, EndWrite, Whole, Content, Stage
    <3> QED
      BY <2>4, <3>1, <3>4 DEF HistoryStrengthening, EndWrite, Known
  <2>5. CASE Rename
    <3>1. PICK entries \in Joined(cur, loaded) : tmp = Whole(entries)
      BY <2>5 DEF Rename, HistoryStrengthening
    <3>2. file' = Whole(entries) /\ file'.runs = entries
      BY <2>5, <3>1 DEF Rename, Whole
    <3>3. cur \in Entry /\ cur.id \notin Foreign /\ cur.id \in used
      BY <2>5 DEF Rename, HistoryStrengthening
    <3>4. loaded \subseteq Known(file)
      BY <2>5 DEF Rename, HistoryStrengthening
    <3>5. IsFiniteSet(loaded) /\ cur \notin loaded
      BY <2>5, <3>4, FS_Subset DEF Rename, HistoryStrengthening, Known
    <3>6. IsFiniteSet(entries)
      BY <3>5, JoinedBound
    <3>7. entries \subseteq {cur} \cup loaded
      BY JoinedContents
    <3>8. \A e \in entries : e.id \in used
      BY <3>3, <3>4, <3>7 DEF HistoryStrengthening, Known
    <3>9. HistoryTypeOK'
      BY <2>5, <2>a, <3>2, <3>3, <3>4, <3>7
         DEF HistoryTypeOK, Rename, Whole, Content, Stage
    <3> QED
      BY <2>5, <3>2, <3>3, <3>6, <3>8, <3>9 DEF HistoryStrengthening, Rename
  <2>6. CASE WriteError
    <3>1. HistoryTypeOK'
      BY <2>6 DEF HistoryTypeOK, WriteError, diskVars, Stage
    <3> QED
      BY <2>6, <3>1 DEF HistoryStrengthening, WriteError, diskVars
  <2>7. CASE Tell
    BY <2>7 DEF HistoryTypeOK, HistoryStrengthening, Tell, Forget, diskVars,
                Stage
  <2>8. CASE Crash
    BY <2>8 DEF HistoryTypeOK, HistoryStrengthening, Crash, Forget, diskVars,
                Stage
  <2>9. CASE Restart
    BY <2>9 DEF HistoryTypeOK, HistoryStrengthening, Restart, diskVars, Stage
  <2>10. CASE Damage
    <3>1. file' = Damaged /\ file'.runs = {} /\ IsFiniteSet({})
      BY <2>10, FS_EmptySet DEF Damage, Damaged
    <3>2. HistoryTypeOK'
      BY <2>10 DEF HistoryTypeOK, Damage, Damaged, Content, localVars
    <3> QED
      BY <2>10, <3>1, <3>2 DEF HistoryStrengthening, Damage, localVars
  <2>11. CASE UNCHANGED vars
    BY <2>11 DEF HistoryTypeOK, HistoryStrengthening, vars, diskVars, localVars,
                 Known
  <2> QED
    BY <2>1, <2>2, <2>3, <2>4, <2>5, <2>6, <2>7, <2>8, <2>9, <2>10, <2>11
       DEF Next
<1> QED
  BY <1>1, <1>2, PTL DEF Spec

\* Through crashes, failures and damage every variable keeps its type, and the
\* file is never seen half written (history.go:173-190).
THEOREM HistoryTypeCorrect == Spec => []HistoryTypeOK
  BY HistoryInvHolds, PTL

\* What is in memory between load and rename is what the file has, only a
\* complete temporary file is renamed, and a run's ID is new to the file
\* (history.go:136-171; history.go:198-207).
THEOREM HistoryStrengtheningHolds == Spec => []HistoryStrengthening
  BY HistoryInvHolds, PTL

-----------------------------------------------------------------------------
(* The list the history promises *)

\* The abstract list counts as this module does.
LEMMA SameCounting ==
  ASSUME NEW S
  PROVE  /\ List!IsFiniteSet(S) <=> IsFiniteSet(S)
         /\ List!Cardinality(S) = Cardinality(S)
<1>1. List!IsFiniteSet(S) <=> IsFiniteSet(S)
  BY DEF List!IsFiniteSet, IsFiniteSet
<1>2. List!Cardinality(S) = Cardinality(S)
  BY <1>1 DEF List!Cardinality, Cardinality
<1> QED
  BY <1>1, <1>2

\* ... and builds the same lists.
LEMMA SameLists ==
  /\ List!Entry = Entry
  /\ List!Earlier = Earlier
  /\ \A e, entries : List!Joined(e, entries) = Joined(e, entries)
<1>1. List!Entry = Entry
  BY DEF List!Entry, Entry
<1>2. List!Earlier = Earlier
  BY <1>1, SameCounting DEF List!Earlier, Earlier
<1>3. ASSUME NEW e, NEW entries
      PROVE  List!Joined(e, entries) = Joined(e, entries)
  <2>1. \A n : List!Newest(entries, n) = Newest(entries, n)
    BY SameCounting DEF List!Newest, Newest
  <2> QED
    BY <2>1 DEF List!Joined, Joined
<1> QED
  BY <1>1, <1>2, <1>3

\* The file only ever changes by one run joining it in one piece, or by somebody
\* else's hand: a crash or a failed write leaves the old list or the new one.
THEOREM HistoryImplementsList == Spec => ListSpec
<1>1. Init => List!Init
  BY SameLists DEF Init, List!Init, List!Whole, Whole
<1>2. HistoryTypeOK /\ HistoryStrengthening /\ [Next]_vars => [List!Next]_file
  <2> SUFFICES ASSUME HistoryTypeOK, HistoryStrengthening, [Next]_vars
               PROVE  List!Next \/ UNCHANGED file
    OBVIOUS
  <2>1. CASE Rename
    <3>1. PICK entries \in Joined(cur, loaded) : tmp = Whole(entries)
      BY <2>1 DEF Rename, HistoryStrengthening
    <3>2. file' = Whole(entries) /\ cur \in Entry
      BY <2>1, <3>1 DEF Rename, HistoryStrengthening
    <3>3. CASE readError
      <4>1. entries = {cur}
        BY <2>1, <3>3, JoinedContents DEF Rename, HistoryStrengthening
      <4> QED
        BY <3>2, <4>1, SameLists
           DEF List!Next, List!StartAnew, List!Whole, Whole
    <3>4. CASE ~readError
      <4>1. entries \in Joined(cur, Known(file))
        BY <2>1, <3>4 DEF Rename, HistoryStrengthening
      <4> QED
        BY <3>2, <4>1, SameLists
           DEF List!Next, List!Add, List!Whole, Whole, List!Known, Known
    <3> QED
      BY <3>3, <3>4
  <2>2. CASE Damage
    BY <2>2 DEF Damage, List!Next, List!Ruin, List!Damaged, Damaged
  <2>3. CASE UNCHANGED file
    BY <2>3
  <2> QED
    BY <2>1, <2>2, <2>3
       DEF Next, vars, diskVars, localVars, HandleFinal, Load, BeginWrite,
           EndWrite, WriteError, Tell, Crash, Restart
<1> QED
  BY <1>1, <1>2, HistoryInvHolds, PTL DEF Spec, ListSpec, List!Spec

\* Runs leave a history that can be read only when it is full, and the oldest of
\* those stored before first.  The run being appended is not among them: it is
\* kept whatever its time (history.go:20-22, 130-132, 142-147, 163-166).
THEOREM OldestStoredDroppedFirstHolds == Spec => OldestStoredDroppedFirst
<1> DEFINE Dropped ==
      \A d \in Known(file) :
        file' # Damaged /\ d \notin file'.runs /\ ~readError =>
          /\ Cardinality(file'.runs) = MaxRuns
          /\ \A e \in file'.runs \ {cur} : e.time >= d.time
<1>1. HistoryTypeOK /\ HistoryStrengthening /\ [Next]_vars => [Dropped]_vars
  <2> SUFFICES ASSUME HistoryTypeOK, HistoryStrengthening, [Next]_vars
               PROVE  Dropped
    OBVIOUS
  <2>1. CASE Rename
    <3> SUFFICES ASSUME NEW d \in Known(file), d \notin file'.runs, ~readError
                 PROVE  /\ Cardinality(file'.runs) = MaxRuns
                        /\ \A e \in file'.runs \ {cur} : e.time >= d.time
      OBVIOUS
    <3>1. PICK entries \in Joined(cur, loaded) : tmp = Whole(entries)
      BY <2>1 DEF Rename, HistoryStrengthening
    <3>2. file'.runs = entries
      BY <2>1, <3>1 DEF Rename, Whole
    <3>3. loaded = Known(file)
      BY <2>1 DEF Rename, HistoryStrengthening
    <3>4. IsFiniteSet(loaded) /\ cur \notin loaded
      BY <2>1, <3>3, FS_Subset DEF Rename, HistoryStrengthening, Known
    <3>5. d \in loaded \ entries
      BY <3>2, <3>3
    <3> QED
      BY <3>2, <3>4, <3>5, JoinedBound
  <2>2. CASE Damage
    BY <2>2 DEF Damage
  <2>3. CASE UNCHANGED file
    BY <2>3 DEF Known
  <2> QED
    BY <2>1, <2>2, <2>3
       DEF Next, vars, diskVars, localVars, HandleFinal, Load, BeginWrite,
           EndWrite, WriteError, Tell, Crash, Restart
<1> QED
  BY <1>1, HistoryInvHolds, PTL DEF Spec, OldestStoredDroppedFirst

\* The file stays within its bound and holds no run twice.
THEOREM WithinBoundHolds == Spec => []WithinBound
<1>1. Init => WithinBound
  BY DEF Init, Earlier, Whole, WithinBound
<1>2. HistoryTypeOK /\ HistoryStrengthening /\ WithinBound /\ [Next]_vars
        => WithinBound'
  <2> SUFFICES ASSUME HistoryTypeOK, HistoryStrengthening, WithinBound,
                      [Next]_vars
               PROVE  WithinBound'
    OBVIOUS
  <2>1. CASE Rename
    <3>1. PICK entries \in Joined(cur, loaded) : tmp = Whole(entries)
      BY <2>1 DEF Rename, HistoryStrengthening
    <3>2. file'.runs = entries
      BY <2>1, <3>1 DEF Rename, Whole
    <3>3. loaded \subseteq Known(file)
      BY <2>1 DEF Rename, HistoryStrengthening
    <3>4. IsFiniteSet(loaded)
      BY <3>3, FS_Subset DEF HistoryStrengthening, Known
    <3>5. \A e \in loaded : e \in file.runs /\ e.id # cur.id
      BY <2>1, <3>3 DEF Rename, HistoryStrengthening, Known
    <3>6. Cardinality(entries) <= MaxRuns
      BY <3>4, <3>5, JoinedBound
    <3>7. entries \subseteq {cur} \cup loaded
      BY JoinedContents
    <3> QED
      BY <3>2, <3>5, <3>6, <3>7 DEF WithinBound
  <2>2. CASE Damage
    <3>1. file'.runs = {}
      BY <2>2 DEF Damage, Damaged
    <3> QED
      BY <3>1, FS_EmptySet, HistoryAssumption DEF WithinBound
  <2>3. CASE UNCHANGED file
    BY <2>3 DEF WithinBound
  <2> QED
    BY <2>1, <2>2, <2>3
       DEF Next, vars, diskVars, localVars, HandleFinal, Load, BeginWrite,
           EndWrite, WriteError, Tell, Crash, Restart
<1> QED
  BY <1>1, <1>2, HistoryInvHolds, PTL DEF Spec

\* STORED goes out for a run that is on disk, or Append has reported an error.
THEOREM StoredIsOnDiskHolds == Spec => []StoredIsOnDisk
<1>1. Init => StoredIsOnDisk
  BY DEF Init, StoredIsOnDisk
<1>2. HistoryTypeOK /\ HistoryStrengthening /\ StoredIsOnDisk /\ [Next]_vars
        => StoredIsOnDisk'
  <2> SUFFICES ASSUME HistoryTypeOK, HistoryStrengthening, StoredIsOnDisk,
                      [Next]_vars
               PROVE  StoredIsOnDisk'
    OBVIOUS
  <2>1. CASE Rename
    <3>1. PICK entries \in Joined(cur, loaded) : tmp = Whole(entries)
      BY <2>1 DEF Rename, HistoryStrengthening
    <3>2. file'.runs = entries /\ cur' = cur /\ failed' = failed /\ ~failed
      BY <2>1, <3>1 DEF Rename, Whole, HistoryStrengthening
    <3> QED
      BY <3>2, JoinedContents DEF StoredIsOnDisk
  <2>2. CASE WriteError
    <3>1. cur \notin file.runs
      BY <2>2 DEF WriteError, HistoryStrengthening, Known
    <3> QED
      BY <2>2, <3>1 DEF WriteError, diskVars, StoredIsOnDisk
  <2>3. CASE UNCHANGED vars
    BY <2>3 DEF vars, diskVars, localVars, StoredIsOnDisk
  <2>4. CASE stage' # "tell"
    BY <2>4 DEF StoredIsOnDisk
  <2> QED
    BY <2>1, <2>2, <2>3, <2>4
       DEF Next, HandleFinal, Load, BeginWrite, EndWrite, Tell, Crash, Restart,
           Damage, localVars
<1> QED
  BY <1>1, <1>2, HistoryInvHolds, PTL DEF Spec

-----------------------------------------------------------------------------
(* The run a result is compared with *)

\* Of finitely many runs one is the latest: the sort that Append's search starts
\* from has a first element.  It is one that the fewest are later than.
LEMMA LatestExists ==
  ASSUME NEW S \in SUBSET Entry, IsFiniteSet(S), S # {}
  PROVE  \E d \in S : \A c \in S : d.time >= c.time
<1> DEFINE Later(d) == {c \in S : c.time > d.time}
           Counts   == {Cardinality(Later(d)) : d \in S}
<1>1. \A d \in S : IsFiniteSet(Later(d)) /\ Cardinality(Later(d)) \in Nat
  BY FS_Subset, FS_CardinalityType
<1>2. Counts \subseteq Nat /\ Counts # {}
  BY <1>1
<1> DEFINE less == {ss \in Nat \X Nat : ss[1] < ss[2]}
<1>3. IsWellFoundedOn(less, Nat)
  BY NatLessThanWellFounded DEF OpToRel
<1>4. \E n \in Counts : \A m \in Counts : ~(<<m, n>> \in less)
  <2> HIDE DEF Counts, less
  <2> QED
    BY <1>2, <1>3, WFMin
<1>5. PICK d \in S :
        \A c \in S : ~(Cardinality(Later(c)) < Cardinality(Later(d)))
  BY <1>1, <1>4
<1>6. ASSUME NEW c \in S, ~(d.time >= c.time) PROVE FALSE
  <2>1. c.time \in Nat /\ d.time \in Nat /\ \A e \in S : e.time \in Nat
    BY HistoryAssumption DEF Entry
  <2>2. Later(c) \subseteq Later(d) /\ c \in Later(d) /\ c \notin Later(c)
    BY <1>6, <2>1
  <2>3. Cardinality(Later(c)) < Cardinality(Later(d))
    BY <1>1, <2>2, FS_Subset
  <2> QED
    BY <1>5, <2>3
<1> QED
  BY <1>6

\* Between the load and STORED the previous run is the latest comparable one of
\* what was loaded.
PreviousIsLatest ==
  /\ stage \in {"loaded", "writing", "written", "tell"} =>
       (previous # NoRun => Comparable(previous, cur))
  /\ stage \in {"loaded", "writing", "written"} =>
       \A d \in loaded :
         Comparable(d, cur) => previous # NoRun /\ previous.time >= d.time

\* A result is compared with the latest finished run of its shape that the file
\* has, whichever of the writes failed after that (history.go:149-161).
THEOREM ComparedWithLatestHolds == Spec => []ComparedWithLatest
<1> DEFINE Inv == PreviousIsLatest /\ ComparedWithLatest
<1>1. Init => Inv
  BY DEF Init, PreviousIsLatest, ComparedWithLatest
<1>2. HistoryTypeOK /\ HistoryStrengthening /\ Inv /\ [Next]_vars => Inv'
  <2> SUFFICES ASSUME HistoryTypeOK, HistoryStrengthening, Inv, [Next]_vars
               PROVE  Inv'
    OBVIOUS
  <2>1. ASSUME NEW error \in BOOLEAN, Load(error) PROVE Inv'
    <3> DEFINE candidates == {d \in loaded' : Comparable(d, cur)}
    <3>1. Known(file) \subseteq Entry /\ IsFiniteSet(Known(file))
      BY FS_Subset DEF HistoryTypeOK, Content, HistoryStrengthening, Known
    <3>2. loaded' \subseteq Known(file)
      BY <2>1 DEF Load
    <3>3. candidates \in SUBSET Entry /\ IsFiniteSet(candidates)
      BY <3>1, <3>2, FS_Subset
    <3>4. candidates # {} => Previous(cur, loaded') # {}
      BY <3>3, LatestExists DEF Previous
    <3>5. /\ previous' # NoRun => Comparable(previous', cur)
          /\ \A d \in loaded' :
               Comparable(d, cur) =>
                 previous' # NoRun /\ previous'.time >= d.time
      <4>1. CASE Previous(cur, loaded') = {}
        BY <2>1, <3>4, <4>1 DEF Load
      <4>2. CASE Previous(cur, loaded') # {}
        <5>1. previous' \in Previous(cur, loaded')
          BY <2>1, <4>2 DEF Load
        <5>2. previous' \in Entry /\ previous' # NoRun
          BY <3>3, <5>1, NoRunAssumption DEF Previous
        <5> QED
          BY <5>1, <5>2 DEF Previous
      <4> QED
        BY <4>1, <4>2
    <3>6. cur' = cur /\ stage' = "loaded"
      BY <2>1 DEF Load
    <3> QED
      BY <3>5, <3>6 DEF PreviousIsLatest, ComparedWithLatest
  <2>2. CASE BeginWrite
    BY <2>2 DEF BeginWrite, PreviousIsLatest, ComparedWithLatest
  <2>3. CASE EndWrite
    BY <2>3 DEF EndWrite, PreviousIsLatest, ComparedWithLatest
  <2>4. CASE Rename
    <3>1. PICK entries \in Joined(cur, loaded) : tmp = Whole(entries)
      BY <2>4 DEF Rename, HistoryStrengthening
    <3>2. Known(file') \subseteq {cur} \cup loaded
      BY <2>4, <3>1, JoinedContents DEF Rename, Whole, Known
    <3>3. ~Comparable(cur, cur)
      BY DEF Comparable
    <3> QED
      BY <2>4, <3>2, <3>3 DEF Rename, PreviousIsLatest, ComparedWithLatest
  <2>5. CASE WriteError
    <3>1. ~readError => loaded = Known(file)
      BY <2>5 DEF WriteError, HistoryStrengthening
    <3> QED
      BY <2>5, <3>1
      DEF WriteError, diskVars, PreviousIsLatest, ComparedWithLatest, Known
  <2>6. CASE UNCHANGED vars
    BY <2>6 DEF vars, diskVars, localVars, PreviousIsLatest,
                ComparedWithLatest, Known
  <2>7. CASE stage' \in {"idle", "appending", "down"}
    BY <2>7 DEF PreviousIsLatest, ComparedWithLatest
  <2> QED
    BY <2>1, <2>2, <2>3, <2>4, <2>5, <2>6, <2>7
    DEF Next, HandleFinal, Tell, Crash, Restart, Damage, localVars,
        HistoryTypeOK
<1> QED
  BY <1>1, <1>2, HistoryInvHolds, PTL DEF Spec
=============================================================================
