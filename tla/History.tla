------------------------------ MODULE History ------------------------------
(***************************************************************************)
(* HistoryStore.Append (src/history.go) as handleFinal calls it: load the  *)
(* file, find the previous comparable run, put the new run in front, write *)
(* a temporary file and rename it.  Any step on the disk may fail, and the *)
(* server may crash between any two of them and be started again.          *)
(*                                                                         *)
(* HistoryStore.mu is held from the load to the rename, and FINAL reaches  *)
(* the one session that holds the test lock: appends do not overlap.  The  *)
(* file may be damaged by somebody else while no append is under way.      *)
(***************************************************************************)
EXTENDS HistoryData

CONSTANT NoRun       \* no run

ASSUME NoRunAssumption == NoRun \notin Entry

VARIABLES
  file,       \* history.json
  tmp,        \* history.json.tmp
  stage,      \* where handleFinal is in Append
  cur,        \* the run to append
  loaded,     \* Append's runs: what loadLocked returned
  readError,  \* ... and whether it returned an error
  previous,   \* the run the result is compared with
  failed,     \* Append returned an error
  used        \* the IDs newRunID has given out, or that Foreign runs have

diskVars  == <<file, tmp>>
localVars == <<stage, cur, loaded, readError, previous, failed>>
vars      == <<diskVars, localVars, used>>

Stage == {"idle", "appending", "loaded", "writing", "written", "tell", "down"}

\* Types.  Only the temporary file is ever seen half written.
HistoryTypeOK ==
  /\ file \in Content /\ file.kind # "torn"
  /\ tmp \in Content
  /\ stage \in Stage
  /\ cur \in Entry \cup {NoRun}
  /\ loaded \in SUBSET Entry
  /\ readError \in BOOLEAN
  /\ previous \in Entry \cup {NoRun}
  /\ failed \in BOOLEAN
  /\ used \in SUBSET Run

Init ==
  /\ \E entries \in Earlier : file = Whole(entries)
  /\ tmp = Whole({})
  /\ stage = "idle"
  /\ cur = NoRun
  /\ loaded = {}
  /\ readError = FALSE
  /\ previous = NoRun
  /\ failed = FALSE
  /\ used = Foreign

\* What a handler that returns, or a process that ends, leaves of its locals.
Forget ==
  /\ cur' = NoRun
  /\ loaded' = {}
  /\ readError' = FALSE
  /\ previous' = NoRun
  /\ failed' = FALSE

-----------------------------------------------------------------------------
(* Faulty variants of the actions below *)

\* Writing in place.
BeginWriteInPlace ==
  /\ stage = "loaded"
  /\ stage' = "writing"
  /\ file' = Torn
  /\ UNCHANGED <<tmp, cur, loaded, readError, previous, failed, used>>

\* A previous run taken from the list as it is stored, unsorted.
LoadUnsorted(error) ==
  /\ stage = "appending"
  /\ file = Damaged => error
  /\ loaded' = IF error THEN {} ELSE Known(file)
  /\ readError' = error
  /\ \/ \E d \in loaded' : Comparable(d, cur) /\ previous' = d
     \/ /\ ~\E d \in loaded' : Comparable(d, cur)
        /\ previous' = NoRun
  /\ stage' = "loaded"
  /\ UNCHANGED <<diskVars, cur, failed, used>>

\* An error of WriteFile that is not looked at: the file is renamed anyway.
WriteErrorIgnored ==
  /\ stage \in {"loaded", "writing", "written"}
  /\ file' = IF stage = "loaded" THEN file ELSE tmp
  /\ tmp' = Whole({})
  /\ stage' = "tell"
  /\ UNCHANGED <<cur, loaded, readError, previous, failed, used>>

\* An ID that may have been given out before.
HandleFinalReused(e) ==
  /\ stage = "idle"
  /\ e.id \notin Foreign
  /\ used' = used \cup {e.id}
  /\ cur' = e
  /\ stage' = "appending"
  /\ UNCHANGED <<diskVars, loaded, readError, previous, failed>>

-----------------------------------------------------------------------------
\* FINAL arrives: handleFinal builds the run, with a new ID and a time.
HandleFinal(e) ==
  /\ stage = "idle"
  /\ e.id \notin used
  /\ used' = used \cup {e.id}
  /\ cur' = e
  /\ stage' = "appending"
  /\ UNCHANGED <<diskVars, loaded, readError, previous, failed>>

\* loadLocked, and the search for the previous run.  A file that is there may
\* be unreadable for the moment: Append goes on with no runs either way.
Load(error) ==
  /\ stage = "appending"
  /\ file = Damaged => error
  /\ loaded' = IF error THEN {} ELSE Known(file)
  /\ readError' = error
  /\ previous' \in IF Previous(cur, loaded') = {} THEN {NoRun}
                   ELSE Previous(cur, loaded')
  /\ stage' = "loaded"
  /\ UNCHANGED <<diskVars, cur, failed, used>>

\* os.WriteFile truncates the temporary file, then fills it.
BeginWrite ==
  /\ stage = "loaded"
  /\ tmp' = Torn
  /\ stage' = "writing"
  /\ UNCHANGED <<file, cur, loaded, readError, previous, failed, used>>

EndWrite ==
  /\ stage = "writing"
  /\ \E entries \in Joined(cur, loaded) : tmp' = Whole(entries)
  /\ stage' = "written"
  /\ UNCHANGED <<file, cur, loaded, readError, previous, failed, used>>

Rename ==
  /\ stage = "written"
  /\ file' = tmp
  /\ tmp' = Whole({})
  /\ stage' = "tell"
  /\ UNCHANGED <<cur, loaded, readError, previous, failed, used>>

\* MkdirAll, WriteFile or Rename fails, and writeLocked returns at once.
WriteError ==
  /\ stage \in {"loaded", "writing", "written"}
  /\ failed' = TRUE
  /\ stage' = "tell"
  /\ UNCHANGED <<diskVars, cur, loaded, readError, previous, used>>

\* handleFinal sends STORED, whether or not Append failed, and returns.
Tell ==
  /\ stage = "tell"
  /\ stage' = "idle"
  /\ Forget
  /\ UNCHANGED <<diskVars, used>>

\* The process ends at any moment; the disk keeps what it has.
Crash ==
  /\ stage # "down"
  /\ stage' = "down"
  /\ Forget
  /\ UNCHANGED <<diskVars, used>>

Restart ==
  /\ stage = "down"
  /\ stage' = "idle"
  /\ UNCHANGED <<diskVars, cur, loaded, readError, previous, failed, used>>

\* Somebody else damages the file.
Damage ==
  /\ stage \in {"idle", "down"}
  /\ file' = Damaged
  /\ UNCHANGED <<tmp, localVars, used>>

Next ==
  \/ \E e \in Entry : HandleFinal(e)
  \/ \E error \in BOOLEAN : Load(error)
  \/ BeginWrite \/ EndWrite \/ Rename \/ WriteError
  \/ Tell
  \/ Crash \/ Restart \/ Damage

Spec == Init /\ [][Next]_vars

-----------------------------------------------------------------------------
(* What could go wrong *)

\* The file stays within its bound and never holds a run twice, whatever tries
\* were cut short (history.go:163-166).
WithinBound ==
  /\ Cardinality(file.runs) <= MaxRuns
  /\ \A d, e \in file.runs : d.id = e.id => d = e

\* A stored run leaves a readable file only when the list is full, and then no
\* older run that was stored before it stays.  The run being appended is exempt:
\* it is put in front after the sort and always kept, even when the clock was
\* set back and it is older than the run it displaces, so that "Oldest runs are
\* dropped first" (history.go:20-22) is true of the runs stored before only
\* (history.go:130-132, 142-147, 163-166).
OldestStoredDroppedFirst ==
  [][\A d \in Known(file) :
       file' # Damaged /\ d \notin file'.runs /\ ~readError =>
         /\ Cardinality(file'.runs) = MaxRuns
         /\ \A e \in file'.runs \ {cur} : e.time >= d.time]_vars

\* When Append reports no error the run is in the file by the time STORED goes
\* out; when it reports one the file is as it was (history.go:168-171,
\* server.go:835-840).
StoredIsOnDisk ==
  stage = "tell" => (failed <=> cur \notin file.runs)

\* The result is compared with the latest finished run of its shape that the
\* file has; no run that is newer and comparable remains there unused
\* (history.go:149-161).
ComparedWithLatest ==
  stage = "tell" =>
    /\ previous # NoRun => Comparable(previous, cur)
    /\ ~readError =>
         \A d \in Known(file) :
           Comparable(d, cur) => previous # NoRun /\ previous.time >= d.time

\* What the properties above rest on: between load and rename the copy in memory
\* is what the file has, a temporary file is renamed only when complete, and a
\* run's ID is new to the file.
HistoryStrengthening ==
  /\ IsFiniteSet(file.runs)
  /\ \A e \in file.runs : e.id \in used
  /\ Foreign \subseteq used
  /\ stage # "tell" => ~failed
  /\ stage \in {"appending", "loaded", "writing", "written", "tell"} =>
       cur \in Entry /\ cur.id \notin Foreign /\ cur.id \in used
  /\ stage \in {"appending", "loaded", "writing", "written"} =>
       \A e \in Known(file) : e.id # cur.id
  /\ stage \in {"loaded", "writing", "written"} =>
       loaded = IF readError THEN {} ELSE Known(file)
  /\ stage = "written" =>
       \E entries \in Joined(cur, loaded) : tmp = Whole(entries)

\* Every step on the file adds a run in one piece, or is somebody else's.
List == INSTANCE HistoryList WITH list <- file
ListSpec == List!Spec
=============================================================================
