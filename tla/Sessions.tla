------------------------------ MODULE Sessions ------------------------------
(***************************************************************************)
(* The server side of a test run (src/server.go): the single-test lock,    *)
(* the session it guards, the data streams that join the session, the      *)
(* download and upload phases on them, the upload aggregate and the run    *)
(* that FINAL stores.                                                      *)
(*                                                                         *)
(* Every control connection and every stream connection has a goroutine    *)
(* of its own (handleWS); Server.mu and Session.mu make each critical      *)
(* section one action, and goroutines interleave between them.  A session  *)
(* is named after the control connection that claimed it.  A series of     *)
(* samples, a byte total or a set of figures is represented by the set of  *)
(* stream indices it covers.                                               *)
(*                                                                         *)
(* The connections' far ends are the environment: they follow the page's   *)
(* rules on what is sent where (src/web/app.js) but may drop a connection  *)
(* at any time, or vanish without closing anything.                        *)
(***************************************************************************)
EXTENDS Naturals, FiniteSets

CONSTANTS Control,      \* control connections, and the sessions they own
          Stream,       \* data connections
          Index,        \* stream indices: 0 .. maxStreams-1
          Manual,       \* the sessions that run without a fixed duration
          Downloads,    \* the sessions whose direction has a download phase
          Uploads,      \* the sessions whose direction has an upload phase
          NoControl,    \* Server.active = nil
          NoStream,     \* no entry in Session.streams
          NoFigures     \* upload figures not computed, not sent or not stored

\* A run has a direction, and the page gives a manual run only one
\* (app.js:1927-1932).
ASSUME SessionsAssumption ==
  /\ NoControl \notin Control
  /\ NoStream \notin Stream
  /\ \A figures \in SUBSET Index : NoFigures # figures
  /\ \A run \in [stats : {NoFigures} \cup SUBSET Index, total : SUBSET Index] :
       NoFigures # run
  /\ Manual \subseteq Control
  /\ Downloads \cup Uploads = Control
  /\ Manual \cap Downloads \cap Uploads = {}
  /\ IsFiniteSet(Stream)

VARIABLES
  active,       \* Server.active
  ctl,          \* where the goroutine of each control connection is
  vanished,     \* clients that went silent without closing a connection
  stopped,      \* Session.stopped
  streams,      \* Session.streams, by index
  toClose,      \* closeStreams' local copy of the connections to close
  strm,         \* where the goroutine of each stream connection is
  of,           \* the session a stream found (serveStream's sess)
  idx,          \* the index in its HELLO
  open,         \* its connection still carries data
  dlActive,     \* Session.dlActive
  dlResults,    \* Session.dlResults: the indices that have a row
  upActive,     \* Session.upActive
  upSamples,    \* Session.upSamples: the indices that have a series
  upTotal,      \* Session.upTotal: the indices whose bytes are counted
  upFinal,      \* Session.upFinal
  perStream,    \* endUpload's local snapshot of the series
  upStats,      \* Session.upStats: the indices the figures cover
  result,       \* RESULT as written to the control connection
  stored        \* the upload figures of the last run FINAL stored

ctlVars    == <<active, ctl, vanished, stopped>>
mapVars    == <<streams, toClose>>
streamVars == <<strm, of, idx, open>>
downVars   == <<dlActive, dlResults>>
upVars     == <<upActive, upSamples, upTotal, upFinal, perStream>>
reportVars == <<upStats, result, stored>>
vars       == <<ctlVars, mapVars, streamVars, downVars, upVars, reportVars>>
-----------------------------------------------------------------------------
\* A control goroutine: HELLO read, then either refused, or in serveControl's
\* loop until it returns, then release's steps in their order.
ControlState == {"hello", "refused", "serving", "releasing", "closing",
                 "draining", "done"}

\* A stream goroutine: HELLO read, session found, serveStream's loop, a phase,
\* the two unlocked steps of the last endUpload, and the deferred removeStream.
StreamState == {"hello", "found", "idle", "downloading", "uploading",
                "aggregating", "reporting", "leaving", "gone"}

\* Streams the session knows of: between addStream and removeStream.
Registered == {"idle", "downloading", "uploading", "aggregating",
               "reporting", "leaving"}

Figures == {NoFigures} \cup SUBSET Index

TypeOK ==
  /\ active \in Control \cup {NoControl}
  /\ ctl \in [Control -> ControlState]
  /\ vanished \in [Control -> BOOLEAN]
  /\ stopped \in [Control -> BOOLEAN]
  /\ streams \in [Control -> [Index -> Stream \cup {NoStream}]]
  /\ toClose \in [Control -> SUBSET Stream]
  /\ strm \in [Stream -> StreamState]
  /\ of \in [Stream -> Control \cup {NoControl}]
  /\ idx \in [Stream -> Index]
  /\ open \in [Stream -> BOOLEAN]
  /\ dlActive \in [Control -> Nat]
  /\ dlResults \in [Control -> SUBSET Index]
  /\ upActive \in [Control -> Nat]
  /\ upSamples \in [Control -> SUBSET Index]
  /\ upTotal \in [Control -> SUBSET Index]
  /\ upFinal \in [Control -> BOOLEAN]
  /\ perStream \in [Control -> SUBSET Index]
  /\ upStats \in [Control -> Figures]
  /\ result \in [Control -> Figures]
  /\ stored \in [Control -> {NoFigures}
                   \cup [stats : Figures, total : SUBSET Index]]

\* A connection whose HELLO is still to come has an index of the client's
\* choosing; claim builds an empty Session.
Init ==
  /\ active = NoControl
  /\ ctl = [c \in Control |-> "hello"]
  /\ vanished = [c \in Control |-> FALSE]
  /\ stopped = [c \in Control |-> FALSE]
  /\ streams = [c \in Control |-> [i \in Index |-> NoStream]]
  /\ toClose = [c \in Control |-> {}]
  /\ strm = [s \in Stream |-> "hello"]
  /\ of = [s \in Stream |-> NoControl]
  /\ idx \in [Stream -> Index]
  /\ open = [s \in Stream |-> TRUE]
  /\ dlActive = [c \in Control |-> 0]
  /\ dlResults = [c \in Control |-> {}]
  /\ upActive = [c \in Control |-> 0]
  /\ upSamples = [c \in Control |-> {}]
  /\ upTotal = [c \in Control |-> {}]
  /\ upFinal = [c \in Control |-> FALSE]
  /\ perStream = [c \in Control |-> {}]
  /\ upStats = [c \in Control |-> NoFigures]
  /\ result = [c \in Control |-> NoFigures]
  /\ stored = [c \in Control |-> NoFigures]

-----------------------------------------------------------------------------
(* Faulty variants of the actions below: what a plausible bug would do.  No *)
(* specification uses them; putting one in the place of its action must     *)
(* break a property.                                                        *)

\* claim without "if s.active != nil".
ClaimUnchecked(c) ==
  /\ ctl[c] = "hello"
  /\ active' = c
  /\ ctl' = [ctl EXCEPT ![c] = "serving"]
  /\ UNCHANGED <<vanished, stopped, mapVars, streamVars, downVars, upVars,
                 reportVars>>

\* serveControl without SetReadDeadline: a silent client blocks it.
ControlReturnsNoDeadline(c) ==
  /\ ctl[c] = "serving"
  /\ ~vanished[c]
  /\ ctl' = [ctl EXCEPT ![c] = "releasing"]
  /\ UNCHANGED <<active, vanished, stopped, mapVars, streamVars, downVars,
                 upVars, reportVars>>

\* release without "s.active = nil".
ReleaseLockForgotten(c) ==
  /\ ctl[c] = "releasing"
  /\ ctl' = [ctl EXCEPT ![c] = "closing"]
  /\ UNCHANGED <<active, vanished, stopped, mapVars, streamVars, downVars,
                 upVars, reportVars>>

\* closeStreams that empties the map before copying it.
CollectStreamsTooLate(c) ==
  /\ ctl[c] = "closing"
  /\ streams' = [streams EXCEPT ![c] = [i \in Index |-> NoStream]]
  /\ toClose' = [toClose EXCEPT ![c] = {}]
  /\ ctl' = [ctl EXCEPT ![c] = "draining"]
  /\ UNCHANGED <<active, vanished, stopped, streamVars, downVars, upVars,
                 reportVars>>

\* serveStream without the range check of the index.
FindSessionAnyIndex(s, c) ==
  /\ strm[s] = "hello"
  /\ active = c
  /\ strm' = [strm EXCEPT ![s] = "found"]
  /\ of' = [of EXCEPT ![s] = c]
  /\ idx' = [idx EXCEPT ![s] = "out of range"]
  /\ UNCHANGED <<ctlVars, mapVars, open, downVars, upVars, reportVars>>

\* sendDownload whose write error path forgets record().
EndDownloadUnrecorded(s) ==
  /\ strm[s] = "downloading"
  /\ strm' = [strm EXCEPT ![s] = "idle"]
  /\ UNCHANGED <<ctlVars, mapVars, of, idx, open, downVars, upVars,
                 reportVars>>

\* A send loop that does not poll the stop flag.
LoopNeverStops(s) == of[s] \notin Manual

\* endUpload without "&& !sess.upFinal".
EndUploadReopens(s) ==
  LET c == of[s]
      last == upActive[c] = 1
  IN /\ strm[s] = "uploading"
     /\ upSamples' = [upSamples EXCEPT ![c] = @ \cup {idx[s]}]
     /\ upTotal' = [upTotal EXCEPT ![c] = @ \cup {idx[s]}]
     /\ upActive' = [upActive EXCEPT ![c] = @ - 1]
     /\ upFinal' = [upFinal EXCEPT ![c] = @ \/ last]
     /\ perStream' = [perStream EXCEPT ![c] = IF last THEN upSamples'[c] ELSE @]
     /\ strm' = [strm EXCEPT ![s] = IF last THEN "aggregating" ELSE "idle"]
     /\ UNCHANGED <<ctlVars, mapVars, of, idx, open, downVars, reportVars>>

\* recvUpload that skips endUpload when the stream ended by a read error.
EndUploadSkipped(s) ==
  /\ strm[s] = "uploading"
  /\ strm' = [strm EXCEPT ![s] = "idle"]
  /\ UNCHANGED <<ctlVars, mapVars, of, idx, open, downVars, upVars,
                 reportVars>>

\* endUpload that sends RESULT without having set upStats.
StoreStatsForgotten(s) ==
  /\ strm[s] = "aggregating"
  /\ strm' = [strm EXCEPT ![s] = "reporting"]
  /\ UNCHANGED <<ctlVars, mapVars, of, idx, open, downVars, upVars,
                 reportVars>>

\* serveStream without SetReadDeadline.
StreamReturnsNoDeadline(s) ==
  /\ strm[s] = "idle"
  /\ ~open[s]
  /\ strm' = [strm EXCEPT ![s] = "leaving"]
  /\ UNCHANGED <<ctlVars, mapVars, of, idx, open, downVars, upVars,
                 reportVars>>

-----------------------------------------------------------------------------
(* The control connection: serveControl, claim, release. *)

\* claim under Server.mu: the lock is free and the session starts empty.
Claim(c) ==
  /\ ctl[c] = "hello"
  /\ active = NoControl
  /\ active' = c
  /\ ctl' = [ctl EXCEPT ![c] = "serving"]
  /\ UNCHANGED <<vanished, stopped, mapVars, streamVars, downVars, upVars,
                 reportVars>>

\* claim finds the lock held: BUSY, and the connection is closed.
Refuse(c) ==
  /\ ctl[c] = "hello"
  /\ active # NoControl
  /\ ctl' = [ctl EXCEPT ![c] = "refused"]
  /\ UNCHANGED <<active, vanished, stopped, mapVars, streamVars, downVars,
                 upVars, reportVars>>

\* The client goes silent: nothing more is sent, nothing is closed.
Vanish(c) ==
  /\ ctl[c] = "serving"
  /\ ~vanished[c]
  /\ vanished' = [vanished EXCEPT ![c] = TRUE]
  /\ UNCHANGED <<active, ctl, stopped, mapVars, streamVars, downVars, upVars,
                 reportVars>>

\* MsgStop: the page only offers it in a manual run.
RequestStop(c) ==
  /\ ctl[c] = "serving"
  /\ ~vanished[c]
  /\ c \in Manual
  /\ stopped' = [stopped EXCEPT ![c] = TRUE]
  /\ UNCHANGED <<active, ctl, vanished, mapVars, streamVars, downVars, upVars,
                 reportVars>>

\* MsgFinal: the upload figures of the stored run are read from the session.
\* The page sends it after RESULT when the run had an upload phase.
HandleFinal(c) ==
  /\ ctl[c] = "serving"
  /\ ~vanished[c]
  /\ c \in Uploads => result[c] # NoFigures
  /\ stored' = [stored EXCEPT ![c] = [stats |-> upStats[c],
                                      total |-> upTotal[c]]]
  /\ UNCHANGED <<ctlVars, mapVars, streamVars, downVars, upVars, upStats,
                 result>>

\* serveControl's loop ends: the connection closed, was silent for
\* connIdleTimeout, a PONG could not be written, or the client sent ABORT.
ControlReturns(c) ==
  /\ ctl[c] = "serving"
  /\ ctl' = [ctl EXCEPT ![c] = "releasing"]
  /\ UNCHANGED <<active, vanished, stopped, mapVars, streamVars, downVars,
                 upVars, reportVars>>

\* release, under Server.mu: the lock is free again from here on.
ReleaseLock(c) ==
  /\ ctl[c] = "releasing"
  /\ active' = IF active = c THEN NoControl ELSE active
  /\ ctl' = [ctl EXCEPT ![c] = "closing"]
  /\ UNCHANGED <<vanished, stopped, mapVars, streamVars, downVars, upVars,
                 reportVars>>

\* closeStreams, under Session.mu: the map is copied and emptied.
CollectStreams(c) ==
  /\ ctl[c] = "closing"
  /\ toClose' = [toClose EXCEPT ![c] =
                   {streams[c][i] : i \in Index} \ {NoStream}]
  /\ streams' = [streams EXCEPT ![c] = [i \in Index |-> NoStream]]
  /\ ctl' = [ctl EXCEPT ![c] = "draining"]
  /\ UNCHANGED <<active, vanished, stopped, streamVars, downVars, upVars,
                 reportVars>>

\* closeStreams, outside the lock: one connection after the other.
CloseStream(c, s) ==
  /\ ctl[c] = "draining"
  /\ s \in toClose[c]
  /\ toClose' = [toClose EXCEPT ![c] = @ \ {s}]
  /\ open' = [open EXCEPT ![s] = FALSE]
  /\ UNCHANGED <<ctlVars, streams, strm, of, idx, downVars, upVars,
                 reportVars>>

\* handleWS closes the control connection when serveControl has returned.
ControlDone(c) ==
  /\ ctl[c] = "draining"
  /\ toClose[c] = {}
  /\ ctl' = [ctl EXCEPT ![c] = "done"]
  /\ UNCHANGED <<active, vanished, stopped, mapVars, streamVars, downVars,
                 upVars, reportVars>>

-----------------------------------------------------------------------------
(* A data connection: serveStream, sendDownload, recvUpload, endUpload. *)

\* The goroutine of s is in its session's loop and its client can be heard.
Listening(s) ==
  /\ strm[s] = "idle"
  /\ open[s]
  /\ ~vanished[of[s]]

\* lookup under Server.mu finds the session the HELLO names.  The page gives
\* each stream of a run an index of its own.
FindSession(s, c) ==
  /\ strm[s] = "hello"
  /\ active = c
  /\ \A t \in Stream : of[t] = c => idx[t] # idx[s]
  /\ strm' = [strm EXCEPT ![s] = "found"]
  /\ of' = [of EXCEPT ![s] = c]
  /\ UNCHANGED <<ctlVars, mapVars, idx, open, downVars, upVars, reportVars>>

\* lookup finds no such session any more: BUSY, and the connection is closed.
FindNoSession(s, c) ==
  /\ strm[s] = "hello"
  /\ ctl[c] \notin {"hello", "refused"}
  /\ active # c
  /\ strm' = [strm EXCEPT ![s] = "gone"]
  /\ open' = [open EXCEPT ![s] = FALSE]
  /\ UNCHANGED <<ctlVars, mapVars, of, idx, downVars, upVars, reportVars>>

\* addStream, under Session.mu only: the session may have been released since.
AddStream(s) ==
  /\ strm[s] = "found"
  /\ streams' = [streams EXCEPT ![of[s]][idx[s]] = s]
  /\ strm' = [strm EXCEPT ![s] = "idle"]
  /\ UNCHANGED <<ctlVars, toClose, of, idx, open, downVars, upVars,
                 reportVars>>

\* DOWN_START: sendDownload registers the stream (beginDownload).  The page
\* runs one download phase per run, before the upload phase.
StartDownload(s) ==
  /\ Listening(s)
  /\ of[s] \in Downloads
  /\ idx[s] \notin dlResults[of[s]] \cup upTotal[of[s]]
  /\ dlActive' = [dlActive EXCEPT ![of[s]] = @ + 1]
  /\ strm' = [strm EXCEPT ![s] = "downloading"]
  /\ UNCHANGED <<ctlVars, mapVars, of, idx, open, dlResults, upVars,
                 reportVars>>

\* sendDownload's send loop is over by itself: the deadline of an automatic
\* run, the stop flag of a manual one (maxManualDuration apart).
LoopEnds(s) == of[s] \in Manual => stopped[of[s]]

\* A write on s fails, at the latest after writeTimeout.
WriteFails(s) == ~open[s] \/ vanished[of[s]]

\* endDownload: leaving sendDownload by DOWN_DONE, by a write error or at the
\* safety cap, which may come at any moment of a manual run.
EndDownload(s) ==
  /\ strm[s] = "downloading"
  /\ dlResults' = [dlResults EXCEPT ![of[s]] = @ \cup {idx[s]}]
  /\ dlActive' = [dlActive EXCEPT ![of[s]] = IF @ > 0 THEN @ - 1 ELSE @]
  /\ strm' = [strm EXCEPT ![s] = "idle"]
  /\ UNCHANGED <<ctlVars, mapVars, of, idx, open, upVars, reportVars>>

\* UP_START: recvUpload registers the stream (beginUpload).  The page runs one
\* upload phase per run.
StartUpload(s) ==
  /\ Listening(s)
  /\ of[s] \in Uploads
  /\ of[s] \in Downloads => idx[s] \in dlResults[of[s]]
  /\ idx[s] \notin upTotal[of[s]]
  /\ upActive' = [upActive EXCEPT ![of[s]] = @ + 1]
  /\ strm' = [strm EXCEPT ![s] = "uploading"]
  /\ UNCHANGED <<ctlVars, mapVars, of, idx, open, downVars, upSamples,
                 upTotal, upFinal, perStream, reportVars>>

\* No frame can keep recvUpload's read loop going: the deadline is fixed in an
\* automatic run; in a manual one the client stopped, dropped or vanished.
ReadEnds(s) ==
  of[s] \in Manual => stopped[of[s]] \/ ~open[s] \/ vanished[of[s]]

\* endUpload, first critical section: UP_DONE, ABORT, a read error or the read
\* deadline ended the stream.  The last one takes the snapshot to aggregate.
EndUpload(s) ==
  LET c == of[s]
      left == IF upActive[c] > 0 THEN upActive[c] - 1 ELSE 0
      last == left = 0 /\ ~upFinal[c]
  IN /\ strm[s] = "uploading"
     /\ upSamples' = [upSamples EXCEPT ![c] = @ \cup {idx[s]}]
     /\ upTotal' = [upTotal EXCEPT ![c] = @ \cup {idx[s]}]
     /\ upActive' = [upActive EXCEPT ![c] = left]
     /\ upFinal' = [upFinal EXCEPT ![c] = @ \/ last]
     /\ perStream' = [perStream EXCEPT ![c] = IF last THEN upSamples'[c] ELSE @]
     /\ strm' = [strm EXCEPT ![s] = IF last THEN "aggregating" ELSE "idle"]
     /\ UNCHANGED <<ctlVars, mapVars, of, idx, open, downVars, reportVars>>

\* endUpload, second critical section: the figures become the session's.
StoreStats(s) ==
  /\ strm[s] = "aggregating"
  /\ upStats' = [upStats EXCEPT ![of[s]] = perStream[of[s]]]
  /\ strm' = [strm EXCEPT ![s] = "reporting"]
  /\ UNCHANGED <<ctlVars, mapVars, of, idx, open, downVars, upVars, result,
                 stored>>

\* RESULT is written to the control connection, if that is not closed yet.
SendResult(s) ==
  /\ strm[s] = "reporting"
  /\ result' = [result EXCEPT ![of[s]] =
                  IF ctl[of[s]] = "done" THEN @ ELSE perStream[of[s]]]
  /\ strm' = [strm EXCEPT ![s] = "idle"]
  /\ UNCHANGED <<ctlVars, mapVars, of, idx, open, downVars, upVars, upStats,
                 stored>>

\* serveStream's loop ends: a read error, connIdleTimeout, or ABORT.
StreamReturns(s) ==
  /\ strm[s] = "idle"
  /\ strm' = [strm EXCEPT ![s] = "leaving"]
  /\ UNCHANGED <<ctlVars, mapVars, of, idx, open, downVars, upVars,
                 reportVars>>

\* The deferred removeStream deletes whatever the index names; handleWS then
\* closes the connection.
RemoveStream(s) ==
  /\ strm[s] = "leaving"
  /\ streams' = [streams EXCEPT ![of[s]][idx[s]] = NoStream]
  /\ strm' = [strm EXCEPT ![s] = "gone"]
  /\ open' = [open EXCEPT ![s] = FALSE]
  /\ UNCHANGED <<ctlVars, toClose, of, idx, downVars, upVars, reportVars>>

\* The client closes a stream, or the network resets it.
DropStream(s) ==
  /\ strm[s] \in Registered
  /\ open[s]
  /\ open' = [open EXCEPT ![s] = FALSE]
  /\ UNCHANGED <<ctlVars, mapVars, strm, of, idx, downVars, upVars,
                 reportVars>>

-----------------------------------------------------------------------------
ControlNext(c) ==
  \/ Claim(c) \/ Refuse(c) \/ Vanish(c) \/ RequestStop(c) \/ HandleFinal(c)
  \/ ControlReturns(c) \/ ReleaseLock(c) \/ CollectStreams(c)
  \/ (\E s \in Stream : CloseStream(c, s))
  \/ ControlDone(c)

StreamNext(s) ==
  \/ (\E c \in Control : FindSession(s, c) \/ FindNoSession(s, c))
  \/ AddStream(s) \/ StartDownload(s) \/ EndDownload(s)
  \/ StartUpload(s) \/ EndUpload(s) \/ StoreStats(s) \/ SendResult(s)
  \/ StreamReturns(s) \/ RemoveStream(s) \/ DropStream(s)

Next ==
  \/ \E c \in Control : ControlNext(c)
  \/ \E s \in Stream : StreamNext(s)

Spec == Init /\ [][Next]_vars

\* What the goroutines of a control connection and of a stream do without
\* waiting for anyone else, the expiry of the timeouts they set included.
\* Nothing is asked of the client, but that a manual upload is ended by UP_DONE
\* once the operator has pressed stop (ReadEnds).
ControlMustStep(c) ==
  \/ vanished[c] /\ ControlReturns(c)
  \/ ReleaseLock(c) \/ CollectStreams(c) \/ ControlDone(c)
  \/ \E s \in Stream : CloseStream(c, s)

StreamMustStep(s) ==
  \/ AddStream(s)
  \/ EndDownload(s) /\ (LoopEnds(s) \/ WriteFails(s))
  \/ EndUpload(s) /\ ReadEnds(s)
  \/ StoreStats(s) \/ SendResult(s) \/ RemoveStream(s)
  \/ StreamReturns(s) /\ (~open[s] \/ vanished[of[s]])

\* A goroutine that can run does run.
Fairness ==
  /\ \A c \in Control : WF_vars(ControlMustStep(c))
  /\ \A s \in Stream : WF_vars(StreamMustStep(s))

FairSpec == Spec /\ Fairness

-----------------------------------------------------------------------------
(* Safety *)

\* The lock names exactly the session whose goroutine is between claim and
\* release's first step: it is never lost, shared or kept by a finished test
\* (server.go:849-861 and 884-888).
LockOwner ==
  \A c \in Control : active = c <=> ctl[c] \in {"serving", "releasing"}

Downloading(c) == {s \in Stream : strm[s] = "downloading" /\ of[s] = c}
Uploading(c) == {s \in Stream : strm[s] = "uploading" /\ of[s] = c}

\* The phase counters count the goroutines inside sendDownload and recvUpload,
\* whatever joins, drops or is released meanwhile: a counter that is zero means
\* that no stream is in the phase, though one may still begin it
\* (server.go:995-1021 and 1046-1056).
CountersCount ==
  \A c \in Control : /\ dlActive[c] = Cardinality(Downloading(c))
                     /\ upActive[c] = Cardinality(Uploading(c))

\* At most one goroutine aggregates a session's upload, and until it has stored
\* the figures nobody can read them (server.go:1046-1102).
Reporters(c) ==
  {s \in Stream : strm[s] \in {"aggregating", "reporting"} /\ of[s] = c}

OneReporter ==
  \A c \in Control :
    /\ \A s, t \in Reporters(c) : s = t
    /\ Reporters(c) # {} => upFinal[c] /\ result[c] = NoFigures
    /\ upStats[c] # NoFigures => upFinal[c] /\ upStats[c] = perStream[c]

\* A client that has RESULT, and therefore may send FINAL, gets a run stored
\* with the very figures RESULT showed, and with byte totals that cover at
\* least those streams: the figures are stored before RESULT is sent
\* (server.go:746-747, 1082-1102).
StoredRunMatchesResult ==
  \A c \in Uploads :
    stored[c] # NoFigures =>
      /\ result[c] # NoFigures
      /\ stored[c].stats = result[c]
      /\ stored[c].total # {}
      /\ result[c] \subseteq stored[c].total

-----------------------------------------------------------------------------
(* What the invariants above rest on: the inductive strengthening *)

\* A goroutine has a session once it is past lookup, and no two streams of a
\* session share an index.
StreamsJoined ==
  /\ \A s \in Stream : strm[s] = "hello" => of[s] = NoControl
  /\ \A s \in Stream : strm[s] \notin {"hello", "gone"} => of[s] \in Control
  /\ \A s, t \in Stream :
       of[s] \in Control /\ of[s] = of[t] /\ idx[s] = idx[t] => s = t

\* The map and the list to close hold streams of their own session only, and
\* the list is empty outside closeStreams.
MapIsLocal ==
  \A c \in Control :
    /\ \A i \in Index : streams[c][i] # NoStream => of[streams[c][i]] = c
    /\ \A s \in toClose[c] : of[s] = c
    /\ ctl[c] # "draining" => toClose[c] = {}

\* Until release has collected them, all streams of a session are in its map.
\* A stream that joins later is in a map that nobody reads again.
StreamsListed ==
  \A s \in Stream :
    strm[s] \in Registered /\ ctl[of[s]] \notin {"draining", "done"}
      => streams[of[s]][idx[s]] = s

\* The order in which figures come to be: the snapshot with upFinal, then
\* upStats, then RESULT, then the stored run.
FiguresAt(c) ==
  /\ upSamples[c] = upTotal[c]
  /\ ~upFinal[c] => upStats[c] = NoFigures
  /\ upFinal[c] => perStream[c] # {} /\ perStream[c] \subseteq upTotal[c]
  /\ upStats[c] \in {NoFigures, perStream[c]}
  /\ result[c] \in {NoFigures, upStats[c]}
  /\ \A s \in Reporters(c) :
       strm[s] = "reporting" => upStats[c] = perStream[c]

FiguresOrdered == \A c \in Control : FiguresAt(c)

\* The part of the invariant no other definition states (server.go:489-500,
\* 982-993, 1046-1102).
Strengthening ==
  StreamsJoined /\ MapIsLocal /\ StreamsListed /\ FiguresOrdered

-----------------------------------------------------------------------------
(* Action properties *)

\* What a session has decided stays decided, by whatever stream finishes or
\* starts late: the figures and RESULT change only from nothing to a value, the
\* last-stream decision is not taken twice and a stop is not forgotten
\* (server.go:157-161, 1056-1061, 1082-1084).
DecidedOnce ==
  [][\A c \in Control :
       /\ upStats[c] # NoFigures => upStats'[c] = upStats[c]
       /\ result[c] # NoFigures => result'[c] = result[c]
       /\ upFinal[c] => upFinal'[c] /\ perStream'[c] = perStream[c]
       /\ stopped[c] => stopped'[c]]_vars

-----------------------------------------------------------------------------
(* Liveness, under FairSpec *)

\* A client that vanishes without a word does not keep the lock: idle timeout,
\* then release (server.go:38, 451-456, 442).
VanishedClientFreesLock ==
  \A c \in Control : vanished[c] ~> active # c

\* ... and none of its stream goroutines stays behind, not even in a manual run
\* whose stop will never come (server.go:33, 59-66, 625-637, 669-706).
VanishedStreamsEnd ==
  \A s \in Stream :
    of[s] # NoControl /\ vanished[of[s]] ~> strm[s] = "gone"

\* Release ends the goroutine of every stream that has joined the session before
\* release copies its map, whatever phase the stream is in and although its
\* client is alive and closes nothing (server.go:883-889, 982-993, 508-511,
\* 632-637, 702-706).  A stream between lookup and addStream meanwhile is not
\* among them: it lasts as long as its client keeps it.
ReleaseEndsStreams ==
  \A s \in Stream :
    strm[s] \in Registered /\ ctl[of[s]] \in {"releasing", "closing"}
      ~> strm[s] = "gone"

\* Stop ends a manual download on every stream (server.go:157-161, 620-626).
StopEndsDownload ==
  \A c \in Control : stopped[c] ~> dlActive[c] = 0

\* An upload that began ends with RESULT on the control connection, unless the
\* control connection is closed first; a manual one once it is stopped
\* (server.go:700-728, 1046-1102).
UploadIsReported ==
  \A c \in Control :
    upActive[c] > 0 /\ (c \in Manual => stopped[c])
      ~> result[c] # NoFigures \/ ctl[c] = "done"

-----------------------------------------------------------------------------
(* The lock promised by TestLock *)

Outcome(c) ==
  CASE ctl[c] = "hello" -> "waiting"
    [] ctl[c] = "refused" -> "refused"
    [] ctl[c] \in {"serving", "releasing"} -> "granted"
    [] OTHER -> "over"

Lock == INSTANCE TestLock
          WITH holder <- active, outcome <- [c \in Control |-> Outcome(c)]

\* The server implements the abstract single-test lock.
LockSpec == Lock!Spec

-----------------------------------------------------------------------------
(* What the comments and tests say, and the code does not do *)

\* "The last stream to finish aggregates everything" (server.go:1046): RESULT
\* covers every stream whose bytes the session has counted.
ResultCoversEveryUpload ==
  \A c \in Control : result[c] # NoFigures => upTotal[c] \subseteq result[c]
=============================================================================
