------------------------------ MODULE TestRun ------------------------------
(***************************************************************************)
(* One page's test run against the server: Sessions.tla composed with the  *)
(* run orchestration of src/web/app.js (startTest and what it awaits) over *)
(* connections that deliver in order and may drop.                         *)
(*                                                                         *)
(* The page is single-threaded: every action of the page is one task or    *)
(* the code between two awaits.  The server's actions are those of         *)
(* Sessions, each fed by the message at the head of its connection.        *)
(* Pings, progress and samples change no control state and are left out.   *)
(***************************************************************************)
EXTENDS Sessions, Sequences

CONSTANTS
  Lossy,     \* the phases of the page in which the network may drop a stream
  Cut        \* the phases in which it may drop the control connection

RunningPhases == {"opening", "latency", "download", "upload", "final"}

ASSUME LossyAssumption ==
  /\ Lossy \subseteq RunningPhases
  /\ Cut \subseteq RunningPhases

VARIABLES
  phase,        \* where startTest is, by session
  opening,      \* the stream whose openConn is awaited
  linked,       \* run.streamConns
  stopping,     \* run.stopping
  aborted,      \* run.aborted
  downWait,     \* c.downDone is set: DOWN_DONE or a close is awaited
  upFinished,   \* conn.upFinished
  closedSeen,   \* the page has had the stream's close event
  shown,        \* lastStored: the run whose figures the page shows
  controlUp,    \* the control connection still carries data
  wire,         \* messages on their way to the server, by stream
  controlWire,  \* ... and on the control connection
  doneMsg,      \* DOWN_DONE: not sent, on its way, lost to a write timeout
  readFailed    \* a read deadline has passed: every later read fails too

pageVars == <<phase, opening, linked, stopping, aborted, downWait, upFinished,
              closedSeen, shown>>
netVars  == <<controlUp, wire, controlWire, doneMsg, readFailed>>
runVars  == <<vars, pageVars, netVars>>

Phase == RunningPhases \cup {"idle", "done", "failed"}

TestRunTypeOK ==
  /\ TypeOK
  /\ phase \in [Control -> Phase]
  /\ opening \in [Control -> Stream \cup {NoStream}]
  /\ linked \in [Control -> SUBSET Stream]
  /\ stopping \in [Control -> BOOLEAN]
  /\ aborted \in [Control -> BOOLEAN]
  /\ downWait \in [Stream -> BOOLEAN]
  /\ upFinished \in [Stream -> BOOLEAN]
  /\ closedSeen \in [Stream -> BOOLEAN]
  /\ shown \in [Control -> {NoFigures}
                  \cup [stats : Figures, total : SUBSET Index]]
  /\ controlUp \in [Control -> BOOLEAN]
  /\ wire \in [Stream -> Seq({"DOWN_START", "UP_START", "UP_DONE"})]
  /\ controlWire \in [Control -> Seq({"STOP", "FINAL"})]
  /\ doneMsg \in [Stream -> {"none", "sent", "lost"}]
  /\ readFailed \in [Stream -> BOOLEAN]

\* The page gives every stream of a run an index of its own.
RunInit ==
  /\ Init
  /\ \A s, t \in Stream : idx[s] = idx[t] => s = t
  /\ phase = [c \in Control |-> "idle"]
  /\ opening = [c \in Control |-> NoStream]
  /\ linked = [c \in Control |-> {}]
  /\ stopping = [c \in Control |-> FALSE]
  /\ aborted = [c \in Control |-> FALSE]
  /\ downWait = [s \in Stream |-> FALSE]
  /\ upFinished = [s \in Stream |-> FALSE]
  /\ closedSeen = [s \in Stream |-> FALSE]
  /\ shown = [c \in Control |-> NoFigures]
  /\ controlUp = [c \in Control |-> TRUE]
  /\ wire = [s \in Stream |-> <<>>]
  /\ controlWire = [c \in Control |-> <<>>]
  /\ doneMsg = [s \in Stream |-> "none"]
  /\ readFailed = [s \in Stream |-> FALSE]

Running(c) == phase[c] \in RunningPhases
Heads(queue, message) == queue # <<>> /\ Head(queue) = message

-----------------------------------------------------------------------------
(* Sending *)

\* Sends on a connection that is gone are lost: sendRaw checks readyState and
\* the network does the rest.
Reaches(s) == open[s] /\ ~closedSeen[s]
SendTo(targets, messages) ==
  wire' = [s \in Stream |-> IF s \in targets /\ Reaches(s)
                            THEN wire[s] \o messages ELSE wire[s]]
SendControl(c, message) ==
  controlWire' = [controlWire EXCEPT ![c] =
                    IF controlUp[c] THEN Append(@, message) ELSE @]

-----------------------------------------------------------------------------
(* Faulty variants of the actions below, as in Sessions. *)

\* A UP_DONE that goes out before UP_START has.
BeginUploadSwapped(c) ==
  /\ phase' = [phase EXCEPT ![c] = "upload"]
  /\ SendTo(linked[c], IF stopping[c] THEN <<"UP_DONE", "UP_START">>
                                      ELSE <<"UP_START">>)
  /\ UNCHANGED <<opening, linked, stopping, aborted, downWait, upFinished,
                 closedSeen, shown, controlUp, controlWire, doneMsg,
                 readFailed>>

\* openConn that resolves once the socket is open, before HELLO_ACK.
StreamAckedOnOpen(c, s) ==
  /\ opening[c] = s
  /\ linked' = [linked EXCEPT ![c] = @ \cup {s}]
  /\ opening' = [opening EXCEPT ![c] = NoStream]
  /\ UNCHANGED <<vars, phase, stopping, aborted, downWait, upFinished,
                 closedSeen, shown, netVars>>

\* A push of the connection variable after it has been reset.
StreamAckedNull(c, s) ==
  /\ opening[c] = s
  /\ strm[s] \in Registered
  /\ opening' = [opening EXCEPT ![c] = NoStream]
  /\ linked' = [linked EXCEPT ![c] = @ \cup {opening'[c]}]
  /\ UNCHANGED <<vars, phase, stopping, aborted, downWait, upFinished,
                 closedSeen, shown, netVars>>

\* bindStream without the onClose that resolves downDone.
StreamClosedUnheard(c, s) ==
  /\ Running(c)
  /\ s \in linked[c]
  /\ ~open[s] /\ ~closedSeen[s]
  /\ closedSeen' = [closedSeen EXCEPT ![s] = TRUE]
  /\ UNCHANGED <<vars, phase, opening, linked, stopping, aborted, downWait,
                 upFinished, shown, netVars>>

\* A catch in startTest that does not tear the run down.
NetDropControlOnSuccess(c) ==
  /\ controlUp[c]
  /\ phase[c] \in Cut \cup {"done"}
  /\ controlUp' = [controlUp EXCEPT ![c] = FALSE]
  /\ controlWire' = [controlWire EXCEPT ![c] = <<>>]
  /\ UNCHANGED <<vars, pageVars, wire, doneMsg, readFailed>>

-----------------------------------------------------------------------------
(* The page: startTest, from await to await *)

\* runDownload up to its await: every stream is waited for, open or not.
BeginDownload(c) ==
  /\ phase' = [phase EXCEPT ![c] = "download"]
  /\ downWait' = [s \in Stream |-> downWait[s] \/ s \in linked[c]]
  /\ SendTo(linked[c], <<"DOWN_START">>)
  /\ UNCHANGED <<opening, linked, stopping, aborted, upFinished, closedSeen,
                 shown, controlUp, controlWire, doneMsg, readFailed>>

\* runUpload up to its await: UP_START on every stream, and the first pump,
\* which is already the last one when the operator has pressed stop.
BeginUpload(c) ==
  /\ phase' = [phase EXCEPT ![c] = "upload"]
  /\ SendTo(linked[c], IF stopping[c] THEN <<"UP_START", "UP_DONE">>
                                      ELSE <<"UP_START">>)
  /\ upFinished' = [s \in Stream |->
                      upFinished[s] \/ (stopping[c] /\ s \in linked[c]
                                        /\ ~closedSeen[s])]
  /\ UNCHANGED <<opening, linked, stopping, aborted, downWait, closedSeen,
                 shown, controlUp, controlWire, doneMsg, readFailed>>

\* sendFinal up to its await.
BeginFinal(c) ==
  /\ phase' = [phase EXCEPT ![c] = "final"]
  /\ SendControl(c, "FINAL")
  /\ UNCHANGED <<opening, linked, stopping, aborted, downWait, upFinished,
                 closedSeen, shown, controlUp, wire, doneMsg, readFailed>>

\* The error path of startTest: catch, then teardownRun closes everything.
Fail(c) ==
  /\ phase' = [phase EXCEPT ![c] = "failed"]
  /\ opening' = [opening EXCEPT ![c] = NoStream]
  /\ UNCHANGED <<linked, stopping, aborted, downWait, upFinished, closedSeen,
                 shown, netVars>>

\* A faulty DownloadEnds: Promise.race in the place of Promise.all.
DownloadEndsAtFirst(c) ==
  /\ phase[c] = "download"
  /\ \E s \in linked[c] : ~downWait[s]
  /\ ~aborted[c]
  /\ IF c \in Uploads THEN BeginUpload(c) ELSE BeginFinal(c)
  /\ UNCHANGED vars

\* The control connection is acknowledged: the page owns the test.  One run is
\* followed; the page's next one opens connections of its own.
ControlAcked(c) ==
  /\ \A d \in Control : phase[d] = "idle"
  /\ Claim(c)
  /\ phase' = [phase EXCEPT ![c] = "opening"]
  /\ UNCHANGED <<opening, linked, stopping, aborted, downWait, upFinished,
                 closedSeen, shown, netVars>>

\* The loop over run.streams opens one connection after the other.
OpenStream(c, s) ==
  /\ phase[c] = "opening"
  /\ opening[c] = NoStream
  /\ s \notin linked[c]
  /\ opening' = [opening EXCEPT ![c] = s]
  /\ UNCHANGED <<vars, phase, linked, stopping, aborted, downWait, upFinished,
                 closedSeen, shown, netVars>>

\* HELLO_ACK: bindStream, push.  A close that follows the ack finds onClose set.
StreamAcked(c, s) ==
  /\ opening[c] = s
  /\ strm[s] \in Registered
  /\ linked' = [linked EXCEPT ![c] = @ \cup {s}]
  /\ opening' = [opening EXCEPT ![c] = NoStream]
  /\ UNCHANGED <<vars, phase, stopping, aborted, downWait, upFinished,
                 closedSeen, shown, netVars>>

\* openConn rejects: BUSY, a close before the ack, or its ten seconds are over.
OpenFails(c, s) ==
  /\ opening[c] = s
  /\ ~open[s] \/ "opening" \in Lossy
  /\ Fail(c)
  /\ UNCHANGED vars

\* Every stream is open: runIdleLatency.
LatencyBegins(c) ==
  /\ phase[c] = "opening"
  /\ linked[c] = Stream
  /\ phase' = [phase EXCEPT ![c] = "latency"]
  /\ UNCHANGED <<vars, opening, linked, stopping, aborted, downWait,
                 upFinished, closedSeen, shown, netVars>>

\* runIdleLatency is over; the direction says which phase is next.
LatencyEnds(c) ==
  /\ phase[c] = "latency"
  /\ ~aborted[c]
  /\ IF c \in Downloads THEN BeginDownload(c) ELSE BeginUpload(c)
  /\ UNCHANGED vars

\* Promise.all(waits) in runDownload.
DownloadEnds(c) ==
  /\ phase[c] = "download"
  /\ \A s \in linked[c] : ~downWait[s]
  /\ ~aborted[c]
  /\ IF c \in Uploads THEN BeginUpload(c) ELSE BeginFinal(c)
  /\ UNCHANGED vars

\* pump's last call: the deadline of an automatic run, or run.stopping.
PumpEnds(c, s) ==
  /\ phase[c] = "upload"
  /\ s \in linked[c]
  /\ ~aborted[c] /\ ~closedSeen[s] /\ ~upFinished[s]
  /\ c \in Manual => stopping[c]
  /\ SendTo({s}, <<"UP_DONE">>)
  /\ upFinished' = [upFinished EXCEPT ![s] = TRUE]
  /\ UNCHANGED <<vars, phase, opening, linked, stopping, aborted, downWait,
                 closedSeen, shown, controlUp, controlWire, doneMsg,
                 readFailed>>

\* RESULT arrives: runUpload returns.
UploadEnds(c) ==
  /\ phase[c] = "upload"
  /\ result[c] # NoFigures
  /\ controlUp[c] /\ ~aborted[c]
  /\ BeginFinal(c)
  /\ UNCHANGED vars

\* withTimeout around RESULT: only in an automatic run.
UploadTimesOut(c) ==
  /\ phase[c] = "upload"
  /\ c \notin Manual
  /\ Fail(c)
  /\ UNCHANGED vars

\* STORED arrives: the result is shown, and the connections are closed.
Reported(c) ==
  /\ phase[c] = "final"
  /\ stored[c] # NoFigures
  /\ controlUp[c] /\ ~aborted[c]
  /\ phase' = [phase EXCEPT ![c] = "done"]
  /\ shown' = [shown EXCEPT ![c] = stored[c]]
  /\ UNCHANGED <<vars, opening, linked, stopping, aborted, downWait,
                 upFinished, closedSeen, netVars>>

\* The control connection closed while STORED was awaited: abortRun has resolved
\* the wait with null, and nobody looks at run.aborted any more.  renderResult
\* says that there is no complete result; the page's state is "done".
ReportedNothing(c) ==
  /\ phase[c] = "final"
  /\ aborted[c]
  /\ phase' = [phase EXCEPT ![c] = "done"]
  /\ UNCHANGED <<vars, opening, linked, stopping, aborted, downWait,
                 upFinished, closedSeen, shown, netVars>>

\* withTimeout around STORED.
StoredTimesOut(c) ==
  /\ phase[c] = "final"
  /\ ~aborted[c]
  /\ Fail(c)
  /\ UNCHANGED vars

\* "if (run.aborted) throw", which follows the await of every phase before the
\* last: abortRun has resolved every promise but openConn's.
AbortUnwinds(c) ==
  /\ aborted[c]
  /\ phase[c] \in {"latency", "download", "upload"}
  /\ phase[c] = "download" => \A s \in linked[c] : ~downWait[s]
  /\ Fail(c)
  /\ UNCHANGED vars

\* run.control.onClose: abortRun.
ControlClosed(c) ==
  /\ Running(c)
  /\ ~controlUp[c] /\ ~aborted[c]
  /\ aborted' = [aborted EXCEPT ![c] = TRUE]
  /\ downWait' = [s \in Stream |-> downWait[s] /\ s \notin linked[c]]
  /\ UNCHANGED <<vars, phase, opening, linked, stopping, upFinished,
                 closedSeen, shown, netVars>>

\* DOWN_DONE arrives: downDone resolves.
DownDone(c, s) ==
  /\ Running(c)
  /\ s \in linked[c]
  /\ doneMsg[s] = "sent" /\ ~closedSeen[s]
  /\ doneMsg' = [doneMsg EXCEPT ![s] = "none"]
  /\ downWait' = [downWait EXCEPT ![s] = FALSE]
  /\ UNCHANGED <<vars, phase, opening, linked, stopping, aborted, upFinished,
                 closedSeen, shown, controlUp, wire, controlWire, readFailed>>

\* A stream's onclose: it resolves downDone if the download waits for it.
StreamClosed(c, s) ==
  /\ Running(c)
  /\ s \in linked[c]
  /\ ~open[s] /\ ~closedSeen[s]
  /\ closedSeen' = [closedSeen EXCEPT ![s] = TRUE]
  /\ downWait' = [downWait EXCEPT ![s] = FALSE]
  /\ UNCHANGED <<vars, phase, opening, linked, stopping, aborted, upFinished,
                 shown, netVars>>

\* The operator presses stop, at any moment of a manual run.
PressStop(c) ==
  /\ Running(c)
  /\ c \in Manual
  /\ ~stopping[c]
  /\ stopping' = [stopping EXCEPT ![c] = TRUE]
  /\ SendControl(c, "STOP")
  /\ UNCHANGED <<vars, phase, opening, linked, aborted, downWait, upFinished,
                 closedSeen, shown, controlUp, wire, doneMsg, readFailed>>

-----------------------------------------------------------------------------
(* The server: Sessions' handlers on the messages the page has sent *)

\* The next message serveStream or recvUpload reads on s.
Reads(s, message) == ~readFailed[s] /\ Heads(wire[s], message)
Consume(s) == wire' = [wire EXCEPT ![s] = Tail(@)]
ConsumeControl(c) == controlWire' = [controlWire EXCEPT ![c] = Tail(@)]

ServerHello(c, s) ==
  /\ opening[c] = s
  /\ FindSession(s, c) \/ FindNoSession(s, c)
  /\ UNCHANGED <<pageVars, netVars>>

ServerStop(c) ==
  /\ Heads(controlWire[c], "STOP")
  /\ RequestStop(c)
  /\ ConsumeControl(c)
  /\ UNCHANGED <<pageVars, controlUp, wire, doneMsg, readFailed>>

ServerFinal(c) ==
  /\ Heads(controlWire[c], "FINAL")
  /\ HandleFinal(c)
  /\ ConsumeControl(c)
  /\ UNCHANGED <<pageVars, controlUp, wire, doneMsg, readFailed>>

ServerDownStart(s) ==
  /\ Reads(s, "DOWN_START")
  /\ StartDownload(s)
  /\ Consume(s)
  /\ UNCHANGED <<pageVars, controlUp, controlWire, doneMsg, readFailed>>

\* DOWN_DONE goes out unless a write failed: on a closed connection, or after
\* writeTimeout on one that stays open but does not drain.  It is written just
\* before endDownload, whose counters nobody but endDownload reads.
ServerDownEnd(s) ==
  /\ EndDownload(s)
  /\ doneMsg' \in {[doneMsg EXCEPT ![s] = d] :
                     d \in IF ~open[s] THEN {"none"}
                           ELSE IF "download" \in Lossy THEN {"sent", "lost"}
                           ELSE {"sent"}}
  /\ UNCHANGED <<pageVars, controlUp, wire, controlWire, readFailed>>

ServerUpStart(s) ==
  /\ Reads(s, "UP_START")
  /\ StartUpload(s)
  /\ Consume(s)
  /\ UNCHANGED <<pageVars, controlUp, controlWire, doneMsg, readFailed>>

\* UP_DONE ends the stream's upload; so does a closed connection.
ServerUpEnd(s) ==
  /\ EndUpload(s)
  /\ IF Reads(s, "UP_DONE") THEN Consume(s)
     ELSE ~open[s] /\ UNCHANGED wire
  /\ UNCHANGED <<pageVars, controlUp, controlWire, doneMsg, readFailed>>

\* recvUpload's read deadline passes on a connection that stalls but stays
\* open.  gorilla keeps the error: nothing is read on s any more, an UP_DONE
\* that comes late included, and serveStream returns at its next read.
ServerUpDeadline(s) ==
  /\ "upload" \in Lossy
  /\ open[s]
  /\ EndUpload(s)
  /\ readFailed' = [readFailed EXCEPT ![s] = TRUE]
  /\ UNCHANGED <<pageVars, controlUp, wire, controlWire, doneMsg>>

\* serveStream returns when the connection is closed, when a read on it has
\* failed, or when it is silent for good.
ServerStreamReturns(s) ==
  /\ ~open[s] \/ readFailed[s] \/ doneMsg[s] = "lost"
  /\ StreamReturns(s)
  /\ UNCHANGED <<pageVars, netVars>>

ServerControlReturns(c) ==
  /\ ~controlUp[c]
  /\ ControlReturns(c)
  /\ UNCHANGED <<pageVars, netVars>>

\* The steps that wait for nobody.
ServerRelease(c) ==
  /\ \/ ReleaseLock(c) \/ CollectStreams(c) \/ ControlDone(c)
     \/ \E s \in Stream : CloseStream(c, s)
  /\ UNCHANGED <<pageVars, netVars>>

ServerStreamSteps(s) ==
  /\ AddStream(s) \/ StoreStats(s) \/ SendResult(s) \/ RemoveStream(s)
  /\ UNCHANGED <<pageVars, netVars>>

-----------------------------------------------------------------------------
(* The network *)

\* A stream drops where the instance lets it, or because the page closed it.
\* What was on its way is lost.
NetDropStream(c, s) ==
  /\ of[s] = c
  /\ phase[c] \in Lossy \cup {"done", "failed"}
  /\ DropStream(s)
  /\ wire' = [wire EXCEPT ![s] = <<>>]
  /\ UNCHANGED <<pageVars, controlUp, controlWire, doneMsg, readFailed>>

NetDropControl(c) ==
  /\ controlUp[c]
  /\ phase[c] \in Cut \cup {"done", "failed"}
  /\ controlUp' = [controlUp EXCEPT ![c] = FALSE]
  /\ controlWire' = [controlWire EXCEPT ![c] = <<>>]
  /\ UNCHANGED <<vars, pageVars, wire, doneMsg, readFailed>>

-----------------------------------------------------------------------------
PageStep(c) ==
  \/ LatencyBegins(c) \/ LatencyEnds(c) \/ DownloadEnds(c)
  \/ UploadEnds(c) \/ UploadTimesOut(c) \/ Reported(c) \/ ReportedNothing(c)
  \/ StoredTimesOut(c) \/ AbortUnwinds(c) \/ ControlClosed(c)

PageStreamStep(c, s) ==
  \/ OpenStream(c, s) \/ StreamAcked(c, s) \/ OpenFails(c, s)
  \/ PumpEnds(c, s) \/ DownDone(c, s) \/ StreamClosed(c, s)

ServerControlStep(c) ==
  \/ ServerStop(c) \/ ServerFinal(c) \/ ServerControlReturns(c)
  \/ ServerRelease(c)

ServerStreamStep(s) ==
  \/ ServerDownStart(s) \/ ServerDownEnd(s) \/ ServerUpStart(s)
  \/ ServerUpEnd(s) \/ ServerUpDeadline(s)
  \/ ServerStreamReturns(s) \/ ServerStreamSteps(s)

RunNext ==
  \/ \E c \in Control :
       \/ ControlAcked(c) \/ PageStep(c) \/ PressStop(c)
       \/ ServerControlStep(c)
       \/ NetDropControl(c)
       \/ \E s \in Stream : \/ PageStreamStep(c, s) \/ ServerHello(c, s)
                            \/ NetDropStream(c, s)
  \/ \E s \in Stream : ServerStreamStep(s)

RunSpec == RunInit /\ [][RunNext]_runVars

\* What the goroutine of a stream does without waiting for anyone else: a
\* manual download does not end by itself, and no read deadline is due while
\* data is on its way.
ServerMustStep(s) ==
  \/ ServerDownStart(s) \/ ServerUpStart(s) \/ ServerUpEnd(s)
  \/ ServerDownEnd(s) /\ (LoopEnds(s) \/ ~open[s])
  \/ ServerStreamReturns(s) \/ ServerStreamSteps(s)
  \/ \E c \in Control : ServerHello(c, s)

\* The page's event loop and the server's goroutines keep running, what is sent
\* arrives or its connection drops, and what the page closes gets closed.
\* Nothing makes the network drop anything else, and nothing makes the operator
\* press start or stop.
RunFairness ==
  /\ \A c \in Control :
       /\ WF_runVars(PageStep(c) \/ \E s \in Stream : PageStreamStep(c, s))
       /\ WF_runVars(ServerControlStep(c))
       /\ WF_runVars(/\ ~Running(c)
                     /\ \/ NetDropControl(c)
                        \/ \E s \in Stream : NetDropStream(c, s))
  /\ \A s \in Stream : WF_runVars(ServerMustStep(s))

FairRunSpec == RunSpec /\ RunFairness

-----------------------------------------------------------------------------
\* Sessions assumes of the page which messages come when; the page keeps to it:
\* the server never has to read a message Sessions has no action for, such as
\* an UP_DONE after the stream's upload (app.js:1004-1023, 1068-1084,
\* 1186-1263; server.go:506-531).
PageKeepsRules ==
  /\ \A s \in Stream :
       Listening(s) /\ ~readFailed[s] /\ wire[s] # <<>> =>
         \/ /\ Head(wire[s]) = "DOWN_START"
            /\ of[s] \in Downloads
            /\ idx[s] \notin dlResults[of[s]] \cup upTotal[of[s]]
         \/ /\ Head(wire[s]) = "UP_START"
            /\ of[s] \in Uploads
            /\ of[s] \in Downloads => idx[s] \in dlResults[of[s]]
            /\ idx[s] \notin upTotal[of[s]]
  /\ \A c \in Control :
       ctl[c] = "serving" /\ Heads(controlWire[c], "FINAL") /\ c \in Uploads
         => result[c] # NoFigures

\* "The client opens every stream and waits for each acknowledgement before
\* starting a phase" (server.go:956-958): no phase runs on the server while a
\* stream of the run is still joining.  That the list "is complete" follows only
\* if no stream has dropped and been removed before the first phase.
HeaderListsEveryStream ==
  \A c \in Control :
    dlActive[c] + upActive[c] > 0
      => \A s \in Stream : strm[s] \notin {"hello", "found"}

\* What the page shows is the run the server stored, and it was measured: in
\* the download on every stream, but for those whose close the page has heard
\* of, and in the upload with the figures of RESULT.  A page whose state is
\* "done" shows nothing only after its control connection was lost
\* (app.js:1041-1048, 1220-1254, 1328-1334, 1378, 1405-1409;
\* server.go:731-845).
ReportIsMeasured ==
  \A c \in Control :
    /\ phase[c] = "done" /\ shown[c] = NoFigures => aborted[c]
    /\ shown[c] # NoFigures =>
         /\ phase[c] = "done" /\ shown[c] = stored[c]
         /\ c \in Downloads =>
              \A s \in Stream : idx[s] \in dlResults[c] \/ closedSeen[s]
         /\ c \in Uploads =>
              /\ shown[c].stats = result[c]
              /\ result[c] # {} /\ result[c] \subseteq shown[c].total

\* A run ends: by itself, or once the operator has stopped it; whatever drops
\* in the phases the instance lets lose something (app.js:1265-1271, 1328-1334,
\* 1364-1379).
RunEnds ==
  (\E c \in Control : Running(c) /\ (c \in Manual => stopping[c]))
    ~> (\A c \in Control : ~Running(c))

\* When the page is through, the server gives the lock back and ends every
\* goroutine of the run (app.js:1392-1401; server.go:442, 500, 883-889).
RunLeavesNothing ==
  \A c \in Control :
    phase[c] \in {"done", "failed"}
      ~> /\ active # c
         /\ \A s \in Stream : of[s] = c => strm[s] = "gone"

\* "The wait for the server's aggregate is bounded from the moment it was asked
\* to stop" (app.js:1106-1108).
StoppedUploadEnds ==
  \A c \in Control :
    phase[c] = "upload" /\ stopping[c] ~> phase[c] # "upload"

\* "A stream dropping mid-download would otherwise hang the phase forever"
\* (app.js:1329): the phase ends, whatever streams have dropped.
DownloadPhaseEnds ==
  \A c \in Control :
    phase[c] = "download" /\ (c \in Manual => stopping[c])
      ~> phase[c] # "download"
=============================================================================
