--------------------------- MODULE TestRunProofs ---------------------------
(***************************************************************************)
(* Proofs about TestRun for every set of sessions, streams and indices,    *)
(* whatever may drop.  Order: the refinement of Sessions, by which every   *)
(* theorem of SessionsProofs holds of a run; type correctness; the         *)
(* inductive invariant, which places every stream at one stage of the run; *)
(* and the properties that follow from it.                                 *)
(***************************************************************************)
EXTENDS TestRun, SessionsProofs, SequenceTheorems

-----------------------------------------------------------------------------
(* A run is an execution of the server *)

\* The page's own steps, and messages on their way, touch no server state; any
\* other step of a run is one of the server's, or its view of the network.
LEMMA RunStep ==
  ASSUME RunNext
  PROVE  Next \/ UNCHANGED vars
<1> USE DEF Next, ControlNext, StreamNext
<1>1. ASSUME NEW c \in Control, ControlAcked(c) PROVE Next
  BY <1>1 DEF ControlAcked
<1>2. ASSUME NEW c \in Control, PageStep(c) PROVE UNCHANGED vars
  BY <1>2 DEF PageStep, LatencyBegins, LatencyEnds, DownloadEnds, UploadEnds,
              UploadTimesOut, Reported, ReportedNothing, StoredTimesOut,
              AbortUnwinds, ControlClosed
<1>3. ASSUME NEW c \in Control, PressStop(c) \/ NetDropControl(c)
      PROVE  UNCHANGED vars
  BY <1>3 DEF PressStop, NetDropControl
<1>4. ASSUME NEW c \in Control, NEW s \in Stream, PageStreamStep(c, s)
      PROVE  UNCHANGED vars
  BY <1>4 DEF PageStreamStep, OpenStream, StreamAcked, OpenFails, PumpEnds,
              DownDone, StreamClosed
<1>5. ASSUME NEW c \in Control, ServerControlStep(c) PROVE Next
  BY <1>5 DEF ServerControlStep, ServerStop, ServerFinal,
              ServerControlReturns, ServerRelease
<1>6. ASSUME NEW c \in Control, NEW s \in Stream, ServerHello(c, s)
      PROVE  Next
  BY <1>6 DEF ServerHello
<1>7. ASSUME NEW c \in Control, NEW s \in Stream, NetDropStream(c, s)
      PROVE  Next
  BY <1>7 DEF NetDropStream
<1>8. ASSUME NEW s \in Stream, ServerStreamStep(s) PROVE Next
  BY <1>8 DEF ServerStreamStep, ServerDownStart, ServerDownEnd, ServerUpStart,
              ServerUpEnd, ServerUpDeadline, ServerStreamReturns,
              ServerStreamSteps
<1> QED
  BY <1>1, <1>2, <1>3, <1>4, <1>5, <1>6, <1>7, <1>8 DEF RunNext

\* The composition of the page, the network and the server implements Sessions:
\* what is proved of the server in isolation, under an environment that may do
\* anything the rules allow, holds of every run of the page.
THEOREM TestRunImplementsSessions == RunSpec => Spec
<1>1. RunInit => Init
  BY DEF RunInit
<1>2. [RunNext]_runVars => [Next]_vars
  BY RunStep DEF runVars
<1> QED
  BY <1>1, <1>2, PTL DEF RunSpec, Spec

-----------------------------------------------------------------------------
(* Type correctness *)

PhaseType ==
  /\ phase \in [Control -> Phase]
  /\ opening \in [Control -> Stream \cup {NoStream}]
  /\ linked \in [Control -> SUBSET Stream]
  /\ stopping \in [Control -> BOOLEAN]
  /\ aborted \in [Control -> BOOLEAN]
  /\ shown \in [Control -> {NoFigures}
                  \cup [stats : Figures, total : SUBSET Index]]

FlagType ==
  /\ downWait \in [Stream -> BOOLEAN]
  /\ upFinished \in [Stream -> BOOLEAN]
  /\ closedSeen \in [Stream -> BOOLEAN]
  /\ controlUp \in [Control -> BOOLEAN]
  /\ doneMsg \in [Stream -> {"none", "sent", "lost"}]
  /\ readFailed \in [Stream -> BOOLEAN]

StreamMessage == {"DOWN_START", "UP_START", "UP_DONE"}
ControlMessage == {"STOP", "FINAL"}

WireType ==
  /\ wire \in [Stream -> Seq(StreamMessage)]
  /\ controlWire \in [Control -> Seq(ControlMessage)]

\* The type invariant, in the parts the proofs use.
LEMMA TypeParts ==
  TestRunTypeOK <=> TypeOK /\ PhaseType /\ FlagType /\ WireType
  BY DEF TestRunTypeOK, PhaseType, FlagType, WireType, StreamMessage,
         ControlMessage

\* Whatever SendTo sends, a wire carries stream messages.
LEMMA SendToType ==
  ASSUME WireType, NEW targets, NEW m \in Seq(StreamMessage),
         SendTo(targets, m)
  PROVE  wire' \in [Stream -> Seq(StreamMessage)]
<1> SUFFICES ASSUME NEW s \in Stream PROVE wire[s] \o m \in Seq(StreamMessage)
  BY DEF SendTo, WireType
<1> QED
  BY DEF WireType

\* Likewise for the control connection.
LEMMA SendControlType ==
  ASSUME WireType, NEW c \in Control, NEW m \in ControlMessage,
         SendControl(c, m)
  PROVE  controlWire' \in [Control -> Seq(ControlMessage)]
<1>1. Append(controlWire[c], m) \in Seq(ControlMessage)
  BY DEF WireType
<1> QED
  BY <1>1 DEF SendControl, WireType

\* The messages the page sends on its streams.
LEMMA StreamMessages ==
  /\ <<"DOWN_START">> \in Seq(StreamMessage)
  /\ <<"UP_START">> \in Seq(StreamMessage)
  /\ <<"UP_DONE">> \in Seq(StreamMessage)
  /\ <<"UP_START", "UP_DONE">> \in Seq(StreamMessage)
  BY DEF StreamMessage

\* A message that is there can be taken off.
LEMMA TailType ==
  ASSUME NEW M, NEW q \in Seq(M), NEW m, Heads(q, m)
  PROVE  Tail(q) \in Seq(M)
  BY DEF Heads

\* A phase of the page begins: the messages it sends are of their types.
LEMMA PhaseBeginsType ==
  ASSUME PhaseType, FlagType, WireType, NEW c \in Control,
         BeginDownload(c) \/ BeginUpload(c) \/ BeginFinal(c)
  PROVE  PhaseType' /\ FlagType' /\ WireType'
<1>1. CASE BeginDownload(c)
  <2>1. wire' \in [Stream -> Seq(StreamMessage)]
    BY <1>1, SendToType, StreamMessages DEF BeginDownload
  <2> QED
    BY <1>1, <2>1
    DEF BeginDownload, PhaseType, FlagType, WireType, Phase, RunningPhases
<1>2. CASE BeginUpload(c)
  <2>1. wire' \in [Stream -> Seq(StreamMessage)]
    BY <1>2, SendToType, StreamMessages DEF BeginUpload
  <2>2. upFinished' \in [Stream -> BOOLEAN]
    BY <1>2, Zenon DEF BeginUpload, FlagType
  <2> QED
    BY <1>2, <2>1, <2>2
    DEF BeginUpload, PhaseType, FlagType, WireType, Phase, RunningPhases
<1>3. CASE BeginFinal(c)
  <2>1. controlWire' \in [Control -> Seq(ControlMessage)]
    BY <1>3, SendControlType DEF BeginFinal, ControlMessage
  <2> QED
    BY <1>3, <2>1
    DEF BeginFinal, PhaseType, FlagType, WireType, Phase, RunningPhases
<1> QED
  BY <1>1, <1>2, <1>3

\* The page's steps, from await to await.
LEMMA PageType ==
  ASSUME TypeOK, PhaseType, FlagType, WireType, NEW c \in Control,
         PageStep(c) \/ PressStop(c) \/ ControlAcked(c)
  PROVE  PhaseType' /\ FlagType' /\ WireType'
<1> USE DEF PhaseType, FlagType, WireType, Phase, RunningPhases, netVars
<1>1. CASE LatencyEnds(c) \/ DownloadEnds(c) \/ UploadEnds(c)
  BY <1>1, PhaseBeginsType DEF LatencyEnds, DownloadEnds, UploadEnds
<1>2. CASE ControlAcked(c) \/ LatencyBegins(c) \/ ReportedNothing(c)
  BY <1>2 DEF ControlAcked, LatencyBegins, ReportedNothing
<1>3. CASE UploadTimesOut(c) \/ StoredTimesOut(c) \/ AbortUnwinds(c)
  BY <1>3 DEF UploadTimesOut, StoredTimesOut, AbortUnwinds, Fail
<1>4. CASE ControlClosed(c)
  <2>1. downWait' \in [Stream -> BOOLEAN]
    BY <1>4, Zenon DEF ControlClosed
  <2> QED
    BY <1>4, <2>1 DEF ControlClosed
<1>5. CASE PressStop(c)
  <2>1. controlWire' \in [Control -> Seq(ControlMessage)]
    BY <1>5, SendControlType DEF PressStop, ControlMessage
  <2> QED
    BY <1>5, <2>1 DEF PressStop
<1>6. CASE Reported(c)
  BY <1>6 DEF Reported, TypeOK
<1> QED
  BY <1>1, <1>2, <1>3, <1>4, <1>5, <1>6 DEF PageStep

\* The page's steps on one stream.
LEMMA PageStreamType ==
  ASSUME PhaseType, FlagType, WireType, NEW c \in Control, NEW s \in Stream,
         PageStreamStep(c, s)
  PROVE  PhaseType' /\ FlagType' /\ WireType'
<1> USE DEF PhaseType, FlagType, WireType, Phase, RunningPhases, netVars
<1>1. CASE OpenStream(c, s) \/ StreamAcked(c, s)
  <2>1. linked[c] \cup {s} \in SUBSET Stream
    OBVIOUS
  <2>2. CASE OpenStream(c, s)
    BY <2>2 DEF OpenStream
  <2>3. CASE StreamAcked(c, s)
    BY <2>1, <2>3 DEF StreamAcked
  <2> QED
    BY <1>1, <2>2, <2>3
<1>2. CASE OpenFails(c, s)
  BY <1>2 DEF OpenFails, Fail
<1>3. CASE PumpEnds(c, s)
  <2>1. wire' \in [Stream -> Seq(StreamMessage)]
    BY <1>3, SendToType, StreamMessages DEF PumpEnds
  <2> QED
    BY <1>3, <2>1 DEF PumpEnds
<1>4. CASE DownDone(c, s)
  BY <1>4 DEF DownDone
<1>5. CASE StreamClosed(c, s)
  <2>1. FlagType'
    BY <1>5 DEF StreamClosed
  <2>2. PhaseType' /\ WireType'
    BY <1>5 DEF StreamClosed
  <2> QED
    BY <2>1, <2>2
<1> QED
  BY <1>1, <1>2, <1>3, <1>4, <1>5 DEF PageStreamStep

\* The server's control connection: messages are taken off or lost.
LEMMA ServerControlType ==
  ASSUME PhaseType, FlagType, WireType, NEW c \in Control,
         ServerControlStep(c) \/ NetDropControl(c)
  PROVE  PhaseType' /\ FlagType' /\ WireType'
<1> USE DEF PhaseType, FlagType, WireType, netVars, pageVars
<1>1. CASE ServerStop(c) \/ ServerFinal(c)
  <2>1. Tail(controlWire[c]) \in Seq(ControlMessage)
    BY <1>1, TailType DEF ServerStop, ServerFinal
  <2> QED
    BY <1>1, <2>1 DEF ServerStop, ServerFinal, ConsumeControl
<1>2. CASE ServerControlReturns(c) \/ ServerRelease(c)
  BY <1>2 DEF ServerControlReturns, ServerRelease
<1>3. CASE NetDropControl(c)
  BY <1>3 DEF NetDropControl
<1> QED
  BY <1>1, <1>2, <1>3 DEF ServerControlStep

\* A joining stream, and one the network drops.
LEMMA JoinDropType ==
  ASSUME PhaseType, FlagType, WireType, NEW c \in Control, NEW s \in Stream,
         ServerHello(c, s) \/ NetDropStream(c, s)
  PROVE  PhaseType' /\ FlagType' /\ WireType'
<1> USE DEF PhaseType, FlagType, WireType, netVars, pageVars
<1>1. CASE ServerHello(c, s)
  BY <1>1 DEF ServerHello
<1>2. CASE NetDropStream(c, s)
  BY <1>2 DEF NetDropStream
<1> QED
  BY <1>1, <1>2

\* The server's streams: likewise.
LEMMA ServerStreamType ==
  ASSUME PhaseType, FlagType, WireType, NEW s \in Stream, ServerStreamStep(s)
  PROVE  PhaseType' /\ FlagType' /\ WireType'
<1> USE DEF PhaseType, FlagType, WireType, netVars, pageVars
<1>1. CASE ServerDownStart(s) \/ ServerUpStart(s)
  <2>1. Tail(wire[s]) \in Seq(StreamMessage)
    BY <1>1, TailType DEF ServerDownStart, ServerUpStart, Reads
  <2> QED
    BY <1>1, <2>1 DEF ServerDownStart, ServerUpStart, Consume
<1>2. CASE ServerDownEnd(s)
  BY <1>2 DEF ServerDownEnd
<1>3. CASE ServerUpEnd(s)
  <2>1. CASE Reads(s, "UP_DONE")
    <3>1. Tail(wire[s]) \in Seq(StreamMessage)
      BY <2>1, TailType DEF Reads
    <3> QED
      BY <1>3, <2>1, <3>1 DEF ServerUpEnd, Consume
  <2>2. CASE ~Reads(s, "UP_DONE")
    BY <1>3, <2>2 DEF ServerUpEnd
  <2> QED
    BY <2>1, <2>2
<1>4. CASE \/ ServerUpDeadline(s) \/ ServerStreamReturns(s)
           \/ ServerStreamSteps(s)
  BY <1>4 DEF ServerUpDeadline, ServerStreamReturns, ServerStreamSteps
<1> QED
  BY <1>1, <1>2, <1>3, <1>4 DEF ServerStreamStep

\* Every step of a run keeps every variable in its type.
LEMMA RunTypeNext == TestRunTypeOK /\ [RunNext]_runVars => TestRunTypeOK'
<1> SUFFICES ASSUME TestRunTypeOK, [RunNext]_runVars PROVE TestRunTypeOK'
  OBVIOUS
<1>1. TypeOK /\ PhaseType /\ FlagType /\ WireType
  BY TypeParts
<1>2. TypeOK'
  BY <1>1, RunStep, TypeNext DEF runVars
<1>3. PhaseType' /\ FlagType' /\ WireType'
  <2>1. CASE UNCHANGED runVars
    BY <1>1, <2>1 DEF runVars, pageVars, netVars, PhaseType, FlagType, WireType
  <2>2. ASSUME NEW c \in Control,
               ControlAcked(c) \/ PageStep(c) \/ PressStop(c)
        PROVE  PhaseType' /\ FlagType' /\ WireType'
    BY <1>1, <2>2, PageType
  <2>3. ASSUME NEW c \in Control, NEW s \in Stream, PageStreamStep(c, s)
        PROVE  PhaseType' /\ FlagType' /\ WireType'
    BY <1>1, <2>3, PageStreamType
  <2>4. ASSUME NEW c \in Control, NEW s \in Stream,
               ServerHello(c, s) \/ NetDropStream(c, s)
        PROVE  PhaseType' /\ FlagType' /\ WireType'
    BY <1>1, <2>4, JoinDropType
  <2>5. ASSUME NEW c \in Control, ServerControlStep(c) \/ NetDropControl(c)
        PROVE  PhaseType' /\ FlagType' /\ WireType'
    BY <1>1, <2>5, ServerControlType
  <2>6. ASSUME NEW s \in Stream, ServerStreamStep(s)
        PROVE  PhaseType' /\ FlagType' /\ WireType'
    BY <1>1, <2>6, ServerStreamType
  <2> QED
    BY <2>1, <2>2, <2>3, <2>4, <2>5, <2>6 DEF RunNext
<1> QED
  BY <1>2, <1>3
  DEF TestRunTypeOK, PhaseType, FlagType, WireType, StreamMessage,
      ControlMessage

\* The variables of the page and of the connections keep their types: nothing
\* but the three stream messages and the two control messages is ever on its
\* way (app.js:1004-1023, 1068-1084, 1186-1263).
THEOREM TestRunTypeCorrect == RunSpec => []TestRunTypeOK
<1>1. RunInit => TestRunTypeOK
  <2> SUFFICES ASSUME RunInit PROVE TestRunTypeOK
    OBVIOUS
  <2>1. TypeOK
    BY TypeInit DEF RunInit
  <2>2. PhaseType /\ FlagType
    BY DEF RunInit, PhaseType, FlagType, Phase
  <2>3. WireType
    BY DEF RunInit, WireType
  <2> QED
    BY <2>1, <2>2, <2>3, TypeParts
<1> QED
  BY <1>1, RunTypeNext, PTL DEF RunSpec

-----------------------------------------------------------------------------
(* The inductive invariant *)

\* One session runs, and only its streams are opened; a stream is linked once
\* the server has acknowledged it, and no phase begins before all are.
RunIsJoined ==
  /\ \A s, t \in Stream : idx[s] = idx[t] => s = t
  /\ \A c, d \in Control : phase[c] # "idle" /\ phase[d] # "idle" => c = d
  /\ \A c \in Control :
       /\ phase[c] \in {"latency", "download", "upload", "final", "done"}
            => linked[c] = Stream
       /\ \A s \in Stream :
            /\ opening[c] = s => phase[c] = "opening" /\ s \notin linked[c]
            /\ of[s] = c => phase[c] # "idle"
            /\ s \in linked[c] => of[s] = c /\ strm[s] \notin {"hello", "found"}

Loading == {"downloading", "uploading"}
Busy == Loading \cup {"aggregating", "reporting"}

\* A phase is asked for, or runs on the server, on linked streams only.
LoadIsLinked ==
  \A s \in Stream :
    /\ wire[s] # <<>> => \E c \in Control : s \in linked[c]
    /\ strm[s] = "hello" => doneMsg[s] = "none"
    /\ \A c \in Control :
         of[s] = c /\ (wire[s] # <<>> \/ strm[s] \in Loading)
           => linked[c] = Stream

\* The rows and the byte totals of a session are those of its own streams.
RowsAreOwn ==
  \A c \in Control : \A s \in Stream :
    idx[s] \in dlResults[c] \cup upTotal[c] => of[s] = c

ClosedIsClosed == \A s \in Stream : closedSeen[s] => ~open[s]

Row(c, s) == idx[s] \in dlResults[c]
Counted(c, s) == idx[s] \in upTotal[c]

\* The stages of a stream: no phase yet; the download asked for, running,
\* over; the upload asked for, running, over.
Fresh(c, s) ==
  /\ strm[s] \notin Busy /\ wire[s] = <<>>
  /\ ~Row(c, s) /\ ~Counted(c, s) /\ doneMsg[s] = "none"
DownAsked(c, s) ==
  /\ c \in Downloads
  /\ strm[s] \notin Busy /\ wire[s] = <<"DOWN_START">>
  /\ ~Row(c, s) /\ ~Counted(c, s) /\ doneMsg[s] = "none"
Downing(c, s) ==
  /\ c \in Downloads
  /\ strm[s] = "downloading" /\ wire[s] = <<>>
  /\ ~Row(c, s) /\ ~Counted(c, s) /\ doneMsg[s] = "none"
Downed(c, s) ==
  /\ c \in Downloads
  /\ strm[s] \notin Busy /\ wire[s] = <<>>
  /\ Row(c, s) /\ ~Counted(c, s)
DoneAtMost(s) ==
  \/ wire[s] = <<>>
  \/ wire[s] = <<"UP_DONE">> /\ upFinished[s]
UpAsked(c, s) ==
  /\ c \in Uploads /\ (c \in Downloads => Row(c, s))
  /\ strm[s] \notin Busy
  /\ \/ wire[s] = <<"UP_START">>
     \/ wire[s] = <<"UP_START", "UP_DONE">> /\ upFinished[s]
  /\ ~Counted(c, s)
Uping(c, s) ==
  /\ c \in Uploads /\ (c \in Downloads => Row(c, s))
  /\ strm[s] = "uploading"
  /\ DoneAtMost(s)
  /\ ~Counted(c, s)
Upped(c, s) ==
  /\ c \in Uploads /\ (c \in Downloads => Row(c, s))
  /\ strm[s] \notin Loading
  /\ DoneAtMost(s)
  /\ Counted(c, s)
  /\ readFailed[s] \/ (wire[s] = <<>> /\ upFinished[s])

InDownload(c, s) == DownAsked(c, s) \/ Downing(c, s) \/ Downed(c, s)
InUpload(c, s) == UpAsked(c, s) \/ Uping(c, s) \/ Upped(c, s)

\* The phase the page is in bounds the stages of the streams that are open; a
\* download the page no longer waits for is over on the server.
StageAt(c, s) ==
  /\ phase[c] \in {"opening", "latency"} => Fresh(c, s)
  /\ phase[c] = "download" =>
       /\ InDownload(c, s)
       /\ ~aborted[c] /\ ~downWait[s] => Downed(c, s)
  /\ phase[c] = "upload" => InUpload(c, s)
  /\ phase[c] \in {"final", "done", "failed"} =>
       Fresh(c, s) \/ InDownload(c, s) \/ InUpload(c, s)

StreamsStaged ==
  \A c \in Control : \A s \in Stream :
    of[s] = c /\ open[s] => StageAt(c, s)

\* The positions at which FINAL is on its way.
FinalSent(c) == {i \in DOMAIN controlWire[c] : controlWire[c][i] = "FINAL"}

\* FINAL goes out once, after RESULT has come in; the run is stored when it has
\* arrived, and not before.
FinalIsOnce ==
  \A c \in Control :
    /\ \A i, j \in FinalSent(c) : i = j
    /\ FinalSent(c) # {} =>
         /\ stored[c] = NoFigures
         /\ c \in Uploads => result[c] # NoFigures
    /\ phase[c] \notin {"final", "done", "failed"} =>
         FinalSent(c) = {} /\ stored[c] = NoFigures

\* The page shows the run that is stored, once it is done; it shows nothing when
\* done only if it has lost its control connection.
ShownIsStored ==
  \A c \in Control :
    /\ phase[c] # "done" => shown[c] = NoFigures
    /\ phase[c] = "done" /\ shown[c] = NoFigures => aborted[c]
    /\ shown[c] # NoFigures => shown[c] = stored[c]

\* A download the page has left was recorded on every stream, but for those
\* whose close it has heard of.
Told(c, s) == Row(c, s) \/ closedSeen[s]

DownloadIsTold ==
  \A c \in Control : \A s \in Stream :
    /\ doneMsg[s] = "sent" /\ of[s] = c => Row(c, s)
    /\ phase[c] = "download" /\ ~aborted[c] => downWait[s] \/ Told(c, s)
    /\ phase[c] \in {"upload", "final", "done"} /\ c \in Downloads
         => Told(c, s)

RunInv ==
  /\ RunIsJoined
  /\ LoadIsLinked
  /\ RowsAreOwn
  /\ ClosedIsClosed
  /\ StreamsStaged
  /\ FinalIsOnce
  /\ ShownIsStored
  /\ DownloadIsTold

-----------------------------------------------------------------------------
(* Who is joined *)

\* No step changes a stream's index; a stream past its HELLO never returns to
\* it; and lookup alone gives a stream its session.
LEMMA JoinStep ==
  ASSUME TypeOK, StreamsJoined, [Next]_vars, NEW s \in Stream
  PROVE  /\ idx' = idx
         /\ strm'[s] = "hello" => strm[s] = "hello"
         /\ strm'[s] = "found" => strm[s] \in {"hello", "found"}
         /\ (\E c \in Control : FindSession(s, c)) \/ of'[s] = of[s]
<1>1. ASSUME NEW c \in Control, ControlNext(c)
      PROVE  UNCHANGED <<idx, strm, of>>
  BY <1>1, ControlFrame
<1>2. ASSUME NEW t \in Stream, StreamNext(t)
      PROVE  /\ idx' = idx
             /\ \A u \in Stream \ {t} : UNCHANGED <<strm[u], of[u]>>
             /\ strm'[t] # "hello"
             /\ strm'[t] = "found" => strm[t] = "hello"
             /\ (\E c \in Control : FindSession(t, c)) \/ of' = of
  <2> USE DEF TypeOK, Registered, Listening
  <2>1. idx' = idx
    BY <1>2, StreamFrame
  <2>2. ASSUME NEW c \in Control, FindSession(t, c) \/ FindNoSession(t, c)
        PROVE  /\ \A u \in Stream \ {t} : UNCHANGED <<strm[u], of[u]>>
               /\ strm'[t] # "hello"
               /\ strm'[t] = "found" => strm[t] = "hello"
               /\ FindSession(t, c) \/ of' = of
    BY <2>2 DEF FindSession, FindNoSession
  <2>3. CASE AddStream(t) \/ StreamReturns(t) \/ RemoveStream(t)
             \/ DropStream(t)
    BY <2>1, <2>3 DEF AddStream, StreamReturns, RemoveStream, DropStream
  <2>4. CASE StartDownload(t) \/ EndDownload(t)
    BY <2>1, <2>4 DEF StartDownload, EndDownload
  <2>5. CASE StartUpload(t) \/ EndUpload(t)
    BY <2>1, <2>5 DEF StartUpload, EndUpload
  <2>6. CASE StoreStats(t) \/ SendResult(t)
    BY <2>1, <2>6 DEF StoreStats, SendResult
  <2> QED
    BY <1>2, <2>1, <2>2, <2>3, <2>4, <2>5, <2>6 DEF StreamNext
<1>3. CASE UNCHANGED vars
  BY <1>3 DEF vars, streamVars
<1> QED
  BY <1>1, <1>2, <1>3 DEF Next

\* A step of the page that moves one session's startTest forward.
LEMMA PageJoined ==
  ASSUME PhaseType, RunIsJoined, NEW c \in Control,
         ControlAcked(c) \/ PageStep(c) \/ PressStop(c)
  PROVE  RunIsJoined'
<1> USE DEF PhaseType, RunIsJoined, vars, streamVars, pageVars
<1>1. CASE ControlAcked(c)
  BY <1>1 DEF ControlAcked, Claim
<1>2. CASE LatencyBegins(c) \/ Reported(c) \/ ReportedNothing(c)
  BY <1>2 DEF LatencyBegins, Reported, ReportedNothing
<1>3. CASE LatencyEnds(c) \/ DownloadEnds(c) \/ UploadEnds(c)
  BY <1>3 DEF LatencyEnds, DownloadEnds, UploadEnds, BeginDownload,
              BeginUpload, BeginFinal
<1>4. CASE UploadTimesOut(c) \/ StoredTimesOut(c) \/ AbortUnwinds(c)
  BY <1>4, SessionsAssumption
  DEF UploadTimesOut, StoredTimesOut, AbortUnwinds, Fail
<1>5. CASE ControlClosed(c) \/ PressStop(c)
  BY <1>5 DEF ControlClosed, PressStop
<1> QED
  BY <1>1, <1>2, <1>3, <1>4, <1>5 DEF PageStep

\* A step of the page on one of its streams.
LEMMA PageStreamJoined ==
  ASSUME TypeOK, StreamsJoined, PhaseType, RunIsJoined,
         NEW c \in Control, NEW s \in Stream, PageStreamStep(c, s)
  PROVE  RunIsJoined'
<1> USE DEF PhaseType, RunIsJoined, vars, streamVars, pageVars
<1>1. CASE OpenStream(c, s)
  BY <1>1 DEF OpenStream
<1>2. CASE StreamAcked(c, s)
  <2>1. of[s] \in Control /\ strm[s] \notin {"hello", "found"}
    BY <1>2 DEF StreamAcked, Registered, StreamsJoined
  <2>2. phase[c] = "opening" /\ of[s] = c
    BY <1>2, <2>1 DEF StreamAcked
  <2>3. linked' = [linked EXCEPT ![c] = linked[c] \cup {s}]
    BY <1>2 DEF StreamAcked
  <2>4. /\ linked'[c] = linked[c] \cup {s}
        /\ \A d \in Control \ {c} : linked'[d] = linked[d]
    BY <2>3
  <2> QED
    BY <1>2, <2>1, <2>2, <2>4, SessionsAssumption DEF StreamAcked
<1>3. CASE OpenFails(c, s)
  BY <1>3, SessionsAssumption DEF OpenFails, Fail
<1>4. CASE PumpEnds(c, s) \/ DownDone(c, s) \/ StreamClosed(c, s)
  BY <1>4 DEF PumpEnds, DownDone, StreamClosed
<1> QED
  BY <1>1, <1>2, <1>3, <1>4 DEF PageStreamStep

\* A step of the server or of the network, the page looking on.
LEMMA ServerJoined ==
  ASSUME TypeOK, StreamsJoined, PhaseType, RunIsJoined, [Next]_vars,
         UNCHANGED pageVars,
         \A c \in Control : \A s \in Stream :
           FindSession(s, c) => opening[c] = s
  PROVE  RunIsJoined'
<1>1. UNCHANGED <<idx, phase, opening, linked>>
  BY StreamFrame, ControlFrame DEF pageVars, Next, vars, streamVars
<1>2. \A s \in Stream :
        strm[s] \notin {"hello", "found"} => strm'[s] \notin {"hello", "found"}
  BY JoinStep
<1>3. ASSUME NEW s \in Stream, NEW c \in Control, of'[s] = c
      PROVE  phase[c] # "idle"
  <2>1. CASE of'[s] = of[s]
    BY <1>3, <2>1 DEF RunIsJoined
  <2>2. ASSUME NEW d \in Control, FindSession(s, d) PROVE phase[c] # "idle"
    <3>1. opening[d] = s
      BY <2>2
    <3>2. of'[s] = d
      BY <2>2 DEF FindSession, TypeOK
    <3> QED
      BY <1>3, <3>1, <3>2 DEF RunIsJoined
  <2> QED
    BY <2>1, <2>2, JoinStep
<1>4. ASSUME NEW s \in Stream, NEW c \in Control, s \in linked[c]
      PROVE  of'[s] = c
  <2>1. of[s] = c /\ strm[s] # "hello"
    BY <1>4 DEF RunIsJoined
  <2> QED
    BY <2>1, JoinStep DEF FindSession
<1> QED
  BY <1>1, <1>2, <1>3, <1>4 DEF RunIsJoined

\* The steps of the server and of the network.
ServerStep ==
  \/ \E c \in Control : \/ ServerControlStep(c) \/ NetDropControl(c)
                        \/ \E s \in Stream : \/ ServerHello(c, s)
                                             \/ NetDropStream(c, s)
  \/ \E s \in Stream : ServerStreamStep(s)

\* The page sees none of them before a message or a close event arrives, and a
\* stream joins while the page awaits its acknowledgement.
LEMMA ServerStepFrame ==
  ASSUME TypeOK, ServerStep
  PROVE  /\ UNCHANGED pageVars
         /\ \A c \in Control : \A s \in Stream :
              FindSession(s, c) => opening[c] = s
<1>1. UNCHANGED pageVars
  BY DEF ServerStep, ServerControlStep, ServerStop, ServerFinal,
         ServerControlReturns, ServerRelease, NetDropControl, ServerHello,
         NetDropStream, ServerStreamStep, ServerDownStart, ServerDownEnd,
         ServerUpStart, ServerUpEnd, ServerUpDeadline,
         ServerStreamReturns, ServerStreamSteps
<1>2. ASSUME NEW c \in Control, NEW s \in Stream, FindSession(s, c)
      PROVE  opening[c] = s
  <2>0. strm[s] = "hello" /\ strm'[s] = "found" /\ of'[s] = c
    BY <1>2 DEF FindSession, TypeOK
  <2>1. ASSUME NEW d \in Control, NEW t \in Stream, ServerHello(d, t)
        PROVE  opening[c] = s
    <3>1. opening[d] = t
      BY <2>1 DEF ServerHello
    <3>2. CASE FindSession(t, d)
      <4>1. t = s
        BY <2>0, <3>2 DEF FindSession, TypeOK
      <4>2. of'[s] = d
        BY <3>2, <4>1 DEF FindSession, TypeOK
      <4> QED
        BY <2>0, <3>1, <4>1, <4>2
    <3>3. CASE FindNoSession(t, d)
      BY <2>0, <3>3 DEF FindNoSession, TypeOK
    <3> QED
      BY <2>1, <3>2, <3>3 DEF ServerHello
  <2>2. ASSUME NEW d \in Control, NEW t \in Stream, NetDropStream(d, t)
        PROVE  FALSE
    BY <2>0, <2>2 DEF NetDropStream, DropStream
  <2>3. ASSUME NEW d \in Control, ServerControlStep(d) \/ NetDropControl(d)
        PROVE  FALSE
    BY <2>0, <2>3
    DEF ServerControlStep, ServerStop, ServerFinal, ServerControlReturns,
        ServerRelease, NetDropControl, RequestStop, HandleFinal,
        ControlReturns, ReleaseLock, CollectStreams, ControlDone, CloseStream,
        vars, streamVars
  <2>4. ASSUME NEW t \in Stream, ServerStreamStep(t) PROVE FALSE
    BY <2>0, <2>4
    DEF ServerStreamStep, ServerDownStart, ServerDownEnd, ServerUpStart,
        ServerUpEnd, ServerUpDeadline, ServerStreamReturns,
        ServerStreamSteps, AddStream, StartDownload, EndDownload, StartUpload,
        EndUpload, StoreStats, SendResult, StreamReturns, RemoveStream,
        vars, streamVars, TypeOK
  <2> QED
    BY <2>1, <2>2, <2>3, <2>4 DEF ServerStep
<1> QED
  BY <1>1, <1>2


\* What the proofs below know besides the invariant's own parts.
Typed == TypeOK /\ PhaseType /\ FlagType /\ WireType /\ StreamsJoined

\* Every step of a run keeps who is joined.
LEMMA RunJoinedNext ==
  Typed /\ RunIsJoined /\ [RunNext]_runVars => RunIsJoined'
<1> SUFFICES ASSUME Typed, RunIsJoined, [RunNext]_runVars PROVE RunIsJoined'
  OBVIOUS
<1> USE DEF Typed
<1>1. CASE UNCHANGED runVars
  BY <1>1 DEF runVars, vars, streamVars, pageVars, RunIsJoined
<1>2. ASSUME NEW c \in Control,
             ControlAcked(c) \/ PageStep(c) \/ PressStop(c)
      PROVE  RunIsJoined'
  BY <1>2, PageJoined
<1>3. ASSUME NEW c \in Control, NEW s \in Stream, PageStreamStep(c, s)
      PROVE  RunIsJoined'
  BY <1>3, PageStreamJoined
<1>4. CASE ServerStep /\ RunNext
  BY <1>4, ServerStepFrame, ServerJoined, RunStep
<1> QED
  BY <1>1, <1>2, <1>3, <1>4 DEF RunNext, ServerStep

-----------------------------------------------------------------------------
(* What is asked for on linked streams only *)

\* The page sends to streams it has linked, and not before it has them all.
LEMMA SendStep ==
  ASSUME PhaseType, FlagType, RunIsJoined, NEW s \in Stream,
         (\E c \in Control : ControlAcked(c) \/ PageStep(c) \/ PressStop(c))
         \/ (\E c \in Control : \E t \in Stream : PageStreamStep(c, t))
  PROVE  /\ \/ wire'[s] = wire[s]
            \/ \E c \in Control : s \in linked[c] /\ linked[c] = Stream
         /\ doneMsg'[s] \in {doneMsg[s], "none"}
         /\ \A c \in Control : linked[c] \subseteq linked'[c]
<1> USE DEF PhaseType, netVars
<1>1. ASSUME NEW c \in Control, ControlAcked(c) \/ PressStop(c)
      PROVE  UNCHANGED <<wire, doneMsg, linked>>
  BY <1>1 DEF ControlAcked, PressStop
<1>2. ASSUME NEW c \in Control,
             LatencyEnds(c) \/ DownloadEnds(c) \/ UploadEnds(c)
      PROVE  /\ UNCHANGED <<doneMsg, linked>>
             /\ wire'[s] # wire[s] => s \in linked[c] /\ linked[c] = Stream
  <2>1. linked[c] = Stream
    BY <1>2 DEF LatencyEnds, DownloadEnds, UploadEnds, RunIsJoined
  <2> QED
    BY <1>2, <2>1 DEF LatencyEnds, DownloadEnds, UploadEnds, BeginDownload,
                      BeginUpload, BeginFinal, SendTo
<1>3. ASSUME NEW c \in Control, PageStep(c),
             ~LatencyEnds(c), ~DownloadEnds(c), ~UploadEnds(c)
      PROVE  UNCHANGED <<wire, doneMsg, linked>>
  BY <1>3 DEF PageStep, LatencyBegins, UploadTimesOut, Reported,
              ReportedNothing, StoredTimesOut, AbortUnwinds, ControlClosed,
              Fail
<1>4. ASSUME NEW c \in Control, NEW t \in Stream, PumpEnds(c, t)
      PROVE  /\ UNCHANGED <<doneMsg, linked>>
             /\ wire'[s] # wire[s] => s \in linked[c] /\ linked[c] = Stream
  BY <1>4 DEF PumpEnds, SendTo, RunIsJoined
<1>5. ASSUME NEW c \in Control, NEW t \in Stream, StreamAcked(c, t)
      PROVE  /\ UNCHANGED <<wire, doneMsg>>
             /\ \A d \in Control : linked[d] \subseteq linked'[d]
  BY <1>5 DEF StreamAcked
<1>6. ASSUME NEW c \in Control, NEW t \in Stream, DownDone(c, t)
      PROVE  /\ UNCHANGED <<wire, linked>>
             /\ doneMsg'[s] \in {doneMsg[s], "none"}
  BY <1>6 DEF DownDone, FlagType
<1>7. ASSUME NEW c \in Control, NEW t \in Stream,
             OpenStream(c, t) \/ OpenFails(c, t) \/ StreamClosed(c, t)
      PROVE  UNCHANGED <<wire, doneMsg, linked>>
  BY <1>7 DEF OpenStream, OpenFails, StreamClosed, Fail
<1> QED
  BY <1>1, <1>2, <1>3, <1>4, <1>5, <1>6, <1>7 DEF PageStreamStep

\* The server only takes messages off, or the network loses them; a goroutine
\* enters a phase on a message, and DOWN_DONE is what a download leaves behind.
LEMMA TakeStep ==
  ASSUME TypeOK, WireType, FlagType, NEW s \in Stream, ServerStep
  PROVE  /\ wire'[s] # <<>> => wire[s] # <<>>
         /\ strm'[s] \in Loading => strm[s] \in Loading \/ wire[s] # <<>>
         /\ doneMsg'[s] # doneMsg[s] => strm[s] = "downloading"
<1> USE DEF Loading, netVars
<1>1. ASSUME NEW c \in Control, ServerControlStep(c) \/ NetDropControl(c)
      PROVE  UNCHANGED <<wire, strm, doneMsg>>
  BY <1>1
  DEF ServerControlStep, ServerStop, ServerFinal, ServerControlReturns,
      ServerRelease, NetDropControl, RequestStop, HandleFinal, ControlReturns,
      ReleaseLock, CollectStreams, ControlDone, CloseStream, vars, streamVars
<1>2. ASSUME NEW c \in Control, NEW t \in Stream,
             ServerHello(c, t) \/ NetDropStream(c, t)
      PROVE  /\ wire'[s] \in {wire[s], <<>>}
             /\ strm'[s] \in Loading => strm[s] \in Loading
             /\ UNCHANGED doneMsg
  <2>1. CASE ServerHello(c, t)
    BY <2>1 DEF ServerHello, FindSession, FindNoSession, TypeOK
  <2>2. CASE NetDropStream(c, t)
    BY <2>2 DEF NetDropStream, DropStream, WireType
  <2> QED
    BY <1>2, <2>1, <2>2
<1>3. ASSUME NEW t \in Stream, ServerDownStart(t) \/ ServerUpStart(t)
      PROVE  /\ wire[t] # <<>>
             /\ s # t => wire'[s] = wire[s] /\ strm'[s] = strm[s]
             /\ UNCHANGED doneMsg
  BY <1>3
  DEF ServerDownStart, ServerUpStart, Reads, Heads, Consume, WireType,
      StartDownload, StartUpload, TypeOK, vars, streamVars
<1>4. ASSUME NEW t \in Stream, ServerDownEnd(t)
      PROVE  /\ UNCHANGED wire
             /\ strm[t] = "downloading"
             /\ strm'[s] \in Loading => strm[s] \in Loading
             /\ s # t => doneMsg'[s] = doneMsg[s]
  BY <1>4 DEF ServerDownEnd, EndDownload, TypeOK, FlagType
<1>5. ASSUME NEW t \in Stream, ServerUpEnd(t) \/ ServerUpDeadline(t)
      PROVE  /\ wire'[s] # <<>> => wire[s] # <<>>
             /\ strm'[s] \in Loading => strm[s] \in Loading
             /\ UNCHANGED doneMsg
  <2>1. strm'[s] \in Loading => strm[s] \in Loading
    BY <1>5 DEF ServerUpEnd, ServerUpDeadline, EndUpload, TypeOK
  <2>2. wire'[s] # <<>> => wire[s] # <<>>
    BY <1>5
    DEF ServerUpEnd, ServerUpDeadline, Reads, Heads, Consume, WireType
  <2> QED
    BY <1>5, <2>1, <2>2 DEF ServerUpEnd, ServerUpDeadline
<1>6. ASSUME NEW t \in Stream,
             ServerStreamReturns(t) \/ ServerStreamSteps(t)
      PROVE  /\ UNCHANGED <<wire, doneMsg>>
             /\ strm'[s] \in Loading => strm[s] \in Loading
  BY <1>6
  DEF ServerStreamReturns, ServerStreamSteps, StreamReturns, AddStream,
      StoreStats, SendResult, RemoveStream, TypeOK
<1> QED
  BY <1>1, <1>2, <1>3, <1>4, <1>5, <1>6 DEF ServerStep, ServerStreamStep

\* The page touches no goroutine of the server.
LEMMA PageFrame ==
  ASSUME \/ \E c \in Control : PageStep(c) \/ PressStop(c)
         \/ \E c \in Control : \E s \in Stream : PageStreamStep(c, s)
  PROVE  UNCHANGED vars
<1>1. CASE \E c \in Control : PageStep(c)
  BY <1>1 DEF PageStep, LatencyBegins, LatencyEnds, DownloadEnds, UploadEnds,
              UploadTimesOut, Reported, ReportedNothing, StoredTimesOut,
              AbortUnwinds, ControlClosed
<1>2. CASE \E c \in Control : PressStop(c)
  BY <1>2 DEF PressStop
<1>3. CASE \E c \in Control : \E s \in Stream : PageStreamStep(c, s)
  BY <1>3 DEF PageStreamStep, OpenStream, StreamAcked, OpenFails, PumpEnds,
              DownDone, StreamClosed
<1> QED
  BY <1>1, <1>2, <1>3

\* A step of a run is the start of it, a page's step, or the server's.
LEMMA RunCases ==
  ASSUME RunNext
  PROVE  \/ \E c \in Control : ControlAcked(c)
         \/ \E c \in Control : PageStep(c) \/ PressStop(c)
         \/ \E c \in Control : \E s \in Stream : PageStreamStep(c, s)
         \/ ServerStep
  BY DEF RunNext, ServerStep

\* Every step keeps loads on linked streams.
LEMMA LoadNext ==
  Typed /\ RunIsJoined /\ LoadIsLinked /\ [RunNext]_runVars => LoadIsLinked'
<1> SUFFICES ASSUME Typed, RunIsJoined, LoadIsLinked, [RunNext]_runVars,
                    NEW s \in Stream
             PROVE  /\ wire'[s] # <<>> => \E c \in Control : s \in linked'[c]
                    /\ strm'[s] = "hello" => doneMsg'[s] = "none"
                    /\ \A c \in Control :
                         of'[s] = c /\ (wire'[s] # <<>> \/ strm'[s] \in Loading)
                           => linked'[c] = Stream
  BY DEF LoadIsLinked
<1> USE DEF Typed
<1>1. CASE UNCHANGED runVars
  BY <1>1 DEF runVars, vars, streamVars, pageVars, netVars, LoadIsLinked
<1>2. CASE RunNext
  <2>1. /\ wire'[s] # <<>> =>
             \/ wire[s] # <<>>
             \/ \E c \in Control : s \in linked[c] /\ linked[c] = Stream
        /\ strm'[s] \in Loading => strm[s] \in Loading \/ wire[s] # <<>>
        /\ doneMsg'[s] \in {doneMsg[s], "none"} \/ strm[s] = "downloading"
        /\ \A c \in Control : linked[c] \subseteq linked'[c]
    <3>1. CASE ServerStep
      <4>1. UNCHANGED linked
        BY <3>1, ServerStepFrame DEF pageVars
      <4> QED
        BY <3>1, <4>1, TakeStep
    <3>2. ASSUME NEW c \in Control, ControlAcked(c) PROVE strm' = strm
      BY <3>2 DEF ControlAcked, Claim, streamVars
    <3>3. CASE ~ServerStep
      <4>1. strm' = strm
        BY <1>2, <3>2, <3>3, RunCases, PageFrame DEF vars, streamVars
      <4> QED
        BY <1>2, <3>3, <4>1, RunCases, SendStep
    <3> QED
      BY <3>1, <3>3
  <2>2. /\ strm'[s] = "hello" => strm[s] = "hello"
        /\ of'[s] = of[s] \/ strm[s] = "hello"
    BY <1>2, RunStep, JoinStep DEF FindSession
  <2>3. \A c \in Control : linked'[c] \subseteq Stream
    <3>1. TestRunTypeOK
      BY TypeParts
    <3>2. TestRunTypeOK'
      BY <3>1, RunTypeNext
    <3> QED
      BY <3>2 DEF TestRunTypeOK
  <2>4. strm[s] = "hello" => /\ wire[s] = <<>>
                            /\ \A c \in Control : s \notin linked[c]
    BY DEF LoadIsLinked, RunIsJoined
  <2>5. wire'[s] # <<>> => \E c \in Control : s \in linked'[c]
    BY <2>1 DEF LoadIsLinked
  <2>6. strm'[s] = "hello" => doneMsg'[s] = "none"
    BY <2>1, <2>2 DEF LoadIsLinked
  <2>7. ASSUME NEW c \in Control, of'[s] = c,
               wire'[s] # <<>> \/ strm'[s] \in Loading
        PROVE  linked[c] = Stream
    <3>1. CASE wire[s] # <<>> \/ strm[s] \in Loading
      <4>1. strm[s] # "hello"
        BY <2>4, <3>1 DEF Loading
      <4> QED
        BY <2>2, <2>7, <3>1, <4>1 DEF LoadIsLinked
    <3>2. ASSUME NEW d \in Control, s \in linked[d], linked[d] = Stream
          PROVE  linked[c] = Stream
      <4>1. of[s] = d /\ strm[s] # "hello"
        BY <3>2, <2>4 DEF RunIsJoined
      <4> QED
        BY <2>2, <2>7, <3>2, <4>1
    <3> QED
      BY <2>1, <2>7, <3>1, <3>2
  <2> QED
    BY <2>1, <2>3, <2>5, <2>6, <2>7
<1> QED
  BY <1>1, <1>2

-----------------------------------------------------------------------------
(* Rows, close events and FINAL *)

\* A stream leaves a row or a byte total under its own index only, and gets its
\* session once.
LEMMA RowsNext ==
  TypeOK /\ StreamsJoined /\ RunIsJoined /\ RowsAreOwn /\ [Next]_vars
    => RowsAreOwn'
<1> SUFFICES ASSUME TypeOK, StreamsJoined, RunIsJoined, RowsAreOwn,
                    [Next]_vars, NEW c \in Control, NEW s \in Stream,
                    idx'[s] \in dlResults'[c] \cup upTotal'[c]
             PROVE  of'[s] = c
  BY DEF RowsAreOwn
<1>1. idx' = idx
  BY JoinStep
<1>2. of[s] = c => of'[s] = c
  <2>1. of[s] = c => strm[s] # "hello"
    BY SessionsAssumption DEF StreamsJoined
  <2> QED
    BY <2>1, JoinStep DEF FindSession
<1>3. ASSUME NEW t \in Stream, EndDownload(t) \/ EndUpload(t) PROVE of'[s] = c
  <2>1. /\ dlResults'[c] \cup upTotal'[c] \subseteq
             dlResults[c] \cup upTotal[c] \cup {idx[t]}
        /\ of[t] # c => dlResults'[c] \cup upTotal'[c] \subseteq
                          dlResults[c] \cup upTotal[c]
    <3>1. CASE EndDownload(t)
      <4>1. /\ dlResults' = [dlResults EXCEPT ![of[t]] =
                               dlResults[of[t]] \cup {idx[t]}]
            /\ UNCHANGED upTotal
        BY <3>1 DEF EndDownload, upVars
      <4> QED
        BY <4>1 DEF TypeOK
    <3>2. CASE EndUpload(t)
      <4>1. /\ upTotal' = [upTotal EXCEPT ![of[t]] =
                             upTotal[of[t]] \cup {idx[t]}]
            /\ UNCHANGED dlResults
        BY <3>2 DEF EndUpload, downVars
      <4> QED
        BY <4>1 DEF TypeOK
    <3> QED
      BY <1>3, <3>1, <3>2
  <2>2. idx[s] = idx[t] => s = t
    BY DEF RunIsJoined
  <2> QED
    BY <1>1, <1>2, <2>1, <2>2 DEF RowsAreOwn
<1>4. CASE \A t \in Stream : ~EndDownload(t) /\ ~EndUpload(t)
  <2>1. ASSUME NEW t \in Stream, StreamNext(t)
        PROVE  UNCHANGED <<dlResults, upTotal>>
    BY <1>4, <2>1
    DEF StreamNext, FindSession, FindNoSession, AddStream, StartDownload,
        StartUpload, StoreStats, SendResult, StreamReturns, RemoveStream,
        DropStream, downVars, upVars
  <2>2. ASSUME NEW d \in Control, ControlNext(d)
        PROVE  UNCHANGED <<dlResults, upTotal>>
    BY <2>2, ControlFrame DEF downVars, upVars
  <2>3. UNCHANGED <<dlResults, upTotal>>
    BY <2>1, <2>2 DEF Next, vars, downVars, upVars
  <2> QED
    BY <1>1, <1>2, <2>3 DEF RowsAreOwn
<1> QED
  BY <1>3, <1>4

\* A connection that has been closed stays closed.
LEMMA OpenStep ==
  ASSUME TypeOK, [Next]_vars, NEW s \in Stream
  PROVE  open'[s] => open[s]
<1>1. ASSUME NEW c \in Control, ControlNext(c) PROVE open'[s] => open[s]
  BY <1>1
  DEF ControlNext, Claim, Refuse, Vanish, RequestStop, HandleFinal,
      ControlReturns, ReleaseLock, CollectStreams, CloseStream, ControlDone,
      streamVars, TypeOK
<1>2. ASSUME NEW t \in Stream, StreamNext(t) PROVE open'[s] => open[s]
  BY <1>2
  DEF StreamNext, FindSession, FindNoSession, AddStream, StartDownload,
      EndDownload, StartUpload, EndUpload, StoreStats, SendResult,
      StreamReturns, RemoveStream, DropStream, TypeOK
<1> QED
  BY <1>1, <1>2 DEF Next, vars, streamVars

\* The page has a close event of a closed connection only.
LEMMA ClosedNext ==
  Typed /\ ClosedIsClosed /\ [RunNext]_runVars => ClosedIsClosed'
<1> SUFFICES ASSUME Typed, ClosedIsClosed, [RunNext]_runVars,
                    NEW s \in Stream, closedSeen'[s]
             PROVE  ~open'[s]
  BY DEF ClosedIsClosed
<1>1. open'[s] => open[s]
  BY RunStep, OpenStep DEF Typed, runVars
<1>2. closedSeen[s] \/ ~open[s]
  <2>1. CASE UNCHANGED runVars
    BY <2>1 DEF runVars, pageVars
  <2>2. CASE ServerStep
    BY <2>2, ServerStepFrame DEF Typed, pageVars
  <2>3. ASSUME NEW c \in Control, ControlAcked(c) PROVE closedSeen' = closedSeen
    BY <2>3 DEF ControlAcked
  <2>4. ASSUME NEW c \in Control, PageStep(c) \/ PressStop(c)
        PROVE  closedSeen' = closedSeen
    BY <2>4
    DEF PageStep, LatencyBegins, LatencyEnds, DownloadEnds, UploadEnds,
        UploadTimesOut, Reported, ReportedNothing, StoredTimesOut,
        AbortUnwinds, ControlClosed, PressStop, BeginDownload, BeginUpload,
        BeginFinal, Fail
  <2>5. ASSUME NEW c \in Control, NEW t \in Stream, PageStreamStep(c, t)
        PROVE  closedSeen'[s] = closedSeen[s] \/ ~open[s]
    BY <2>5
    DEF PageStreamStep, OpenStream, StreamAcked, OpenFails, PumpEnds, DownDone,
        StreamClosed, Fail, Typed, FlagType
  <2> QED
    BY <2>1, <2>2, <2>3, <2>4, <2>5, RunCases
<1> QED
  BY <1>1, <1>2 DEF ClosedIsClosed

\* What a step can do to the messages on a control connection.
LEMMA ControlWireStep ==
  ASSUME Typed, RunNext, NEW c \in Control
  PROVE  \/ controlWire'[c] \in {controlWire[c], <<>>}
         \/ controlWire[c] # <<>> /\ controlWire'[c] = Tail(controlWire[c])
         \/ controlWire'[c] = Append(controlWire[c], "STOP")
         \/ /\ controlWire'[c] = Append(controlWire[c], "FINAL")
            /\ phase[c] \in {"download", "upload"} /\ phase'[c] = "final"
            /\ c \in Uploads => result[c] # NoFigures
<1> USE DEF Typed, WireType, SendControl, netVars
<1>1. ASSUME NEW d \in Control, ControlAcked(d) \/ LatencyBegins(d)
             \/ Reported(d) \/ ReportedNothing(d) \/ ControlClosed(d)
      PROVE  UNCHANGED controlWire
  BY <1>1
  DEF ControlAcked, LatencyBegins, Reported, ReportedNothing, ControlClosed
<1>2. ASSUME NEW d \in Control,
             UploadTimesOut(d) \/ StoredTimesOut(d) \/ AbortUnwinds(d)
      PROVE  UNCHANGED controlWire
  BY <1>2 DEF UploadTimesOut, StoredTimesOut, AbortUnwinds, Fail
<1>3. ASSUME NEW d \in Control, LatencyEnds(d)
      PROVE  UNCHANGED controlWire
  BY <1>3 DEF LatencyEnds, BeginDownload, BeginUpload
<1>4. ASSUME NEW d \in Control, DownloadEnds(d) \/ UploadEnds(d)
      PROVE  \/ controlWire'[c] = controlWire[c]
             \/ /\ controlWire'[c] = Append(controlWire[c], "FINAL")
                /\ phase[c] \in {"download", "upload"} /\ phase'[c] = "final"
                /\ c \in Uploads => result[c] # NoFigures
  BY <1>4
  DEF DownloadEnds, UploadEnds, BeginUpload, BeginFinal, PhaseType
<1>5. ASSUME NEW d \in Control, PressStop(d)
      PROVE  \/ controlWire'[c] = controlWire[c]
             \/ controlWire'[c] = Append(controlWire[c], "STOP")
  BY <1>5 DEF PressStop
<1>6. ASSUME NEW d \in Control, NEW s \in Stream, PageStreamStep(d, s)
      PROVE  UNCHANGED controlWire
  BY <1>6
  DEF PageStreamStep, OpenStream, StreamAcked, OpenFails, PumpEnds, DownDone,
      StreamClosed, Fail
<1>7. ASSUME NEW d \in Control, ServerStop(d) \/ ServerFinal(d)
      PROVE  \/ controlWire'[c] = controlWire[c]
             \/ controlWire[c] # <<>> /\ controlWire'[c] = Tail(controlWire[c])
  BY <1>7 DEF ServerStop, ServerFinal, ConsumeControl, Heads
<1>8. ASSUME NEW d \in Control, NetDropControl(d)
      PROVE  controlWire'[c] \in {controlWire[c], <<>>}
  BY <1>8 DEF NetDropControl
<1>9. ASSUME NEW d \in Control, ServerControlReturns(d) \/ ServerRelease(d)
      PROVE  UNCHANGED controlWire
  BY <1>9 DEF ServerControlReturns, ServerRelease
<1>10. ASSUME NEW d \in Control, NEW s \in Stream,
              ServerHello(d, s) \/ NetDropStream(d, s) \/ ServerStreamStep(s)
       PROVE  UNCHANGED controlWire
  BY <1>10
  DEF ServerHello, NetDropStream, ServerStreamStep, ServerDownStart,
      ServerDownEnd, ServerUpStart, ServerUpEnd, ServerUpDeadline,
      ServerStreamReturns, ServerStreamSteps
<1>11. ASSUME NEW s \in Stream, ServerStreamStep(s)
       PROVE  UNCHANGED controlWire
  BY <1>10, <1>11
<1> QED
  BY <1>1, <1>2, <1>3, <1>4, <1>5, <1>6, <1>7, <1>8, <1>9, <1>10, <1>11
  DEF RunNext, PageStep, ServerControlStep

\* The stored run changes when FINAL is taken off the connection.
LEMMA StoredStep ==
  ASSUME Typed, RunNext, NEW c \in Control, stored'[c] # stored[c]
  PROVE  /\ Heads(controlWire[c], "FINAL")
         /\ controlWire'[c] = Tail(controlWire[c])
         /\ phase' = phase
<1> USE DEF Typed, TypeOK, WireType, pageVars, reportVars
<1>1. ASSUME NEW d \in Control, ServerFinal(d)
      PROVE  /\ Heads(controlWire[c], "FINAL")
             /\ controlWire'[c] = Tail(controlWire[c])
             /\ phase' = phase
  BY <1>1 DEF ServerFinal, HandleFinal, ConsumeControl
<1>2. ASSUME NEW d \in Control, ControlAcked(d) PROVE stored' = stored
  BY <1>2 DEF ControlAcked, Claim
<1>3. ASSUME NEW d \in Control,
             \/ ServerStop(d) \/ ServerControlReturns(d) \/ ServerRelease(d)
             \/ NetDropControl(d)
      PROVE  stored' = stored
  BY <1>3
  DEF ServerStop, ServerControlReturns, ServerRelease, NetDropControl,
      RequestStop, ControlReturns, ReleaseLock, CollectStreams, ControlDone,
      CloseStream, vars
<1>4. ASSUME NEW d \in Control, NEW s \in Stream,
             ServerHello(d, s) \/ NetDropStream(d, s)
      PROVE  stored' = stored
  BY <1>4
  DEF ServerHello, NetDropStream, FindSession, FindNoSession, DropStream
<1>5. ASSUME NEW s \in Stream, ServerStreamStep(s) PROVE stored' = stored
  BY <1>5
  DEF ServerStreamStep, ServerDownStart, ServerDownEnd, ServerUpStart,
      ServerUpEnd, ServerUpDeadline, ServerStreamReturns, ServerStreamSteps,
      AddStream, StartDownload, EndDownload, StartUpload, EndUpload,
      StoreStats, SendResult, StreamReturns, RemoveStream
<1>6. CASE UNCHANGED vars
  BY <1>6 DEF vars
<1> QED
  BY <1>1, <1>2, <1>3, <1>4, <1>5, <1>6, RunCases, PageFrame
  DEF ServerStep, ServerControlStep

\* Where startTest goes from where it is.
LEMMA PhaseStep ==
  ASSUME Typed, RunIsJoined, RunNext, NEW c \in Control
  PROVE  \/ phase'[c] = phase[c]
         \/ phase'[c] = "failed"
         \/ /\ phase[c] \in {"idle", "opening", "latency"}
            /\ phase'[c] \in {"opening", "latency"}
         \/ /\ phase[c] = "latency" /\ phase'[c] = "download"
            /\ \A s \in Stream : downWait'[s]
         \/ /\ phase[c] = "latency" /\ phase'[c] = "upload"
            /\ c \notin Downloads
         \/ /\ phase[c] = "download" /\ phase'[c] \in {"upload", "final"}
            /\ ~aborted[c] /\ \A s \in Stream : ~downWait[s]
         \/ phase[c] = "upload" /\ phase'[c] = "final"
         \/ phase[c] = "final" /\ phase'[c] = "done"
<1> USE DEF Typed, PhaseType
<1>1. CASE ServerStep
  BY <1>1, ServerStepFrame DEF pageVars
<1>2. ASSUME NEW d \in Control, ControlAcked(d) \/ LatencyBegins(d)
      PROVE  \/ phase'[c] = phase[c]
             \/ /\ phase[c] \in {"idle", "opening", "latency"}
                /\ phase'[c] \in {"opening", "latency"}
  BY <1>2 DEF ControlAcked, LatencyBegins
<1>3. ASSUME NEW d \in Control, LatencyEnds(d)
      PROVE  \/ phase'[c] = phase[c]
             \/ /\ phase[c] = "latency" /\ phase'[c] = "download"
                /\ \A s \in Stream : downWait'[s]
             \/ /\ phase[c] = "latency" /\ phase'[c] = "upload"
                /\ c \notin Downloads
  <2>1. linked[d] = Stream /\ phase[d] = "latency"
    BY <1>3 DEF LatencyEnds, RunIsJoined
  <2>2. CASE d \in Downloads
    <3>1. BeginDownload(d)
      BY <1>3, <2>2 DEF LatencyEnds
    <3>2. phase' = [phase EXCEPT ![d] = "download"]
      BY <3>1 DEF BeginDownload
    <3>3. \A s \in Stream : downWait'[s]
      BY <2>1, <3>1 DEF BeginDownload
    <3> QED
      BY <2>1, <3>2, <3>3
  <2>3. CASE d \notin Downloads
    BY <1>3, <2>1, <2>3 DEF LatencyEnds, BeginUpload
  <2> QED
    BY <2>2, <2>3
<1>4. ASSUME NEW d \in Control, DownloadEnds(d)
      PROVE  \/ phase'[c] = phase[c]
             \/ /\ phase[c] = "download" /\ phase'[c] \in {"upload", "final"}
                /\ ~aborted[c] /\ \A s \in Stream : ~downWait[s]
  BY <1>4 DEF DownloadEnds, BeginUpload, BeginFinal, RunIsJoined
<1>5. ASSUME NEW d \in Control, UploadEnds(d)
      PROVE  \/ phase'[c] = phase[c]
             \/ phase[c] = "upload" /\ phase'[c] = "final"
  BY <1>5 DEF UploadEnds, BeginFinal
<1>6. ASSUME NEW d \in Control, Reported(d) \/ ReportedNothing(d)
      PROVE  \/ phase'[c] = phase[c]
             \/ phase[c] = "final" /\ phase'[c] = "done"
  BY <1>6 DEF Reported, ReportedNothing
<1>7. ASSUME NEW d \in Control,
             \/ UploadTimesOut(d) \/ StoredTimesOut(d) \/ AbortUnwinds(d)
             \/ ControlClosed(d) \/ PressStop(d)
      PROVE  phase'[c] \in {phase[c], "failed"}
  BY <1>7
  DEF UploadTimesOut, StoredTimesOut, AbortUnwinds, ControlClosed, PressStop,
      Fail
<1>8. ASSUME NEW d \in Control, NEW s \in Stream, PageStreamStep(d, s)
      PROVE  phase'[c] \in {phase[c], "failed"}
  BY <1>8
  DEF PageStreamStep, OpenStream, StreamAcked, OpenFails, PumpEnds, DownDone,
      StreamClosed, Fail
<1> QED
  BY <1>1, <1>2, <1>3, <1>4, <1>5, <1>6, <1>7, <1>8, RunCases DEF PageStep

\* A position of FINAL in a queue of messages once its head is taken off.
LEMMA TailFinal ==
  ASSUME NEW q \in Seq(ControlMessage), q # <<>>,
         NEW i \in DOMAIN Tail(q), Tail(q)[i] = "FINAL"
  PROVE  i \in Nat /\ i >= 1 /\ i + 1 \in DOMAIN q /\ q[i + 1] = "FINAL"
<1>1. i \in 1 .. Len(q) - 1 /\ Tail(q)[i] = q[i + 1]
  OBVIOUS
<1> QED
  BY <1>1

\* FINAL stays behind RESULT and ahead of the stored run.
LEMMA FinalNext ==
  Typed /\ FiguresInv /\ RunIsJoined /\ FinalIsOnce /\ [RunNext]_runVars
    => FinalIsOnce'
<1> SUFFICES ASSUME Typed, FiguresInv, RunIsJoined, FinalIsOnce,
                    [RunNext]_runVars, NEW c \in Control
             PROVE  /\ \A i, j \in FinalSent(c)' : i = j
                    /\ FinalSent(c)' # {} =>
                         /\ stored'[c] = NoFigures
                         /\ c \in Uploads => result'[c] # NoFigures
                    /\ phase'[c] \notin {"final", "done", "failed"} =>
                         FinalSent(c)' = {} /\ stored'[c] = NoFigures
  BY DEF FinalIsOnce
<1> DEFINE q == controlWire[c]
<1>0. q \in Seq(ControlMessage)
  BY DEF Typed, WireType
<1>1. CASE UNCHANGED runVars
  BY <1>1
  DEF runVars, vars, reportVars, pageVars, netVars, FinalIsOnce, FinalSent
<1>2. CASE RunNext /\ stored'[c] # stored[c]
  <2>1. /\ q # <<>> /\ Head(q) = "FINAL"
        /\ controlWire'[c] = Tail(q) /\ phase' = phase
    BY <1>2, StoredStep DEF Heads
  <2>2. 1 \in FinalSent(c)
    BY <1>0, <2>1 DEF FinalSent
  <2>3. FinalSent(c)' = {}
    <3> SUFFICES ASSUME NEW i \in FinalSent(c)' PROVE FALSE
      OBVIOUS
    <3>1. i \in DOMAIN Tail(q) /\ Tail(q)[i] = "FINAL"
      BY <2>1 DEF FinalSent
    <3>2. i \in Nat /\ i >= 1 /\ i + 1 \in FinalSent(c)
      BY <1>0, <2>1, <3>1, TailFinal DEF FinalSent
    <3>3. i + 1 = 1
      BY <2>2, <3>2 DEF FinalIsOnce
    <3> QED
      BY <3>2, <3>3
  <2>4. phase'[c] \in {"final", "done", "failed"}
    BY <2>1, <2>2 DEF FinalIsOnce
  <2> QED
    BY <2>3, <2>4
<1>3. CASE RunNext /\ stored'[c] = stored[c]
  <2>1. result[c] # NoFigures => result'[c] # NoFigures
    BY <1>3, RunStep, DecidedStep DEF Typed, vars, reportVars
  <2>2. phase[c] \in {"final", "done", "failed"}
          => phase'[c] \in {"final", "done", "failed"}
    BY <1>3, PhaseStep
  <2>3. CASE controlWire'[c] = q
    BY <1>3, <2>1, <2>2, <2>3 DEF FinalSent, FinalIsOnce
  <2>4. CASE controlWire'[c] = <<>>
    <3>1. FinalSent(c)' = {}
      BY <2>4 DEF FinalSent
    <3> QED
      BY <1>3, <2>2, <3>1 DEF FinalIsOnce
  <2>5. CASE q # <<>> /\ controlWire'[c] = Tail(q)
    <3>1. \A i \in FinalSent(c)' : i \in Nat /\ i + 1 \in FinalSent(c)
      BY <1>0, <2>5, TailFinal DEF FinalSent
    <3>2. FinalSent(c)' # {} => FinalSent(c) # {}
      BY <3>1
    <3>3. ASSUME NEW i \in FinalSent(c)', NEW j \in FinalSent(c)' PROVE i = j
      <4>1. i + 1 = j + 1
        BY <3>1, <3>3 DEF FinalIsOnce
      <4> QED
        BY <3>1, <3>3, <4>1
    <3> QED
      BY <1>3, <2>1, <2>2, <3>2, <3>3 DEF FinalIsOnce
  <2>6. CASE controlWire'[c] = Append(q, "STOP")
    <3>1. FinalSent(c)' = FinalSent(c)
      <4>1. \A i \in DOMAIN Append(q, "STOP") :
              Append(q, "STOP")[i] = "FINAL"
                <=> (i \in DOMAIN q /\ q[i] = "FINAL")
        BY <1>0
      <4>2. DOMAIN q \subseteq DOMAIN Append(q, "STOP")
        BY <1>0
      <4> HIDE DEF q
      <4>3. FinalSent(c)' = {i \in DOMAIN Append(q, "STOP") :
                               Append(q, "STOP")[i] = "FINAL"}
        BY <2>6 DEF FinalSent
      <4>4. FinalSent(c) = {i \in DOMAIN q : q[i] = "FINAL"}
        BY DEF FinalSent, q
      <4> QED
        BY <4>1, <4>2, <4>3, <4>4
    <3> QED
      BY <1>3, <2>1, <2>2, <3>1 DEF FinalIsOnce
  <2>7. CASE /\ controlWire'[c] = Append(q, "FINAL")
             /\ phase[c] \in {"download", "upload"} /\ phase'[c] = "final"
             /\ c \in Uploads => result[c] # NoFigures
    <3>1. FinalSent(c) = {} /\ stored[c] = NoFigures
      BY <2>7 DEF FinalIsOnce
    <3>2. \A i \in DOMAIN Append(q, "FINAL") :
            i = Len(q) + 1 \/ (i \in DOMAIN q /\ Append(q, "FINAL")[i] = q[i])
      BY <1>0
    <3>3. \A i \in FinalSent(c)' : i = Len(q) + 1
      BY <2>7, <3>1, <3>2 DEF FinalSent
    <3> QED
      BY <1>3, <2>1, <2>7, <3>1, <3>3
  <2> QED
    BY <1>3, <2>3, <2>4, <2>5, <2>6, <2>7, ControlWireStep
<1> QED
  BY <1>1, <1>2, <1>3

\* What a step can do to what the page shows.
LEMMA ShownStep ==
  ASSUME Typed, RunIsJoined, RunNext, NEW c \in Control
  PROVE  /\ aborted[c] => aborted'[c]
         /\ \/ /\ shown'[c] = shown[c]
               /\ phase'[c] = "done" => phase[c] = "done" \/ aborted[c]
               /\ phase[c] = "done" => phase'[c] = "done"
            \/ /\ shown'[c] = stored[c] /\ stored[c] # NoFigures
               /\ phase'[c] = "done" /\ stored' = stored
<1> USE DEF Typed, PhaseType
<1>1. CASE ServerStep
  BY <1>1, ServerStepFrame DEF pageVars
<1>2. ASSUME NEW d \in Control, ControlAcked(d) \/ LatencyBegins(d)
      PROVE  /\ UNCHANGED <<aborted, shown>>
             /\ phase'[c] = "done" <=> phase[c] = "done"
  BY <1>2 DEF ControlAcked, LatencyBegins
<1>3. ASSUME NEW d \in Control, LatencyEnds(d) \/ DownloadEnds(d)
             \/ UploadEnds(d)
      PROVE  /\ UNCHANGED <<aborted, shown>>
             /\ phase'[c] = "done" <=> phase[c] = "done"
  BY <1>3
  DEF LatencyEnds, DownloadEnds, UploadEnds, BeginDownload, BeginUpload,
      BeginFinal
<1>4. ASSUME NEW d \in Control,
             UploadTimesOut(d) \/ StoredTimesOut(d) \/ AbortUnwinds(d)
      PROVE  /\ UNCHANGED <<aborted, shown>>
             /\ phase'[c] = "done" <=> phase[c] = "done"
  BY <1>4 DEF UploadTimesOut, StoredTimesOut, AbortUnwinds, Fail
<1>5. ASSUME NEW d \in Control, Reported(d)
      PROVE  /\ UNCHANGED <<aborted, stored>>
             /\ \/ UNCHANGED <<shown[c], phase[c]>>
                \/ /\ shown'[c] = stored[c] /\ stored[c] # NoFigures
                   /\ phase'[c] = "done"
  BY <1>5 DEF Reported, vars, reportVars
<1>6. ASSUME NEW d \in Control, ReportedNothing(d)
      PROVE  /\ UNCHANGED <<aborted, shown>>
             /\ phase'[c] = "done" => phase[c] = "done" \/ aborted[c]
             /\ phase[c] = "done" => phase'[c] = "done"
  BY <1>6 DEF ReportedNothing
<1>7. ASSUME NEW d \in Control, ControlClosed(d) \/ PressStop(d)
      PROVE  /\ aborted[c] => aborted'[c]
             /\ UNCHANGED <<shown, phase>>
  BY <1>7 DEF ControlClosed, PressStop
<1>8. ASSUME NEW d \in Control, NEW s \in Stream,
             PageStreamStep(d, s), ~OpenFails(d, s)
      PROVE  UNCHANGED <<aborted, shown, phase>>
  BY <1>8
  DEF PageStreamStep, OpenStream, StreamAcked, PumpEnds, DownDone,
      StreamClosed
<1>9. ASSUME NEW d \in Control, NEW s \in Stream, OpenFails(d, s)
      PROVE  /\ UNCHANGED <<aborted, shown>>
             /\ phase'[c] = "done" <=> phase[c] = "done"
  <2>1. phase[d] = "opening"
    BY <1>9 DEF OpenFails, RunIsJoined
  <2>2. UNCHANGED <<aborted, shown>>
    BY <1>9 DEF OpenFails, Fail, netVars
  <2>3. phase' = [phase EXCEPT ![d] = "failed"]
    BY <1>9 DEF OpenFails, Fail
  <2> QED
    BY <2>1, <2>2, <2>3
<1> QED
  BY <1>1, <1>2, <1>3, <1>4, <1>5, <1>6, <1>7, <1>8, <1>9, RunCases
  DEF PageStep

\* What is shown stays what is stored.
LEMMA ShownNext ==
  Typed /\ RunIsJoined /\ FinalIsOnce /\ ShownIsStored /\ [RunNext]_runVars
    => ShownIsStored'
<1> SUFFICES ASSUME Typed, RunIsJoined, FinalIsOnce, ShownIsStored,
                    [RunNext]_runVars, NEW c \in Control
             PROVE  /\ phase'[c] # "done" => shown'[c] = NoFigures
                    /\ phase'[c] = "done" /\ shown'[c] = NoFigures
                         => aborted'[c]
                    /\ shown'[c] # NoFigures => shown'[c] = stored'[c]
  BY DEF ShownIsStored
<1>1. CASE UNCHANGED runVars
  BY <1>1 DEF runVars, vars, reportVars, pageVars, ShownIsStored
<1>2. CASE RunNext
  <2>1. stored[c] # NoFigures => stored'[c] = stored[c]
    <3> SUFFICES ASSUME stored'[c] # stored[c] PROVE stored[c] = NoFigures
      OBVIOUS
    <3>1. Heads(controlWire[c], "FINAL")
      BY <1>2, StoredStep
    <3>2. 1 \in FinalSent(c)
      BY <3>1 DEF FinalSent, Heads, Typed, WireType
    <3> QED
      BY <3>2 DEF FinalIsOnce
  <2> QED
    BY <1>2, <2>1, ShownStep DEF ShownIsStored
<1> QED
  BY <1>1, <1>2

\* What a step can do to the wait for a download, and to what ends it.
LEMMA WaitStep ==
  ASSUME Typed, RunNext, NEW s \in Stream
  PROVE  /\ closedSeen[s] => closedSeen'[s]
         /\ doneMsg'[s] = "sent" => doneMsg[s] = "sent" \/ EndDownload(s)
         /\ downWait[s] =>
              \/ downWait'[s] \/ closedSeen'[s]
              \/ \E c \in Control :
                   s \in linked[c] /\ (aborted'[c] \/ doneMsg[s] = "sent")
<1> USE DEF Typed, FlagType, PhaseType, netVars
<1>1. ASSUME NEW d \in Control, PageStep(d), ~ControlClosed(d)
      PROVE  /\ UNCHANGED <<closedSeen, doneMsg>>
             /\ downWait[s] => downWait'[s]
  BY <1>1
  DEF PageStep, LatencyBegins, LatencyEnds, DownloadEnds, UploadEnds,
      UploadTimesOut, Reported, ReportedNothing, StoredTimesOut, AbortUnwinds,
      BeginDownload, BeginUpload, BeginFinal, Fail
<1>2. ASSUME NEW d \in Control, ControlClosed(d)
      PROVE  /\ UNCHANGED <<closedSeen, doneMsg>>
             /\ downWait[s] => downWait'[s] \/ (s \in linked[d] /\ aborted'[d])
  BY <1>2 DEF ControlClosed
<1>3. ASSUME NEW d \in Control, ControlAcked(d) \/ PressStop(d)
      PROVE  UNCHANGED <<closedSeen, doneMsg, downWait>>
  BY <1>3 DEF ControlAcked, PressStop
<1>4. ASSUME NEW d \in Control, NEW t \in Stream, DownDone(d, t)
      PROVE  /\ UNCHANGED closedSeen
             /\ doneMsg'[s] = "sent" => doneMsg[s] = "sent"
             /\ downWait[s] =>
                  downWait'[s] \/ (s \in linked[d] /\ doneMsg[s] = "sent")
  BY <1>4 DEF DownDone
<1>5. ASSUME NEW d \in Control, NEW t \in Stream, StreamClosed(d, t)
      PROVE  /\ closedSeen[s] => closedSeen'[s]
             /\ UNCHANGED doneMsg
             /\ downWait[s] => downWait'[s] \/ closedSeen'[s]
  BY <1>5 DEF StreamClosed
<1>6. ASSUME NEW d \in Control, NEW t \in Stream, PageStreamStep(d, t),
             ~DownDone(d, t), ~StreamClosed(d, t)
      PROVE  UNCHANGED <<closedSeen, doneMsg, downWait>>
  BY <1>6
  DEF PageStreamStep, OpenStream, StreamAcked, OpenFails, PumpEnds, Fail
<1>7. CASE ServerStep
  <2>1. UNCHANGED <<closedSeen, downWait>>
    BY <1>7, ServerStepFrame DEF pageVars
  <2>2. doneMsg'[s] = "sent" => doneMsg[s] = "sent" \/ EndDownload(s)
    BY <1>7
    DEF ServerStep, ServerControlStep, ServerStop, ServerFinal,
        ServerControlReturns, ServerRelease, NetDropControl, ServerHello,
        NetDropStream, ServerStreamStep, ServerDownStart, ServerDownEnd,
        ServerUpStart, ServerUpEnd, ServerUpDeadline, ServerStreamReturns,
        ServerStreamSteps
  <2> QED
    BY <2>1, <2>2
<1> QED
  BY <1>1, <1>2, <1>3, <1>4, <1>5, <1>6, <1>7, RunCases

\* A row is never taken back, and endDownload leaves one.
LEMMA RowStep ==
  ASSUME Typed, [Next]_vars, NEW c \in Control, NEW s \in Stream
  PROVE  /\ Row(c, s) => Row(c, s)'
         /\ EndDownload(s) /\ of'[s] = c => Row(c, s)'
<1>1. idx' = idx
  BY JoinStep DEF Typed
<1>2. dlResults[c] \subseteq dlResults'[c]
  <2>1. ASSUME NEW t \in Stream, EndDownload(t)
        PROVE  dlResults[c] \subseteq dlResults'[c]
    BY <2>1 DEF EndDownload, Typed, TypeOK
  <2>2. ASSUME NEW t \in Stream, StreamNext(t), ~EndDownload(t)
        PROVE  dlResults' = dlResults
    BY <2>2
    DEF StreamNext, FindSession, FindNoSession, AddStream, StartDownload,
        StartUpload, EndUpload, StoreStats, SendResult, StreamReturns,
        RemoveStream, DropStream, downVars
  <2>3. ASSUME NEW d \in Control, ControlNext(d) PROVE dlResults' = dlResults
    BY <2>3, ControlFrame DEF downVars
  <2> QED
    BY <2>1, <2>2, <2>3 DEF Next, vars, downVars
<1>3. EndDownload(s) /\ of'[s] = c => idx[s] \in dlResults'[c]
  BY DEF EndDownload, Typed, TypeOK
<1> QED
  BY <1>1, <1>2, <1>3 DEF Row

\* The page leaves the download as far as it has been told of its streams.
LEMMA ToldNext ==
  Typed /\ RunIsJoined /\ LoadIsLinked /\ DownloadIsTold /\ [RunNext]_runVars
    => DownloadIsTold'
<1> SUFFICES ASSUME Typed, RunIsJoined, LoadIsLinked, DownloadIsTold,
                    [RunNext]_runVars, NEW c \in Control, NEW s \in Stream
             PROVE  /\ doneMsg'[s] = "sent" /\ of'[s] = c => Row(c, s)'
                    /\ phase'[c] = "download" /\ ~aborted'[c]
                         => downWait'[s] \/ Told(c, s)'
                    /\ /\ phase'[c] \in {"upload", "final", "done"}
                       /\ c \in Downloads
                       => Told(c, s)'
  BY DEF DownloadIsTold
<1>1. CASE UNCHANGED runVars
  BY <1>1
  DEF runVars, vars, streamVars, downVars, pageVars, netVars, DownloadIsTold,
      Told, Row
<1>2. CASE RunNext
  <2>0. [Next]_vars
    BY <1>2, RunStep
  <2>1. /\ Row(c, s) => Row(c, s)'
        /\ Told(c, s) => Told(c, s)'
    BY <1>2, <2>0, RowStep, WaitStep DEF Told
  <2>2. ASSUME doneMsg'[s] = "sent", of'[s] = c PROVE Row(c, s)'
    <3>1. CASE EndDownload(s)
      BY <2>0, <2>2, <3>1, RowStep
    <3>2. CASE doneMsg[s] = "sent"
      <4>1. of'[s] = of[s]
        BY <2>0, <3>2, JoinStep DEF Typed, FindSession, LoadIsLinked
      <4> QED
        BY <2>1, <2>2, <3>2, <4>1 DEF DownloadIsTold
    <3> QED
      BY <1>2, <2>2, <3>1, <3>2, WaitStep
  <2>3. ASSUME phase'[c] = "download", ~aborted'[c]
        PROVE  downWait'[s] \/ Told(c, s)'
    <3>1. CASE \A t \in Stream : downWait'[t]
      BY <3>1
    <3>2. CASE phase[c] = "download"
      <4>1. ~aborted[c]
        BY <1>2, <2>3, ShownStep
      <4>2. CASE Told(c, s)
        BY <2>1, <4>2
      <4>3. CASE downWait[s]
        <5>1. ASSUME NEW d \in Control, s \in linked[d] PROVE of[s] = d /\ d = c
          BY <3>2, <5>1 DEF RunIsJoined
        <5>2. \/ downWait'[s] \/ closedSeen'[s]
              \/ of[s] = c /\ doneMsg[s] = "sent"
          BY <1>2, <2>3, <4>3, <5>1, WaitStep
        <5> QED
          BY <2>1, <5>2 DEF DownloadIsTold, Told
      <4> QED
        BY <3>2, <4>1, <4>2, <4>3 DEF DownloadIsTold
    <3> QED
      BY <1>2, <2>3, <3>1, <3>2, PhaseStep
  <2>4. ASSUME phase'[c] \in {"upload", "final", "done"}, c \in Downloads
        PROVE  Told(c, s)'
    <3>1. \/ phase[c] \in {"upload", "final", "done"}
          \/ phase[c] = "download" /\ ~aborted[c] /\ ~downWait[s]
      BY <1>2, <2>4, PhaseStep
    <3>2. Told(c, s)
      BY <2>4, <3>1 DEF DownloadIsTold
    <3> QED
      BY <2>1, <3>2
  <2> QED
    BY <2>2, <2>3, <2>4
<1> QED
  BY <1>1, <1>2

-----------------------------------------------------------------------------
(* The stages of a stream *)

\* What a step of the server leaves of a stream's stage: nothing is undone.
StageKept(c, s) ==
  /\ Fresh(c, s) => Fresh(c, s)'
  /\ InDownload(c, s) => InDownload(c, s)'
  /\ Downed(c, s) => Downed(c, s)'
  /\ InUpload(c, s) => InUpload(c, s)'

\* While the page looks on, a stage that is kept is a stage allowed.
LEMMA KeptStage ==
  ASSUME UNCHANGED pageVars, NEW c, NEW s, StageAt(c, s), StageKept(c, s)
  PROVE  StageAt(c, s)'
  BY DEF pageVars, StageAt, StageKept

\* A stream whose messages and rows stay as they are keeps its stage when its
\* goroutine does, or moves outside the phases, or on to report.
LEMMA StageFrame ==
  ASSUME NEW c, NEW s,
         wire'[s] = wire[s], doneMsg'[s] = doneMsg[s],
         upFinished'[s] = upFinished[s], readFailed[s] => readFailed'[s],
         Row(c, s)' = Row(c, s), Counted(c, s)' = Counted(c, s),
         \/ strm'[s] = strm[s]
         \/ strm[s] \notin Busy /\ strm'[s] \notin Busy
         \/ /\ strm[s] \in {"aggregating", "reporting"}
            /\ strm'[s] \notin Loading
  PROVE  StageKept(c, s)
<1> USE DEF Busy, Loading, DoneAtMost
<1> HIDE DEF Row, Counted
<1>1. Fresh(c, s) => Fresh(c, s)'
  BY DEF Fresh
<1>2. Downed(c, s) => Downed(c, s)'
  BY DEF Downed
<1>3. DownAsked(c, s) \/ Downing(c, s) => DownAsked(c, s)' \/ Downing(c, s)'
  BY DEF DownAsked, Downing
<1>4. InUpload(c, s) => InUpload(c, s)'
  BY DEF InUpload, UpAsked, Uping, Upped
<1> QED
  BY <1>1, <1>2, <1>3, <1>4 DEF StageKept, InDownload

\* The page's first message of a download finds every stream fresh.
LEMMA DownloadStages ==
  ASSUME Typed, RunIsJoined, ClosedIsClosed, NEW c \in Control,
         NEW s \in Stream, of[s] = c, open[s], StageAt(c, s), LatencyEnds(c),
         c \in Downloads
  PROVE  StageAt(c, s)'
<1>1. /\ phase[c] = "latency" /\ BeginDownload(c) /\ UNCHANGED vars
  BY DEF LatencyEnds
<1>2. /\ Fresh(c, s) /\ s \in linked[c] /\ Reaches(s)
  BY <1>1 DEF StageAt, RunIsJoined, ClosedIsClosed, Reaches
<1>3. phase'[c] = "download"
  BY <1>1 DEF BeginDownload, Typed, PhaseType
<1>4. downWait'[s]
  BY <1>1, <1>2 DEF BeginDownload
<1>5. wire'[s] = <<"DOWN_START">>
  <2>1. wire'[s] = <<>> \o <<"DOWN_START">>
    BY <1>1, <1>2 DEF BeginDownload, SendTo, Fresh
  <2> QED
    BY <2>1
<1>6. DownAsked(c, s)'
  BY <1>1, <1>2, <1>5
  DEF BeginDownload, Fresh, DownAsked, Row, Counted, vars, streamVars,
      downVars, upVars
<1> QED
  BY <1>3, <1>4, <1>6 DEF StageAt, InDownload

\* The page's first message of an upload finds every stream fresh, or through
\* with its download.
LEMMA UploadStages ==
  ASSUME Typed, RunIsJoined, ClosedIsClosed, NEW c \in Control,
         NEW s \in Stream, of[s] = c, open[s],
         c \in Uploads, BeginUpload(c), UNCHANGED vars, linked[c] = Stream,
         \/ Fresh(c, s) /\ c \notin Downloads
         \/ Downed(c, s)
  PROVE  StageAt(c, s)'
<1>1. s \in linked[c] /\ Reaches(s) /\ wire[s] = <<>>
  BY DEF RunIsJoined, ClosedIsClosed, Reaches, Fresh, Downed
<1>2. phase'[c] = "upload"
  BY DEF BeginUpload, Typed, PhaseType
<1>3. \/ wire'[s] = <<"UP_START">>
      \/ wire'[s] = <<"UP_START", "UP_DONE">> /\ upFinished'[s]
  <2>1. CASE stopping[c]
    <3>1. wire'[s] = <<>> \o <<"UP_START", "UP_DONE">>
      BY <1>1, <2>1 DEF BeginUpload, SendTo
    <3>2. upFinished'[s]
      BY <1>1, <2>1 DEF BeginUpload, Reaches
    <3> QED
      BY <3>1, <3>2
  <2>2. CASE ~stopping[c]
    <3>1. wire'[s] = <<>> \o <<"UP_START">>
      BY <1>1, <2>2 DEF BeginUpload, SendTo
    <3> QED
      BY <3>1
  <2> QED
    BY <2>1, <2>2
<1>4. UpAsked(c, s)'
  BY <1>1, <1>3
  DEF Fresh, Downed, UpAsked, Row, Counted, vars, streamVars, downVars, upVars
<1> QED
  BY <1>2, <1>4 DEF StageAt, InUpload

\* UP_DONE goes out once, behind UP_START.
LEMMA PumpStages ==
  ASSUME Typed, RunIsJoined, ClosedIsClosed, NEW c \in Control,
         NEW s \in Stream, of[s] = c, open[s], StageAt(c, s), PumpEnds(c, s)
  PROVE  StageAt(c, s)'
<1>1. /\ phase[c] = "upload" /\ InUpload(c, s) /\ ~upFinished[s]
      /\ UNCHANGED <<vars, phase, readFailed>>
  BY DEF PumpEnds, StageAt
<1>2. wire'[s] = wire[s] \o <<"UP_DONE">>
  BY DEF PumpEnds, SendTo, Reaches
<1>3. upFinished'[s]
  BY DEF PumpEnds, Typed, FlagType
<1>4. \/ wire[s] = <<>> /\ wire'[s] = <<"UP_DONE">>
      \/ wire[s] = <<"UP_START">> /\ wire'[s] = <<"UP_START", "UP_DONE">>
  <2>1. wire[s] = <<>> \/ wire[s] = <<"UP_START">>
    BY <1>1 DEF InUpload, UpAsked, Uping, Upped, DoneAtMost
  <2>2. <<>> \o <<"UP_DONE">> = <<"UP_DONE">>
    OBVIOUS
  <2>3. <<"UP_START">> \o <<"UP_DONE">> = <<"UP_START", "UP_DONE">>
    <3> DEFINE joined == <<"UP_START">> \o <<"UP_DONE">>
               both == <<"UP_START", "UP_DONE">>
    <3>1. joined \in Seq(StreamMessage) /\ both \in Seq(StreamMessage)
      BY StreamMessages, ConcatProperties
    <3>2. Len(joined) = 2 /\ joined[1] = "UP_START" /\ joined[2] = "UP_DONE"
      BY StreamMessages, ConcatProperties
    <3>3. Len(both) = 2 /\ both[1] = "UP_START" /\ both[2] = "UP_DONE"
      OBVIOUS
    <3>4. \A i \in 1 .. Len(joined) : joined[i] = both[i]
      <4>1. \A i \in 1 .. 2 : i = 1 \/ i = 2
        OBVIOUS
      <4> QED
        BY <3>2, <3>3, <4>1
    <3> HIDE DEF joined, both
    <3>5. joined = both
      BY <3>1, <3>2, <3>3, <3>4, SeqEqual
    <3> QED
      BY <3>5 DEF joined, both
  <2> QED
    BY <1>2, <2>1, <2>2, <2>3
<1>5. InUpload(c, s)'
  <2>1. UNCHANGED <<strm, readFailed, Row(c, s), Counted(c, s)>>
    BY <1>1 DEF Row, Counted, vars, streamVars, downVars, upVars
  <2> HIDE DEF Row, Counted
  <2>2. CASE UpAsked(c, s)
    <3>1. wire'[s] = <<"UP_START", "UP_DONE">>
      BY <1>1, <1>4, <2>2 DEF UpAsked
    <3> QED
      BY <1>3, <2>1, <2>2, <3>1 DEF UpAsked, InUpload
  <2>3. CASE Uping(c, s) \/ Upped(c, s)
    <3>1. wire'[s] = <<"UP_DONE">>
      BY <1>1, <1>4, <2>3 DEF Uping, Upped, DoneAtMost
    <3>2. Upped(c, s) => readFailed[s]
      BY <1>1 DEF Upped
    <3> QED
      BY <1>3, <2>1, <2>3, <3>1, <3>2 DEF Uping, Upped, InUpload, DoneAtMost
  <2> QED
    BY <1>1, <2>2, <2>3 DEF InUpload
<1> QED
  BY <1>1, <1>5 DEF StageAt

\* The page's other steps send nothing on a stream: they change the phase, or
\* hear that a download is over.
LEMMA PageStages ==
  ASSUME Typed, RunIsJoined, ClosedIsClosed, StreamsStaged,
         NEW c \in Control, NEW s \in Stream, of[s] = c, open[s],
         PageStep(c) \/ PressStop(c)
  PROVE  StageAt(c, s)'
<1>0. StageAt(c, s)
  BY DEF StreamsStaged
<1>1. CASE LatencyEnds(c)
  <2>1. CASE c \in Downloads
    BY <1>0, <1>1, <2>1, DownloadStages
  <2>2. CASE c \notin Downloads
    <3>1. /\ c \in Uploads /\ BeginUpload(c) /\ UNCHANGED vars
          /\ linked[c] = Stream /\ Fresh(c, s)
      BY <1>0, <1>1, <2>2, SessionsAssumption
      DEF LatencyEnds, RunIsJoined, StageAt
    <3> QED
      BY <2>2, <3>1, UploadStages
  <2> QED
    BY <2>1, <2>2
<1>2. CASE DownloadEnds(c)
  <2>1. /\ phase[c] = "download" /\ linked[c] = Stream
        /\ ~aborted[c] /\ UNCHANGED vars
    BY <1>2 DEF DownloadEnds, RunIsJoined
  <2>2. Downed(c, s)
    BY <1>0, <1>2, <2>1 DEF DownloadEnds, StageAt
  <2>3. CASE c \in Uploads
    <3>1. BeginUpload(c)
      BY <1>2, <2>3 DEF DownloadEnds
    <3> QED
      BY <2>1, <2>2, <2>3, <3>1, UploadStages
  <2>4. CASE c \notin Uploads
    <3>1. BeginFinal(c)
      BY <1>2, <2>4 DEF DownloadEnds
    <3>2. phase'[c] = "final" /\ UNCHANGED <<wire, doneMsg, upFinished>>
      BY <3>1 DEF BeginFinal, Typed, PhaseType
    <3>3. Downed(c, s)'
      BY <2>1, <2>2, <3>2
      DEF Downed, Row, Counted, vars, streamVars, downVars, upVars
    <3> QED
      BY <3>2, <3>3 DEF StageAt, InDownload
  <2> QED
    BY <2>3, <2>4
<1>3. CASE \/ LatencyBegins(c) \/ UploadEnds(c) \/ UploadTimesOut(c)
           \/ Reported(c) \/ ReportedNothing(c) \/ StoredTimesOut(c)
           \/ AbortUnwinds(c)
  <2>1. /\ phase'[c] \in {"latency", "final", "done", "failed"}
        /\ phase'[c] = "latency" => phase[c] = "opening"
        /\ phase[c] \in {"opening", "latency", "download", "upload", "final"}
        /\ UNCHANGED <<vars, wire, doneMsg, upFinished, readFailed>>
    BY <1>3
    DEF LatencyBegins, UploadEnds, UploadTimesOut, Reported,
        ReportedNothing, StoredTimesOut, AbortUnwinds, BeginFinal, Fail,
        netVars, Typed, PhaseType
  <2>2. StageKept(c, s)
    BY <2>1, StageFrame
    DEF Row, Counted, vars, streamVars, downVars, upVars
  <2> QED
    BY <1>0, <2>1, <2>2 DEF StageAt, StageKept
<1>4. CASE ControlClosed(c)
  <2>1. /\ aborted'[c]
        /\ UNCHANGED <<vars, phase, wire, doneMsg, upFinished, readFailed>>
    BY <1>4 DEF ControlClosed, netVars, Typed, PhaseType
  <2>2. StageKept(c, s)
    BY <2>1, StageFrame
    DEF Row, Counted, vars, streamVars, downVars, upVars
  <2> QED
    BY <1>0, <2>1, <2>2 DEF StageAt, StageKept
<1>5. CASE PressStop(c)
  <2>1. UNCHANGED <<vars, phase, aborted, downWait, wire, doneMsg, upFinished,
                    readFailed>>
    BY <1>5 DEF PressStop
  <2>2. StageKept(c, s)
    BY <2>1, StageFrame
    DEF Row, Counted, vars, streamVars, downVars, upVars
  <2> QED
    BY <1>0, <2>1, <2>2 DEF StageAt, StageKept
<1> QED
  BY <1>1, <1>2, <1>3, <1>4, <1>5 DEF PageStep

\* ... and those on one of its streams.
LEMMA PageStreamStages ==
  ASSUME Typed, RunIsJoined, ClosedIsClosed, StreamsStaged,
         NEW c \in Control, NEW s \in Stream, of[s] = c, open[s],
         NEW t \in Stream, PageStreamStep(c, t)
  PROVE  StageAt(c, s)'
<1>0. StageAt(c, s)
  BY DEF StreamsStaged
<1>1. CASE PumpEnds(c, t)
  <2>1. CASE s = t
    BY <1>0, <1>1, <2>1, PumpStages
  <2>2. CASE s # t
    <3>1. /\ UNCHANGED <<vars, phase, aborted, downWait, doneMsg, readFailed>>
          /\ wire'[s] = wire[s] /\ upFinished'[s] = upFinished[s]
      BY <1>1, <2>2 DEF PumpEnds, SendTo, Typed, FlagType
    <3>2. StageKept(c, s)
      BY <3>1, StageFrame
      DEF Row, Counted, vars, streamVars, downVars, upVars
    <3> QED
      BY <1>0, <3>1, <3>2 DEF StageAt, StageKept
  <2> QED
    BY <2>1, <2>2
<1>2. CASE DownDone(c, t)
  <2>1. /\ UNCHANGED <<vars, phase, aborted, wire, upFinished, readFailed>>
        /\ s # t => doneMsg'[s] = doneMsg[s] /\ downWait'[s] = downWait[s]
        /\ s = t => doneMsg[s] = "sent"
    BY <1>2 DEF DownDone, Typed, FlagType
  <2>2. CASE s # t
    <3>1. StageKept(c, s)
      BY <2>1, <2>2, StageFrame
      DEF Row, Counted, vars, streamVars, downVars, upVars
    <3> QED
      BY <1>0, <2>1, <2>2, <3>1 DEF StageAt, StageKept
  <2>3. CASE s = t
    <3>1. /\ UNCHANGED <<strm[s], wire[s], upFinished[s], readFailed[s]>>
          /\ UNCHANGED <<Row(c, s), Counted(c, s)>>
      BY <2>1 DEF Row, Counted, vars, streamVars, downVars, upVars
    <3>2. Downed(c, s) => Downed(c, s)'
      BY <3>1 DEF Downed
    <3>3. InUpload(c, s) => InUpload(c, s)'
      BY <3>1 DEF InUpload, UpAsked, Uping, Upped, DoneAtMost
    <3>4. ~Fresh(c, s) /\ ~DownAsked(c, s) /\ ~Downing(c, s)
      BY <2>1, <2>3 DEF Fresh, DownAsked, Downing
    <3> QED
      BY <1>0, <2>1, <3>2, <3>3, <3>4 DEF StageAt, InDownload
  <2> QED
    BY <2>2, <2>3
<1>3. CASE StreamClosed(c, t)
  <2>1. /\ UNCHANGED <<vars, phase, aborted, wire, doneMsg, upFinished,
                       readFailed>>
        /\ s # t /\ downWait'[s] = downWait[s]
    BY <1>3 DEF StreamClosed, netVars, Typed, FlagType
  <2>2. StageKept(c, s)
    BY <2>1, StageFrame
    DEF Row, Counted, vars, streamVars, downVars, upVars
  <2> QED
    BY <1>0, <2>1, <2>2 DEF StageAt, StageKept
<1>4. CASE OpenStream(c, t) \/ StreamAcked(c, t) \/ OpenFails(c, t)
  <2>1. /\ UNCHANGED <<vars, aborted, downWait, wire, doneMsg, upFinished,
                       readFailed>>
        /\ \/ phase'[c] = phase[c]
           \/ phase[c] = "opening" /\ phase'[c] = "failed"
    <3>1. CASE OpenStream(c, t) \/ StreamAcked(c, t)
      BY <3>1 DEF OpenStream, StreamAcked, netVars
    <3>2. CASE OpenFails(c, t)
      <4>1. phase[c] = "opening"
        BY <3>2 DEF OpenFails, RunIsJoined
      <4> QED
        BY <3>2, <4>1 DEF OpenFails, Fail, netVars, Typed, PhaseType
    <3> QED
      BY <1>4, <3>1, <3>2
  <2>2. StageKept(c, s)
    BY <2>1, StageFrame
    DEF Row, Counted, vars, streamVars, downVars, upVars
  <2> QED
    BY <1>0, <2>1, <2>2 DEF StageAt, StageKept
<1> QED
  BY <1>1, <1>2, <1>3, <1>4 DEF PageStreamStep

\* A stream that answers nothing and takes no message keeps its stage, whatever
\* the other streams leave behind.
LEMMA OthersStage ==
  ASSUME Typed, RunIsJoined, StreamsStaged, UNCHANGED pageVars,
         NEW c \in Control, NEW s \in Stream, of[s] = c, open[s],
         NEW t \in Stream, t # s,
         strm'[s] = strm[s], wire'[s] = wire[s], doneMsg'[s] = doneMsg[s],
         readFailed[s] => readFailed'[s], idx' = idx,
         \/ UNCHANGED <<dlResults, upTotal>>
         \/ EndDownload(t)
         \/ EndUpload(t)
  PROVE  StageAt(c, s)'
<1>1. idx[s] # idx[t]
  BY DEF RunIsJoined
<1>2. Row(c, s)' = Row(c, s) /\ Counted(c, s)' = Counted(c, s)
  <2>1. CASE UNCHANGED <<dlResults, upTotal>>
    BY <2>1 DEF Row, Counted
  <2>2. CASE EndDownload(t)
    <3>1. /\ dlResults' = [dlResults EXCEPT ![of[t]] =
                             dlResults[of[t]] \cup {idx[t]}]
          /\ UNCHANGED upTotal
      BY <2>2 DEF EndDownload, upVars
    <3> QED
      BY <1>1, <3>1 DEF Row, Counted, Typed, TypeOK
  <2>3. CASE EndUpload(t)
    <3>1. /\ upTotal' = [upTotal EXCEPT ![of[t]] =
                           upTotal[of[t]] \cup {idx[t]}]
          /\ UNCHANGED dlResults
      BY <2>3 DEF EndUpload, downVars
    <3> QED
      BY <1>1, <3>1 DEF Row, Counted, Typed, TypeOK
  <2> QED
    BY <2>1, <2>2, <2>3
<1>3. StageKept(c, s)
  BY <1>2, StageFrame DEF pageVars
<1> QED
  BY <1>3, KeptStage DEF StreamsStaged

\* The head of a stream's messages says at which stage it is.
LEMMA HeadStage ==
  ASSUME NEW c, NEW s, StageAt(c, s), phase[c] \in Phase \ {"idle"},
         wire[s] # <<>>
  PROVE  /\ Head(wire[s]) = "DOWN_START" =>
              DownAsked(c, s) /\ Tail(wire[s]) = <<>>
         /\ Head(wire[s]) = "UP_START" =>
              /\ UpAsked(c, s)
              /\ \/ Tail(wire[s]) = <<>>
                 \/ Tail(wire[s]) = <<"UP_DONE">> /\ upFinished[s]
         /\ Head(wire[s]) = "UP_DONE" =>
              /\ Uping(c, s) \/ Upped(c, s)
              /\ Tail(wire[s]) = <<>> /\ upFinished[s]
         /\ Head(wire[s]) \in StreamMessage
<1>1. Fresh(c, s) \/ InDownload(c, s) \/ InUpload(c, s)
  BY DEF StageAt, Phase, RunningPhases
<1>2. DownAsked(c, s) \/ UpAsked(c, s) \/ Uping(c, s) \/ Upped(c, s)
  BY <1>1 DEF Fresh, InDownload, InUpload, Downing, Downed
<1>3. /\ Head(<<"DOWN_START">>) = "DOWN_START" /\ Tail(<<"DOWN_START">>) = <<>>
      /\ Head(<<"UP_START">>) = "UP_START" /\ Tail(<<"UP_START">>) = <<>>
      /\ Head(<<"UP_DONE">>) = "UP_DONE" /\ Tail(<<"UP_DONE">>) = <<>>
  OBVIOUS
<1>4. /\ Head(<<"UP_START", "UP_DONE">>) = "UP_START"
      /\ Tail(<<"UP_START", "UP_DONE">>) = <<"UP_DONE">>
  OBVIOUS
<1>5. CASE DownAsked(c, s)
  BY <1>3, <1>5 DEF DownAsked, StreamMessage
<1>6. CASE UpAsked(c, s)
  <2>1. \/ wire[s] = <<"UP_START">>
        \/ wire[s] = <<"UP_START", "UP_DONE">> /\ upFinished[s]
    BY <1>6 DEF UpAsked
  <2> QED
    BY <1>3, <1>4, <1>6, <2>1 DEF StreamMessage
<1>7. CASE Uping(c, s) \/ Upped(c, s)
  <2>1. wire[s] = <<"UP_DONE">> /\ upFinished[s]
    BY <1>7 DEF Uping, Upped, DoneAtMost
  <2> QED
    BY <1>3, <1>7, <2>1 DEF StreamMessage
<1> QED
  BY <1>2, <1>5, <1>6, <1>7

\* A stream that is open on a session is a stream of the run.
LEMMA StagedPhase ==
  ASSUME Typed, RunIsJoined, NEW c \in Control, NEW s \in Stream, of[s] = c
  PROVE  phase[c] \in Phase \ {"idle"}
  BY DEF Typed, PhaseType, RunIsJoined

\* DOWN_START begins the download on its stream.
LEMMA DownStartStages ==
  ASSUME Typed, RunIsJoined, StreamsStaged, UNCHANGED pageVars,
         NEW c \in Control, NEW s \in Stream, of[s] = c, open[s],
         ServerDownStart(s)
  PROVE  StageAt(c, s)'
<1>1. /\ StageAt(c, s) /\ Heads(wire[s], "DOWN_START")
      /\ strm' = [strm EXCEPT ![s] = "downloading"]
      /\ wire' = [wire EXCEPT ![s] = Tail(wire[s])]
      /\ UNCHANGED <<idx, dlResults, upTotal, doneMsg>>
  BY DEF StreamsStaged, ServerDownStart, StartDownload, Reads, Consume, upVars
<1>2. DownAsked(c, s) /\ Tail(wire[s]) = <<>>
  BY <1>1, HeadStage, StagedPhase DEF Heads
<1>3. strm'[s] = "downloading" /\ wire'[s] = <<>>
  BY <1>1, <1>2 DEF Typed, TypeOK, WireType
<1>4. Downing(c, s)'
  BY <1>1, <1>2, <1>3 DEF DownAsked, Downing, Row, Counted
<1>5. ~Fresh(c, s) /\ ~Downed(c, s) /\ ~InUpload(c, s)
  BY <1>1, <1>2
  DEF DownAsked, Fresh, Downed, InUpload, UpAsked, Uping, Upped, DoneAtMost,
      Heads
<1> QED
  BY <1>1, <1>4, <1>5, KeptStage DEF StageKept, InDownload

\* The download's end leaves its row.
LEMMA DownEndStages ==
  ASSUME Typed, RunIsJoined, StreamsStaged, UNCHANGED pageVars,
         NEW c \in Control, NEW s \in Stream, of[s] = c, open[s],
         ServerDownEnd(s)
  PROVE  StageAt(c, s)'
<1>1. /\ StageAt(c, s) /\ strm[s] = "downloading"
      /\ dlResults' = [dlResults EXCEPT ![c] = dlResults[c] \cup {idx[s]}]
      /\ strm' = [strm EXCEPT ![s] = "idle"]
      /\ UNCHANGED <<idx, wire, upTotal>>
  BY DEF StreamsStaged, ServerDownEnd, EndDownload, upVars
<1>2. /\ ~Fresh(c, s) /\ ~DownAsked(c, s) /\ ~Downed(c, s)
      /\ ~InUpload(c, s)
  BY <1>1
  DEF Fresh, DownAsked, Downed, InUpload, UpAsked, Uping, Upped, Busy, Loading
<1>3. strm'[s] = "idle" /\ Row(c, s)'
  BY <1>1 DEF Typed, TypeOK, Row
<1>4. Downing(c, s) => Downed(c, s)'
  BY <1>1, <1>3 DEF Downing, Downed, Counted, Busy, Loading
<1> QED
  BY <1>2, <1>4, <1>1, KeptStage DEF StageKept, InDownload

\* UP_START begins the upload on its stream.
LEMMA UpStartStages ==
  ASSUME Typed, RunIsJoined, StreamsStaged, UNCHANGED pageVars,
         NEW c \in Control, NEW s \in Stream, of[s] = c, open[s],
         ServerUpStart(s)
  PROVE  StageAt(c, s)'
<1>1. /\ StageAt(c, s) /\ Heads(wire[s], "UP_START")
      /\ strm' = [strm EXCEPT ![s] = "uploading"]
      /\ wire' = [wire EXCEPT ![s] = Tail(wire[s])]
      /\ UNCHANGED <<idx, dlResults, upTotal>>
  BY DEF StreamsStaged, ServerUpStart, StartUpload, Reads, Consume, downVars
<1>2. /\ UpAsked(c, s)
      /\ \/ Tail(wire[s]) = <<>>
         \/ Tail(wire[s]) = <<"UP_DONE">> /\ upFinished[s]
  BY <1>1, HeadStage, StagedPhase DEF Heads
<1>3. strm'[s] = "uploading" /\ DoneAtMost(s)'
  BY <1>1, <1>2 DEF Typed, TypeOK, WireType, DoneAtMost, pageVars
<1>4. Uping(c, s)'
  BY <1>1, <1>2, <1>3 DEF UpAsked, Uping, Row, Counted
<1>5. ~Fresh(c, s) /\ ~Downed(c, s) /\ ~InDownload(c, s)
  BY <1>1, <1>2
  DEF UpAsked, Fresh, InDownload, DownAsked, Downing, Downed, Heads
<1> QED
  BY <1>1, <1>4, <1>5, KeptStage DEF StageKept, InUpload

\* The upload's end counts its bytes, whether UP_DONE ended it or the deadline.
LEMMA UpEndStages ==
  ASSUME Typed, RunIsJoined, StreamsStaged, UNCHANGED pageVars,
         NEW c \in Control, NEW s \in Stream, of[s] = c, open[s],
         ServerUpEnd(s) \/ ServerUpDeadline(s)
  PROVE  StageAt(c, s)'
<1>1. /\ StageAt(c, s) /\ strm[s] = "uploading"
      /\ upTotal' = [upTotal EXCEPT ![c] = upTotal[c] \cup {idx[s]}]
      /\ UNCHANGED <<idx, dlResults>>
  BY DEF StreamsStaged, ServerUpEnd, ServerUpDeadline, EndUpload, downVars
<1>2. strm'[s] \notin Loading
  BY DEF ServerUpEnd, ServerUpDeadline, EndUpload, Typed, TypeOK, Loading
<1>3. ~Fresh(c, s) /\ ~Downed(c, s) /\ ~InDownload(c, s)
      /\ ~UpAsked(c, s) /\ ~Upped(c, s)
  BY <1>1
  DEF Fresh, InDownload, DownAsked, Downing, Downed, UpAsked, Upped, Busy,
      Loading
<1>4. Uping(c, s) => /\ DoneAtMost(s)'
                     /\ readFailed'[s] \/ (wire'[s] = <<>> /\ upFinished'[s])
  <2>1. CASE ServerUpDeadline(s)
    <3>1. readFailed'[s] /\ UNCHANGED wire
      BY <2>1 DEF ServerUpDeadline, Typed, FlagType
    <3> QED
      BY <3>1 DEF Uping, DoneAtMost, pageVars
  <2>2. CASE ServerUpEnd(s)
    <3>1. Heads(wire[s], "UP_DONE") /\ Consume(s)
      BY <2>2 DEF ServerUpEnd, Reads
    <3>2. Tail(wire[s]) = <<>> /\ upFinished[s]
      BY <1>1, <3>1, HeadStage, StagedPhase DEF Heads
    <3>3. wire'[s] = <<>> /\ upFinished'[s]
      BY <3>1, <3>2 DEF Consume, Typed, WireType, pageVars
    <3> QED
      BY <3>3 DEF DoneAtMost
  <2> QED
    BY <2>1, <2>2
<1>5. Counted(c, s)' /\ Row(c, s)' = Row(c, s)
  BY <1>1 DEF Typed, TypeOK, Row, Counted
<1>6. Uping(c, s) => Upped(c, s)'
  BY <1>2, <1>4, <1>5 DEF Uping, Upped
<1> QED
  BY <1>1, <1>3, <1>6, KeptStage DEF StageKept, InUpload

\* The server's remaining steps on a stream that is already joined.
LEMMA QuietStages ==
  ASSUME Typed, RunIsJoined, StreamsStaged, UNCHANGED pageVars,
         NEW c \in Control, NEW s \in Stream, of[s] = c, open[s], open'[s],
         ServerStreamReturns(s) \/ ServerStreamSteps(s)
  PROVE  StageAt(c, s)'
<1>1. /\ UNCHANGED <<wire, doneMsg, readFailed, idx, dlResults, upTotal>>
  BY DEF ServerStreamReturns, ServerStreamSteps, StreamReturns, AddStream,
         StoreStats, SendResult, RemoveStream, netVars, downVars, upVars
<1>2. \/ strm[s] \notin Busy /\ strm'[s] \notin Busy
      \/ /\ strm[s] \in {"aggregating", "reporting"}
         /\ strm'[s] \notin Loading
  BY DEF ServerStreamReturns, ServerStreamSteps, StreamReturns, AddStream,
         StoreStats, SendResult, RemoveStream, Busy, Loading, Typed, TypeOK
<1>3. StageKept(c, s)
  BY <1>1, <1>2, StageFrame DEF Row, Counted, pageVars
<1> QED
  BY <1>3, KeptStage DEF StreamsStaged

\* What the server's step on one stream does to the variables of the stages.
LEMMA ServerStreamFrame ==
  ASSUME Typed, NEW t \in Stream, ServerStreamStep(t),
         NEW s \in Stream, s # t
  PROVE  /\ strm'[s] = strm[s]
         /\ wire'[s] = wire[s]
         /\ doneMsg'[s] = doneMsg[s]
         /\ readFailed'[s] = readFailed[s]
         /\ \/ UNCHANGED <<dlResults, upTotal>>
            \/ EndDownload(t)
            \/ EndUpload(t)
<1> USE DEF Typed, TypeOK, WireType, FlagType, Consume, netVars
<1>1. CASE ServerDownStart(t) \/ ServerUpStart(t)
  BY <1>1
  DEF ServerDownStart, ServerUpStart, StartDownload, StartUpload, upVars,
      downVars
<1>2. CASE ServerDownEnd(t)
  <2>1. strm'[s] = strm[s]
    BY <1>2 DEF ServerDownEnd, EndDownload
  <2>2. /\ wire'[s] = wire[s] /\ doneMsg'[s] = doneMsg[s]
        /\ readFailed'[s] = readFailed[s]
    BY <1>2 DEF ServerDownEnd
  <2> QED
    BY <1>2, <2>1, <2>2 DEF ServerDownEnd
<1>3. CASE ServerUpEnd(t) \/ ServerUpDeadline(t)
  <2>1. strm'[s] = strm[s]
    BY <1>3 DEF ServerUpEnd, ServerUpDeadline, EndUpload
  <2>2. /\ wire'[s] = wire[s] /\ doneMsg'[s] = doneMsg[s]
        /\ readFailed'[s] = readFailed[s]
    BY <1>3 DEF ServerUpEnd, ServerUpDeadline
  <2> QED
    BY <1>3, <2>1, <2>2 DEF ServerUpEnd, ServerUpDeadline
<1>4. CASE ServerStreamReturns(t) \/ ServerStreamSteps(t)
  BY <1>4
  DEF ServerStreamReturns, ServerStreamSteps, StreamReturns, AddStream,
      StoreStats, SendResult, RemoveStream, downVars, upVars
<1> QED
  BY <1>1, <1>2, <1>3, <1>4 DEF ServerStreamStep

\* A server step on a stream that is joined keeps its stage allowed.
LEMMA JoinedStages ==
  ASSUME Typed, RunIsJoined, StreamsStaged, ServerStep, [Next]_vars,
         NEW c \in Control, NEW s \in Stream, of[s] = c, open[s], open'[s]
  PROVE  StageAt(c, s)'
<1>1. UNCHANGED pageVars /\ idx' = idx
  BY ServerStepFrame, JoinStep DEF Typed
<1>2. ASSUME NEW d \in Control, ServerControlStep(d) \/ NetDropControl(d)
      PROVE  StageAt(c, s)'
  <2>1. UNCHANGED <<strm, wire, doneMsg, readFailed, dlResults, upTotal>>
    BY <1>2
    DEF ServerControlStep, ServerStop, ServerFinal, ServerControlReturns,
        ServerRelease, NetDropControl, RequestStop, HandleFinal,
        ControlReturns, ReleaseLock, CollectStreams, ControlDone, CloseStream,
        vars, streamVars, downVars, upVars, netVars
  <2>2. StageKept(c, s)
    BY <1>1, <2>1, StageFrame DEF Row, Counted, pageVars
  <2> QED
    BY <1>1, <2>2, KeptStage DEF StreamsStaged
<1>3. ASSUME NEW d \in Control, NEW t \in Stream, ServerHello(d, t)
      PROVE  StageAt(c, s)'
  <2>1. s # t
    BY <1>3, SessionsAssumption
    DEF ServerHello, FindSession, FindNoSession, Typed, StreamsJoined
  <2>2. /\ strm'[s] = strm[s]
        /\ UNCHANGED <<wire, doneMsg, readFailed, dlResults, upTotal>>
    BY <1>3, <2>1
    DEF ServerHello, FindSession, FindNoSession, Typed, TypeOK, netVars,
        downVars, upVars
  <2> QED
    BY <1>1, <2>1, <2>2, OthersStage
<1>4. ASSUME NEW d \in Control, NEW t \in Stream, NetDropStream(d, t)
      PROVE  StageAt(c, s)'
  <2>1. s # t
    BY <1>4 DEF NetDropStream, DropStream, Typed, TypeOK
  <2>2. /\ strm' = strm /\ wire'[s] = wire[s]
        /\ UNCHANGED <<doneMsg, readFailed, dlResults, upTotal>>
    BY <1>4, <2>1
    DEF NetDropStream, DropStream, Typed, WireType, downVars, upVars
  <2> QED
    BY <1>1, <2>1, <2>2, OthersStage
<1>5. ASSUME NEW t \in Stream, ServerStreamStep(t) PROVE StageAt(c, s)'
  <2>1. CASE s = t
    BY <1>1, <1>5, <2>1, DownStartStages, DownEndStages, UpStartStages,
       UpEndStages, QuietStages
    DEF ServerStreamStep
  <2>2. CASE s # t
    BY <1>1, <1>5, <2>2, ServerStreamFrame, OthersStage
  <2> QED
    BY <2>1, <2>2
<1> QED
  BY <1>2, <1>3, <1>4, <1>5 DEF ServerStep

\* A stream that joins is fresh: its index has no row and no total yet, and
\* nothing has been sent to it.
LEMMA JoiningStages ==
  ASSUME Typed, RunIsJoined, LoadIsLinked, RowsAreOwn, ServerStep,
         NEW c \in Control, NEW s \in Stream, FindSession(s, c)
  PROVE  StageAt(c, s)'
<1>1. UNCHANGED pageVars /\ opening[c] = s
  BY ServerStepFrame DEF Typed
<1>2. phase'[c] = "opening"
  BY <1>1 DEF RunIsJoined, pageVars
<1>3. strm[s] = "hello" /\ of[s] = NoControl /\ strm'[s] = "found"
  BY DEF FindSession, Typed, TypeOK, StreamsJoined
<1>4. wire[s] = <<>> /\ doneMsg[s] = "none"
  BY <1>3 DEF LoadIsLinked, RunIsJoined
<1>5. UNCHANGED <<idx, dlResults, upTotal>> /\ ~Row(c, s) /\ ~Counted(c, s)
  BY <1>3, SessionsAssumption
  DEF FindSession, RowsAreOwn, Row, Counted, downVars, upVars
<1>6. wire'[s] = <<>> /\ doneMsg'[s] = "none"
  <2>1. wire'[s] # <<>> => wire[s] # <<>>
    BY TakeStep DEF Typed
  <2>2. doneMsg'[s] # doneMsg[s] => strm[s] = "downloading"
    BY TakeStep DEF Typed
  <2> QED
    BY <1>3, <1>4, <2>1, <2>2
<1>7. Fresh(c, s)'
  BY <1>3, <1>5, <1>6 DEF Fresh, Busy, Loading, Row, Counted
<1> QED
  BY <1>2, <1>7 DEF StageAt

\* Every step keeps every open stream at a stage its session's phase allows.
LEMMA StagesNext ==
  Typed /\ RunIsJoined /\ LoadIsLinked /\ RowsAreOwn /\ ClosedIsClosed
    /\ StreamsStaged /\ [RunNext]_runVars => StreamsStaged'
<1> SUFFICES ASSUME Typed, RunIsJoined, LoadIsLinked, RowsAreOwn,
                    ClosedIsClosed, StreamsStaged, [RunNext]_runVars,
                    NEW c \in Control, NEW s \in Stream,
                    of'[s] = c, open'[s]
             PROVE  StageAt(c, s)'
  BY DEF StreamsStaged
<1>1. open[s] /\ [Next]_vars
  BY RunStep, OpenStep DEF Typed, runVars
<1>2. CASE UNCHANGED runVars
  <2>1. UNCHANGED <<pageVars, vars, wire, doneMsg, readFailed>> /\ of[s] = c
    BY <1>2 DEF runVars, netVars, vars, streamVars
  <2>2. StageKept(c, s)
    BY <2>1, StageFrame
    DEF Row, Counted, pageVars, vars, streamVars, downVars, upVars
  <2> QED
    BY <1>1, <2>1, <2>2, KeptStage DEF StreamsStaged
<1>3. ASSUME NEW d \in Control, ControlAcked(d) PROVE FALSE
  <2>1. of[s] = c /\ phase[c] = "idle"
    BY <1>3 DEF ControlAcked, Claim, streamVars
  <2> QED
    BY <2>1 DEF RunIsJoined
<1>4. ASSUME NEW d \in Control, PageStep(d) \/ PressStop(d)
      PROVE  StageAt(c, s)'
  <2>1. of[s] = c
    BY <1>4, PageFrame DEF vars, streamVars
  <2>2. phase[d] # "idle"
    BY <1>4
    DEF PageStep, LatencyBegins, LatencyEnds, DownloadEnds, UploadEnds,
        UploadTimesOut, Reported, ReportedNothing, StoredTimesOut,
        AbortUnwinds, ControlClosed, PressStop, Running, RunningPhases
  <2>3. c = d
    BY <2>1, <2>2 DEF RunIsJoined
  <2> QED
    BY <1>1, <1>4, <2>1, <2>3, PageStages
<1>5. ASSUME NEW d \in Control, NEW t \in Stream, PageStreamStep(d, t)
      PROVE  StageAt(c, s)'
  <2>1. of[s] = c
    BY <1>5, PageFrame DEF vars, streamVars
  <2>2. phase[d] # "idle"
    BY <1>5
    DEF PageStreamStep, OpenStream, StreamAcked, OpenFails, PumpEnds, DownDone,
        StreamClosed, Running, RunningPhases, RunIsJoined
  <2>3. c = d
    BY <2>1, <2>2 DEF RunIsJoined
  <2> QED
    BY <1>1, <1>5, <2>1, <2>3, PageStreamStages
<1>6. CASE ServerStep
  <2>1. CASE of[s] = c
    BY <1>1, <1>6, <2>1, JoinedStages
  <2>2. CASE of[s] # c
    <3>1. \E d \in Control : FindSession(s, d)
      BY <1>1, <2>2, JoinStep DEF Typed
    <3>2. FindSession(s, c)
      BY <3>1 DEF FindSession, Typed, TypeOK
    <3> QED
      BY <1>6, <3>2, JoiningStages
  <2> QED
    BY <2>1, <2>2
<1> QED
  BY <1>2, <1>3, <1>4, <1>5, <1>6, RunCases

-----------------------------------------------------------------------------
(* The theorems of a run *)

\* What Sessions' theorems say of a run of the page.
LEMMA RunTyped == RunSpec => []Typed
<1>1. TypeOK /\ TestRunTypeOK /\ StreamsJoined => Typed
  BY TypeParts DEF Typed
<1> QED
  BY <1>1, TestRunImplementsSessions, TestRunTypeCorrect, TypeCorrect,
     StreamsJoinedHolds, PTL

\* The invariant holds when the page has opened nothing yet.
LEMMA RunInvInit == RunInit => RunInv
<1> SUFFICES ASSUME RunInit PROVE RunInv
  OBVIOUS
<1> USE DEF RunInit, Init
<1>1. RunIsJoined
  BY SessionsAssumption DEF RunIsJoined
<1>2. LoadIsLinked
  BY SessionsAssumption DEF LoadIsLinked, Loading
<1>3. RowsAreOwn /\ ClosedIsClosed
  BY DEF RowsAreOwn, ClosedIsClosed
<1>4. StreamsStaged
  BY SessionsAssumption DEF StreamsStaged
<1>5. FinalIsOnce /\ ShownIsStored
  BY DEF FinalIsOnce, FinalSent, ShownIsStored
<1>6. DownloadIsTold
  BY DEF DownloadIsTold
<1> QED
  BY <1>1, <1>2, <1>3, <1>4, <1>5, <1>6 DEF RunInv

\* One session runs, its phases run on linked streams, every open stream is at
\* a stage the page's phase allows, FINAL goes out once and after RESULT, the
\* page shows nothing but the stored run, and it leaves the download only as far
\* as it has been told of every stream: the inductive invariant of a run,
\* whatever drops and however the messages interleave (app.js:1186-1263,
\* 1328-1401; server.go:486-728).
THEOREM RunInvHolds == RunSpec => []RunInv
<1>1. Typed /\ FiguresInv /\ RunInv /\ [RunNext]_runVars => RunInv'
  <2> SUFFICES ASSUME Typed, FiguresInv, RunInv, [RunNext]_runVars
               PROVE  RunInv'
    OBVIOUS
  <2>1. [Next]_vars
    BY RunStep DEF runVars
  <2>2. RowsAreOwn'
    BY <2>1, RowsNext DEF Typed, RunInv
  <2> QED
    BY <2>2, RunJoinedNext, LoadNext, ClosedNext, StagesNext, FinalNext,
       ShownNext, ToldNext
    DEF RunInv
<1> QED
  BY <1>1, RunInvInit, RunTyped, FiguresHold, TestRunImplementsSessions, PTL
  DEF RunSpec

\* The page keeps to what Sessions assumes of it: no message of a run arrives
\* at a stream, and no FINAL at a session, in a state the server's handlers do
\* not expect (app.js:1004-1023, 1068-1084, 1186-1263; server.go:506-531).
THEOREM PageKeepsRulesHolds == RunSpec => []PageKeepsRules
<1>1. Typed /\ RunInv => PageKeepsRules
  <2> SUFFICES ASSUME Typed, RunInv PROVE PageKeepsRules
    OBVIOUS
  <2>1. ASSUME NEW s \in Stream, Listening(s), ~readFailed[s], wire[s] # <<>>
        PROVE  \/ /\ Head(wire[s]) = "DOWN_START"
                  /\ of[s] \in Downloads
                  /\ idx[s] \notin dlResults[of[s]] \cup upTotal[of[s]]
               \/ /\ Head(wire[s]) = "UP_START"
                  /\ of[s] \in Uploads
                  /\ of[s] \in Downloads => idx[s] \in dlResults[of[s]]
                  /\ idx[s] \notin upTotal[of[s]]
    <3> DEFINE c == of[s]
    <3>1. c \in Control /\ strm[s] = "idle" /\ open[s]
      BY <2>1 DEF Listening, Typed, StreamsJoined
    <3>2. StageAt(c, s) /\ phase[c] \in Phase \ {"idle"}
      BY <3>1, StagedPhase DEF RunInv, StreamsStaged
    <3> HIDE DEF c
    <3>3. CASE Head(wire[s]) = "DOWN_START"
      <4>1. DownAsked(c, s)
        BY <2>1, <3>2, <3>3, HeadStage
      <4> QED
        BY <3>3, <4>1 DEF DownAsked, Row, Counted, c
    <3>4. CASE Head(wire[s]) = "UP_START"
      <4>1. UpAsked(c, s)
        BY <2>1, <3>2, <3>4, HeadStage
      <4> QED
        BY <3>4, <4>1 DEF UpAsked, Row, Counted, c
    <3>5. Head(wire[s]) # "UP_DONE"
      <4>1. ~Uping(c, s) /\ ~Upped(c, s)
        BY <2>1, <3>1 DEF Uping, Upped
      <4> QED
        BY <2>1, <3>2, <4>1, HeadStage
    <3> QED
      BY <2>1, <3>2, <3>3, <3>4, <3>5, HeadStage DEF StreamMessage
  <2>2. ASSUME NEW c \in Control, Heads(controlWire[c], "FINAL"), c \in Uploads
        PROVE  result[c] # NoFigures
    <3>1. 1 \in FinalSent(c)
      BY <2>2 DEF FinalSent, Heads, Typed, WireType
    <3> QED
      BY <2>2, <3>1 DEF RunInv, FinalIsOnce
  <2> QED
    BY <2>1, <2>2 DEF PageKeepsRules
<1> QED
  BY <1>1, RunTyped, RunInvHolds, PTL

\* The list of streams a phase's header carries is complete: while any stream
\* of a session is in a phase, all of them are registered or gone
\* (server.go:956-958).
THEOREM HeaderListsEveryStreamHolds == RunSpec => []HeaderListsEveryStream
<1>1. Typed /\ RunInv /\ CountersCount => HeaderListsEveryStream
  <2> SUFFICES ASSUME Typed, RunInv, CountersCount, NEW c \in Control,
                      dlActive[c] + upActive[c] > 0, NEW s \in Stream
               PROVE  strm[s] \notin {"hello", "found"}
    BY DEF HeaderListsEveryStream
  <2>1. dlActive[c] # 0 \/ upActive[c] # 0
    BY DEF Typed, TypeOK
  <2>2. Downloading(c) # {} \/ Uploading(c) # {}
    BY <2>1, FS_EmptySet DEF CountersCount
  <2>3. PICK t \in Stream : of[t] = c /\ strm[t] \in Loading
    BY <2>2 DEF Downloading, Uploading, Loading
  <2>4. linked[c] = Stream
    BY <2>3 DEF RunInv, LoadIsLinked
  <2> QED
    BY <2>4 DEF RunInv, RunIsJoined
<1> QED
  BY <1>1, RunTyped, RunInvHolds, TestRunImplementsSessions,
     CountersCountHolds, PTL

\* What the page shows is the stored run, with a row of every stream of the
\* download but those it has heard close and with the figures of RESULT; a page
\* that is done and shows nothing has lost its control connection
\* (app.js:1041-1048, 1220-1254, 1328-1334, 1378, 1405-1409;
\* server.go:731-845).
THEOREM ReportIsMeasuredHolds == RunSpec => []ReportIsMeasured
<1>1. Typed /\ FiguresInv /\ RunInv /\ StoredRunMatchesResult
        => ReportIsMeasured
  <2> SUFFICES ASSUME Typed, FiguresInv, RunInv, StoredRunMatchesResult,
                      NEW c \in Control
               PROVE  /\ phase[c] = "done" /\ shown[c] = NoFigures
                           => aborted[c]
                      /\ shown[c] # NoFigures =>
                           /\ phase[c] = "done" /\ shown[c] = stored[c]
                           /\ c \in Downloads =>
                                \A s \in Stream :
                                  idx[s] \in dlResults[c] \/ closedSeen[s]
                           /\ c \in Uploads =>
                                /\ shown[c].stats = result[c]
                                /\ result[c] # {}
                                /\ result[c] \subseteq shown[c].total
    BY DEF ReportIsMeasured
  <2>1. phase[c] = "done" /\ shown[c] = NoFigures => aborted[c]
    BY DEF RunInv, ShownIsStored
  <2>2. ASSUME shown[c] # NoFigures
        PROVE  /\ phase[c] = "done" /\ shown[c] = stored[c]
               /\ stored[c] # NoFigures
    BY <2>2 DEF RunInv, ShownIsStored
  <2>3. ASSUME shown[c] # NoFigures, c \in Downloads, NEW s \in Stream
        PROVE  idx[s] \in dlResults[c] \/ closedSeen[s]
    BY <2>2, <2>3 DEF RunInv, DownloadIsTold, Told, Row
  <2>4. ASSUME shown[c] # NoFigures, c \in Uploads
        PROVE  /\ shown[c].stats = result[c]
               /\ result[c] # {} /\ result[c] \subseteq shown[c].total
    <3>1. /\ result[c] # NoFigures /\ stored[c].stats = result[c]
          /\ result[c] \subseteq stored[c].total
      BY <2>2, <2>4 DEF StoredRunMatchesResult
    <3>2. result[c] # {}
      BY <3>1 DEF FiguresInv, FiguresOrdered, FiguresAt
    <3> QED
      BY <2>2, <2>4, <3>1, <3>2
  <2> QED
    BY <2>1, <2>2, <2>3, <2>4
<1> QED
  BY <1>1, RunTyped, RunInvHolds, FiguresHold, TestRunImplementsSessions,
     StoredRunMatchesResultHolds, PTL

\* What a run leaves on the server is right whatever happens to its
\* connections: the lock has one owner, every stream that has joined is in the
\* map release is about to copy, the counters are exact, one stream reports, and
\* the figures stored are those of RESULT (server.go:422-900, 948-1106).
COROLLARY RunKeepsServer ==
  RunSpec => /\ []LockOwner
             /\ []StreamsListed
             /\ []CountersCount
             /\ []OneReporter
             /\ []StoredRunMatchesResult
BY TestRunImplementsSessions, LockOwnerHolds, StreamsListedHolds,
   CountersCountHolds, OneReporterHolds, StoredRunMatchesResultHolds, PTL
=============================================================================
