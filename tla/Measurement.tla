---------------------------- MODULE Measurement ----------------------------
(***************************************************************************)
(* What a run measures, from the page's first ping to the stored figures:  *)
(* the page (src/web/app.js) counts pings by phase and downloaded frames   *)
(* by window, the server measures the upload (UploadWindows) and reduces   *)
(* what FINAL brings to figures, a grade and a verdict (handleFinal in     *)
(* src/server.go).  Who may begin what is in TestRun; here the phases come *)
(* in their order and the run is never aborted, because an aborted run     *)
(* sends no FINAL.  That the page was hidden, which makes a run unreliable *)
(* by itself, is left out.                                                 *)
(***************************************************************************)
EXTENDS UploadWindows

CONSTANTS MaxPings,  \* bound: the pings under load
          RttMs,     \* bound: round trips
          LagMs      \* bound: how late the page's timer may fire (p95)

ASSUME MeasurementAssumption == RttMs \subseteq Nat /\ LagMs \subseteq Nat

VARIABLES plan,         \* the run's direction and streams, and its bounds
          phase,        \* run.phase
          wire,         \* the pings in flight, by the phase that sent them
          sent,         \* run.sent
          replies,      \* the length of run.rtt, by phase
          downStream,   \* stream: "waiting", "loading", "done" or "closed"
          delivered,    \* stream: frames of the download
          downElapsed,  \* whole windows since run.down.start
          down,         \* run.down: windows, total, serverBytes
          caveats,      \* run.caveats
          msg,          \* FINAL on its way
          run           \* the Run that is stored

pageVars == <<plan, phase, wire, sent, replies, downStream, delivered,
              downElapsed, down, caveats>>
vars == <<uploadVars, pageVars, msg, run>>

Direction == {"download", "upload", "both"}
Bucket    == {"idle", "download", "upload"}
Phase     == {"latency", "download", "upload", "final", "stored"}

Plan == [direction : Direction, streams : (SUBSET Stream) \ {{}},
         pings : 1 .. MaxPings, windows : Window]

NoMsg == [caveats |-> {}]
NoRun == [caveats |-> {}]

Nothing == [windows |-> NoSamples, total |-> 0, serverFrames |-> 0]

NoPings == [b \in Bucket |-> 0]

MeasurementInit ==
  /\ UploadInit
  /\ plan \in Plan
  /\ phase = "latency"
  /\ wire = <<>>
  /\ sent = NoPings
  /\ replies = NoPings
  /\ downStream = [s \in Stream |-> "waiting"]
  /\ delivered = [s \in Stream |-> 0]
  /\ downElapsed = 0
  /\ down = Nothing
  /\ caveats = {}
  /\ msg = NoMsg
  /\ run = NoRun

Loading == {s \in Stream : downStream[s] = "loading"}

bucketName == IF phase \in {"download", "upload"} THEN phase ELSE "idle"

-----------------------------------------------------------------------------
(* Latency: one ping after the other while the link is idle, each awaited  *)
(* for five seconds at most, and a ping every 100 ms under load.  Bounds:  *)
(* one ping that is idle, plan.pings in each load phase.                   *)

\* stopPinger comes with the last stream's DOWN_DONE, and with RESULT.
SendPing ==
  /\ phase \in {"latency", "download", "upload"}
  /\ phase = "download" => Loading # {}
  /\ sent[bucketName] < (IF phase = "latency" THEN 1 ELSE plan.pings)
  /\ sent' = [sent EXCEPT ![bucketName] = @ + 1]
  /\ wire' = Append(wire, bucketName)
  /\ UNCHANGED <<uploadVars, plan, phase, replies, downStream, delivered,
                 downElapsed, down, caveats, msg, run>>

\* Faulty variant: a reply is credited to the phase it comes in.
OnPongByArrival ==
  /\ phase \in {"latency", "download", "upload"}
  /\ wire # <<>>
  /\ wire' = Tail(wire)
  /\ replies' = [replies EXCEPT ![bucketName] = @ + 1]
  /\ UNCHANGED <<uploadVars, plan, phase, sent, downStream, delivered,
                 downElapsed, down, caveats, msg, run>>

\* onPong: the reply is credited to the phase its ping was sent in.
OnPong ==
  /\ phase \in {"latency", "download", "upload"}
  /\ wire # <<>>
  /\ wire' = Tail(wire)
  /\ replies' = [replies EXCEPT ![Head(wire)] = @ + 1]
  /\ UNCHANGED <<uploadVars, plan, phase, sent, downStream, delivered,
                 downElapsed, down, caveats, msg, run>>

-----------------------------------------------------------------------------
(* Download *)

BeginDownload ==
  /\ phase = "latency"
  /\ plan.direction # "upload"
  /\ phase' = "download"
  /\ downStream' = [s \in Stream |->
                      IF s \in plan.streams THEN "loading" ELSE "waiting"]
  /\ UNCHANGED <<uploadVars, plan, wire, sent, replies, delivered, downElapsed,
                 down, caveats, msg, run>>

DownTick ==
  /\ Loading # {}
  /\ downElapsed < plan.windows
  /\ downElapsed' = downElapsed + 1
  /\ UNCHANGED <<uploadVars, plan, phase, wire, sent, replies, downStream,
                 delivered, down, caveats, msg, run>>

\* DOWN_DATA: a frame arrives.  The bound is on the frames of a window.
DownData(s) ==
  LET w == downElapsed
      tally == IF w \in DOMAIN down.windows THEN down.windows[w] ELSE 0
  IN /\ downStream[s] = "loading"
     /\ tally < MaxFrames
     /\ delivered' = [delivered EXCEPT ![s] = @ + 1]
     /\ down' = [down EXCEPT
                   !.total = @ + 1,
                   !.windows = [v \in DOMAIN @ \cup {w} |->
                                  IF v = w THEN tally + 1 ELSE @[v]]]
     /\ UNCHANGED <<uploadVars, plan, phase, wire, sent, replies, downStream,
                    downElapsed, caveats, msg, run>>

\* DOWN_DONE: it follows all that the server has sent on the stream, so what the
\* server counted is what the page has received.
DownDone(s) ==
  /\ downStream[s] = "loading"
  /\ downStream' = [downStream EXCEPT ![s] = "done"]
  /\ down' = [down EXCEPT !.serverFrames = @ + delivered[s]]
  /\ UNCHANGED <<uploadVars, plan, phase, wire, sent, replies, delivered,
                 downElapsed, caveats, msg, run>>

\* Faulty variant: the close of a stream is taken for its DOWN_DONE.
DownClosedSilently(s) ==
  /\ downStream[s] = "loading"
  /\ downStream' = [downStream EXCEPT ![s] = "closed"]
  /\ UNCHANGED <<uploadVars, plan, phase, wire, sent, replies, delivered,
                 downElapsed, down, caveats, msg, run>>

\* The stream drops instead: downDone resolves without figures.
DownClosed(s) ==
  /\ downStream[s] = "loading"
  /\ downStream' = [downStream EXCEPT ![s] = "closed"]
  /\ caveats' = caveats \cup {"stream closed"}
  /\ UNCHANGED <<uploadVars, plan, phase, wire, sent, replies, delivered,
                 downElapsed, down, msg, run>>

-----------------------------------------------------------------------------
(* Upload *)

BeginUpload ==
  /\ IF plan.direction = "upload" THEN phase = "latency"
     ELSE phase = "download" /\ Loading = {}
  /\ plan.direction # "download"
  /\ phase' = "upload"
  /\ UNCHANGED <<uploadVars, plan, wire, sent, replies, downStream, delivered,
                 downElapsed, down, caveats, msg, run>>

UploadStep ==
  /\ phase = "upload"
  /\ \/ Tick /\ elapsed < plan.windows
     \/ \E s \in plan.streams : Begin(s) \/ Receive(s) \/ End(s)
  /\ UNCHANGED <<pageVars, msg, run>>

-----------------------------------------------------------------------------
(* FINAL *)

\* Faulty variant: windows in which nothing arrived are left out.
BuildDownloadSamplesNoGaps(windows) == windows

\* The tally as a contiguous series: a window in which nothing arrived is empty.
buildDownloadSamples(windows) ==
  IF DOMAIN windows = {} THEN NoSamples
  ELSE [w \in 0 .. Max(DOMAIN windows) |->
          IF w \in DOMAIN windows THEN windows[w] ELSE 0]

\* The round trips of n replies: all but the last as short as any.
RoundTrips(n) ==
  {[i \in 1 .. n |-> IF i = n THEN slow ELSE Min(RttMs)] : slow \in RttMs}

\* sendFinal, when the last phase of the run is over; RESULT ends the upload.
\* What is behind is forgotten, which keeps the instance small.
SendFinal ==
  /\ IF plan.direction = "download" THEN phase = "download" /\ Loading = {}
     ELSE phase = "upload" /\ upFinal
  /\ phase' = "final"
  /\ \E idle \in RoundTrips(replies["idle"]),
        dl \in RoundTrips(replies["download"]),
        ul \in RoundTrips(replies["upload"]), lag \in LagMs :
       msg' = [samples |-> buildDownloadSamples(down.windows),
               total |-> down.total, serverFrames |-> down.serverFrames,
               latency |->
                 [idle |-> SummarizeLatency(idle, sent["idle"]),
                  download |-> SummarizeLatency(dl, sent["download"]),
                  upload |-> SummarizeLatency(ul, sent["upload"]),
                  lag |-> lag],
               caveats |-> caveats]
  /\ wire' = <<>> /\ sent' = NoPings /\ replies' = NoPings
  /\ delivered' = [s \in Stream |-> 0]
  /\ downStream' = [s \in Stream |-> "waiting"]
  /\ downElapsed' = 0 /\ down' = Nothing
  /\ UNCHANGED <<uploadVars, plan, caveats, run>>

\* handleFinal, up to the stored run.
HandleFinal ==
  LET download == Summarize(TrimWarmup(TrimTail(msg.samples)))
      upload == Summarize(upResult.series)
      bb == ComputeBufferbloat(msg.latency, Max({download.p95, upload.p95}))
      doubted == ~bb.trustworthy /\ bb.grade # "?"
      differ == /\ msg.serverFrames > 0 /\ msg.total > 0
                /\ Differ(msg.total, msg.serverFrames)
  IN /\ phase = "final"
     /\ phase' = "stored"
     /\ run' = [download |-> download, upload |-> upload,
                latency |-> msg.latency, bufferbloat |-> bb,
                reliable |-> ~doubted,
                verdict |-> BuildVerdict(download, upload, bb, plan.direction),
                caveats |-> msg.caveats
                  \cup (IF differ THEN {"server sent more"} ELSE {})
                  \cup (IF doubted THEN {CaveatReason(bb)} ELSE {})]
     /\ msg' = NoMsg
     /\ UNCHANGED <<uploadVars, plan, wire, sent, replies, downStream,
                    delivered, downElapsed, down, caveats>>

MeasurementNext ==
  \/ SendPing \/ OnPong
  \/ BeginDownload \/ DownTick
  \/ \E s \in Stream : DownData(s) \/ DownDone(s) \/ DownClosed(s)
  \/ BeginUpload \/ UploadStep
  \/ SendFinal \/ HandleFinal

MeasurementSpec == MeasurementInit /\ [][MeasurementNext]_vars

-----------------------------------------------------------------------------
(* Properties *)

\* Every ping is either still in flight or counted as a reply of the phase that
\* sent it, also when its reply comes after the phase boundary: the idle
\* baseline and the latency under load never take each other's round trips, and
\* no phase has more replies than pings (sendPingOn, onPong).
RepliesCountedWhereSent ==
  phase \in {"latency", "download", "upload"} =>
    \A b \in Bucket :
       sent[b] = replies[b] + Cardinality({i \in DOMAIN wire : wire[i] = b})

\* What the page reports of a download is a series without holes from its first
\* window on, and it adds up to the frames it received, on whichever stream and
\* however long nothing came (bindStream, buildDownloadSamples).
DownloadIsComplete ==
  phase = "final" =>
    /\ DOMAIN msg.samples = 0 .. Cardinality(DOMAIN msg.samples) - 1
    /\ SumFunction(msg.samples) = msg.total

\* The page and the server disagree on what was downloaded only when a stream
\* has dropped, and the page has said so: DOWN_DONE never overtakes the frames
\* it counts (handleFinal's DownloadDeltaPct).
DropsExplainDifference ==
  phase = "stored" /\ "server sent more" \in run.caveats =>
    "stream closed" \in run.caveats

\* The verdict gives a figure for exactly the directions that were measured:
\* none for a direction the run did not have, none for one whose windows were
\* all trimmed away, and no measured one is left out (BuildVerdict).
FiguresAreMeasured ==
  phase = "stored" =>
    run.verdict.figures =
      {d \in {"download", "upload"} :
         /\ plan.direction \in {d, "both"}
         /\ run[d].samples > 0}

\* Ways in which a figure of latency under load describes the measuring device.
Doubts ==
  {r \in {"answered", "buffer", "lag"} :
     LET late == run.bufferbloat.delta
     IN CASE r = "answered" ->
               \E d \in {"download", "upload"} :
                  2 * run.latency[d].count < run.latency[d].sent
          [] r = "buffer" ->
               \E d \in {"download", "upload"} :
                  run[d].p95 * late * 125 > 256 * 1024 * 1024
          [] r = "lag" ->
               run.latency.lag >= 15 /\ 2 * run.latency.lag >= late}

\* The network is blamed for its latency only on evidence: a grade of C or worse
\* stands only if nothing speaks against it, and whenever it does not stand the
\* run is marked unreliable and both the caveat and the verdict name something
\* that really was the case (ComputeBufferbloat, handleFinal, BuildVerdict).
BlameIsBacked ==
  phase = "stored" /\ run.bufferbloat.grade \in {"C", "D", "F"}
    /\ run.verdict.figures # {} =>
    IF run.verdict.latency = "trusted" THEN Doubts = {}
    ELSE /\ ~run.reliable
         /\ run.verdict.latency \in Doubts
         /\ run.caveats \cap Doubts # {}
=============================================================================
