--------------------------- MODULE UploadWindows ---------------------------
(***************************************************************************)
(* How the server measures an upload (recvUpload and endUpload in          *)
(* src/server.go): each stream buckets its frames into windows that are    *)
(* counted from a start all streams share, and the last stream to end adds *)
(* the series up window by window.  Time is the number of windows that     *)
(* have gone by.  The two critical sections of endUpload are one action    *)
(* here; Sessions keeps them apart.                                        *)
(***************************************************************************)
EXTENDS Stats, Sequences

CONSTANTS Stream,      \* the streams of a session
          MaxWindow,   \* bound: the last window in which frames arrive
          MaxFrames    \* bound: the frames of a stream in one window

ASSUME UploadAssumption ==
  IsFiniteSet(Stream) /\ MaxWindow \in Nat /\ MaxFrames \in Nat

VARIABLES elapsed,    \* whole windows since Session.upStart
          receiving,  \* stream: "waiting", "receiving" or "ended"
          recv,       \* the local variables of recvUpload, by stream
          upSamples,  \* Session.upSamples, of the streams that have ended
          upFinal,    \* Session.upFinal
          upResult,   \* what RESULT carries
          arrived     \* history: the frames of a stream in each window

uploadVars ==
  <<elapsed, receiving, recv, upSamples, upFinal, upResult, arrived>>

Window == 0 .. MaxWindow

Sample == [window : Nat, frames : Nat]

Recv == [cur : Window, winFrames : Nat, total : Nat, samples : Seq(Sample)]

Fresh == [cur |-> 0, winFrames |-> 0, total |-> 0, samples |-> <<>>]

NoResult == [streams |-> {}, total |-> 0, series |-> NoSamples]

UploadInit ==
  /\ elapsed = 0
  /\ receiving = [s \in Stream |-> "waiting"]
  /\ recv = [s \in Stream |-> Fresh]
  /\ upSamples = [s \in {} |-> <<>>]
  /\ upFinal = FALSE
  /\ upResult = NoResult
  /\ arrived = [s \in Stream |-> [w \in Window |-> 0]]

Active == {s \in Stream : receiving[s] = "receiving"}
Ended  == {s \in Stream : receiving[s] = "ended"}

-----------------------------------------------------------------------------
\* Time goes by once the first stream has set the start.
Tick ==
  /\ Active # {}
  /\ elapsed < MaxWindow
  /\ elapsed' = elapsed + 1
  /\ UNCHANGED <<receiving, recv, upSamples, upFinal, upResult, arrived>>

\* beginUpload
Begin(s) ==
  /\ receiving[s] = "waiting"
  /\ receiving' = [receiving EXCEPT ![s] = "receiving"]
  /\ UNCHANGED <<elapsed, recv, upSamples, upFinal, upResult, arrived>>

\* Every window from the current one up to upTo, which becomes the current one.
\* Those in between are empty.
CloseWindows(r, upTo) ==
  LET closed == [k \in 1 .. upTo - r.cur |->
                   [window |-> r.cur + k - 1,
                    frames |-> IF k = 1 THEN r.winFrames ELSE 0]]
  IN [cur |-> upTo, winFrames |-> 0, total |-> r.total,
      samples |-> r.samples \o closed]

\* One more frame, in the current window.
CountFrame(r) ==
  [cur |-> r.cur, winFrames |-> r.winFrames + 1, total |-> r.total + 1,
   samples |-> r.samples]

\* Faulty variant: a frame is counted before the windows are closed.
ReceiveThenClose(s) ==
  LET counted == CountFrame(recv[s])
  IN /\ receiving[s] = "receiving"
     /\ arrived[s][elapsed] < MaxFrames
     /\ recv' = [recv EXCEPT ![s] =
                   IF elapsed > counted.cur THEN CloseWindows(counted, elapsed)
                   ELSE counted]
     /\ arrived' = [arrived EXCEPT ![s][elapsed] = @ + 1]
     /\ UNCHANGED <<elapsed, receiving, upSamples, upFinal, upResult>>

\* A frame arrives.
Receive(s) ==
  LET closed == IF elapsed > recv[s].cur THEN CloseWindows(recv[s], elapsed)
                ELSE recv[s]
  IN /\ receiving[s] = "receiving"
     /\ arrived[s][elapsed] < MaxFrames
     /\ recv' = [recv EXCEPT ![s] = CountFrame(closed)]
     /\ arrived' = [arrived EXCEPT ![s][elapsed] = @ + 1]
     /\ UNCHANGED <<elapsed, receiving, upSamples, upFinal, upResult>>

\* RESULT, as the last stream to end computes it.
ResultOf(perStream, totals) ==
  [streams |-> DOMAIN perStream,
   total   |-> SumFunctionOnSet(totals, DOMAIN perStream),
   series  |-> TrimWarmup(TrimTail(AggregateSamples(perStream)))]

\* A stream ends, by UP_DONE, an abort, an error or a deadline.  The window it
\* is in is dropped.
End(s) ==
  LET ended == [t \in DOMAIN upSamples \cup {s} |-> recv[t].samples]
      last == Active = {s} /\ ~upFinal
  IN /\ receiving[s] = "receiving"
     /\ receiving' = [receiving EXCEPT ![s] = "ended"]
     /\ upSamples' = ended
     /\ upFinal' = (upFinal \/ last)
     /\ upResult' = IF last
                    THEN ResultOf(ended, [t \in Stream |-> recv[t].total])
                    ELSE upResult
     /\ UNCHANGED <<elapsed, recv, arrived>>

UploadNext == Tick \/ \E s \in Stream : Begin(s) \/ Receive(s) \/ End(s)

UploadSpec == UploadInit /\ [][UploadNext]_uploadVars

-----------------------------------------------------------------------------
(* Properties *)

UploadTypeOK ==
  /\ elapsed \in Window
  /\ receiving \in [Stream -> {"waiting", "receiving", "ended"}]
  /\ recv \in [Stream -> Recv]
  /\ arrived \in [Stream -> [Window -> Nat]]
  /\ DOMAIN upSamples = Ended

\* The locals of a stream against the frames that arrived on it.
Exact(r, frames) ==
  /\ Len(r.samples) = r.cur
  /\ \A k \in 1 .. r.cur :
        r.samples[k] = [window |-> k - 1, frames |-> frames[k - 1]]
  /\ r.winFrames = frames[r.cur]
  /\ \A w \in Window : w > r.cur => frames[w] = 0

\* A stream's closed windows are contiguous from the start it shares with the
\* others, and each has exactly the frames that arrived in it, whatever gaps
\* there were and however late the stream began: no frame is counted twice, none
\* moves to a neighbouring window, and those of the open window are kept apart
\* (recvUpload).
EveryFrameInItsWindow ==
  \A s \in Stream :
     recv[s].cur <= elapsed /\ Exact(recv[s], arrived[s])

\* The frames of window w that arrived on streams that had a later frame: a
\* stream's own last window is never closed.
Counted(streams, w) ==
  SumFunctionOnSet([s \in Stream |-> arrived[s][w]],
                   {s \in streams : recv[s].cur > w})

\* The measured series has every window between the warm-up and the last one
\* that any stream closed, that one excluded; each is the sum of what the
\* streams delivered in it, but for a stream that delivered nothing afterwards;
\* and the total misses nothing (endUpload).
ResultIsExact ==
  upFinal =>
    LET streams == upResult.streams
        closed == Max({recv[s].cur : s \in streams})
        total == [s \in Stream |-> SumFunction(arrived[s])]
    IN /\ DOMAIN upResult.series =
             {w \in 0 .. closed - 2 : AtMs(w) > WarmupMs}
       /\ \A w \in DOMAIN upResult.series :
             upResult.series[w] = Counted(streams, w)
       /\ upResult.total = SumFunctionOnSet(total, streams)
=============================================================================
