---------------------------- MODULE UploadProofs ----------------------------
(***************************************************************************)
(* Theorems about UploadWindows, for any number of streams and windows:    *)
(* what each stream counts, and what the sum over the streams comes to.    *)
(***************************************************************************)
EXTENDS UploadWindows, StatsProofs, SequenceTheorems

-----------------------------------------------------------------------------
(* One stream *)

\* Closing windows keeps what has been counted exact: the open window gets the
\* frames that arrived in it, the windows after it none.
LEMMA CloseWindowsExact ==
  ASSUME NEW r \in Recv, NEW upTo \in Window, r.cur < upTo,
         NEW frames \in [Window -> Nat], Exact(r, frames)
  PROVE  /\ CloseWindows(r, upTo) \in Recv
         /\ CloseWindows(r, upTo).cur = upTo
         /\ Exact(CloseWindows(r, upTo), frames)
<1> DEFINE more == [k \in 1 .. upTo - r.cur |->
                      [window |-> r.cur + k - 1,
                       frames |-> IF k = 1 THEN r.winFrames ELSE 0]]
           all == r.samples \o more
           closed == CloseWindows(r, upTo)
<1>1. /\ r.cur \in Nat /\ upTo \in Nat /\ MaxWindow \in Nat
      /\ r.samples \in Seq(Sample) /\ r.winFrames \in Nat /\ r.total \in Nat
  BY UploadAssumption DEF Recv, Window
<1>2. upTo - r.cur \in Nat
  BY <1>1
<1>3. more \in Seq(Sample) /\ Len(more) = upTo - r.cur
  <2>1. \A k \in 1 .. upTo - r.cur : more[k] \in Sample
    BY <1>1, <1>2 DEF Sample
  <2>2. more \in [1 .. upTo - r.cur -> Sample]
    BY <2>1
  <2> HIDE DEF more
  <2>3. more \in Seq(Sample)
    BY <2>2, <1>2, SeqDef
  <2>4. DOMAIN more = 1 .. Len(more) /\ Len(more) \in Nat
    BY <2>3, LenProperties
  <2> QED
    BY <2>2, <2>3, <2>4, <1>2
<1>4. closed = [cur |-> upTo, winFrames |-> 0, total |-> r.total,
                samples |-> all]
  BY DEF CloseWindows, Recv
<1>5. /\ all \in Seq(Sample)
      /\ Len(all) = upTo
      /\ \A k \in 1 .. upTo :
            all[k] = IF k <= r.cur THEN r.samples[k] ELSE more[k - r.cur]
  <2>1. Len(r.samples) = r.cur
    BY DEF Exact
  <2> HIDE DEF more
  <2>2. /\ all \in Seq(Sample)
        /\ Len(all) = Len(r.samples) + Len(more)
        /\ \A k \in 1 .. Len(r.samples) + Len(more) :
              all[k] = IF k <= Len(r.samples) THEN r.samples[k]
                       ELSE more[k - Len(r.samples)]
    BY <1>1, <1>3, ConcatProperties
  <2>3. Len(r.samples) + Len(more) = upTo
    BY <2>1, <1>1, <1>3
  <2> HIDE DEF all
  <2> QED
    BY <2>1, <2>2, <2>3
<1>6. \A k \in 1 .. upTo - r.cur :
         more[k] = [window |-> r.cur + k - 1,
                    frames |-> IF k = 1 THEN r.winFrames ELSE 0]
  OBVIOUS
<1> HIDE DEF more, all, closed
<1>7. closed \in Recv
  BY <1>1, <1>4, <1>5 DEF Recv
<1>8. ASSUME NEW k \in 1 .. upTo
      PROVE  all[k] = [window |-> k - 1, frames |-> frames[k - 1]]
  <2>1. CASE k <= r.cur
    <3>1. k \in 1 .. r.cur
      BY <2>1, <1>1
    <3>2. all[k] = r.samples[k]
      BY <2>1, <1>5
    <3> QED
      BY <3>1, <3>2 DEF Exact
  <2>2. CASE k = r.cur + 1
    <3>1. k - r.cur = 1 /\ k - r.cur \in 1 .. upTo - r.cur /\ ~(k <= r.cur)
      BY <2>2, <1>1
    <3>2. all[k] = [window |-> r.cur + 1 - 1, frames |-> r.winFrames]
      BY <3>1, <1>5, <1>6
    <3> QED
      BY <3>2, <2>2, <1>1 DEF Exact
  <2>3. CASE k > r.cur + 1
    <3>1. /\ k - r.cur \in 1 .. upTo - r.cur /\ k - r.cur # 1
          /\ ~(k <= r.cur) /\ r.cur + (k - r.cur) - 1 = k - 1
      BY <2>3, <1>1
    <3>2. all[k] = [window |-> k - 1, frames |-> 0]
      BY <3>1, <1>5, <1>6
    <3>3. k - 1 \in Window /\ k - 1 > r.cur
      BY <2>3, <1>1 DEF Window
    <3> QED
      BY <3>2, <3>3 DEF Exact
  <2> QED
    BY <2>1, <2>2, <2>3, <1>1
<1>9. Exact(closed, frames)
  <2>1. frames[upTo] = 0
    BY <1>1 DEF Exact
  <2>2. \A w \in Window : w > upTo => frames[w] = 0
    BY <1>1 DEF Exact, Window
  <2>3. /\ closed.cur = upTo /\ closed.winFrames = 0
        /\ closed.samples = all
    BY <1>4
  <2> QED
    BY <2>1, <2>2, <2>3, <1>5, <1>8 DEF Exact
<1> QED
  BY <1>4, <1>7, <1>9 DEF closed

\* One more frame in the open window.
LEMMA OneMoreExact ==
  ASSUME NEW r \in Recv, NEW frames \in [Window -> Nat], Exact(r, frames)
  PROVE  /\ CountFrame(r) \in Recv
         /\ CountFrame(r).cur = r.cur
         /\ Exact(CountFrame(r), [frames EXCEPT ![r.cur] = @ + 1])
<1>1. /\ r.cur \in Window
      /\ \A k \in 1 .. r.cur : k - 1 \in Window /\ k - 1 # r.cur
  BY UploadAssumption DEF Recv, Window
<1> QED
  BY <1>1 DEF Recv, Exact, Window, CountFrame

-----------------------------------------------------------------------------
(* The upload *)

UploadInv == UploadTypeOK /\ EveryFrameInItsWindow

LEMMA UploadInitial ==
  ASSUME UploadInit
  PROVE  UploadInv
<1>1. 0 \in Window /\ Fresh \in Recv
  BY UploadAssumption, EmptySeq DEF Window, Fresh, Recv
<1>2. UploadTypeOK
  BY <1>1 DEF UploadInit, UploadTypeOK, Ended
<1>3. Exact(Fresh, [w \in Window |-> 0])
  BY <1>1, EmptySeq DEF Exact, Fresh
<1> QED
  BY <1>1, <1>2, <1>3 DEF UploadInit, UploadInv, EveryFrameInItsWindow, Fresh

LEMMA UploadStepKeeps ==
  ASSUME UploadInv, [UploadNext]_uploadVars
  PROVE  UploadInv'
<1> USE DEF UploadInv
<1>1. CASE Tick
  <2>1. UploadTypeOK'
    BY <1>1, UploadAssumption DEF Tick, UploadTypeOK, Window, Ended
  <2>2. EveryFrameInItsWindow'
    BY <1>1, UploadAssumption
    DEF Tick, EveryFrameInItsWindow, UploadTypeOK, Recv, Window, Exact
  <2> QED
    BY <2>1, <2>2
<1>2. ASSUME NEW s \in Stream, Begin(s)
      PROVE  UploadInv'
  <2>1. UploadTypeOK'
    BY <1>2 DEF Begin, UploadTypeOK, Ended
  <2>2. EveryFrameInItsWindow'
    BY <1>2 DEF Begin, EveryFrameInItsWindow, Exact
  <2> QED
    BY <2>1, <2>2
<1>3. ASSUME NEW s \in Stream, Receive(s)
      PROVE  UploadInv'
  <2> DEFINE r == recv[s]
             closed == IF elapsed > r.cur THEN CloseWindows(r, elapsed) ELSE r
             more == CountFrame(closed)
             frames == [arrived[s] EXCEPT ![elapsed] = @ + 1]
  <2>1. /\ r \in Recv /\ r.cur <= elapsed /\ Exact(r, arrived[s])
        /\ arrived[s] \in [Window -> Nat] /\ elapsed \in Window
    BY DEF UploadTypeOK, EveryFrameInItsWindow
  <2>2. closed \in Recv /\ closed.cur = elapsed /\ Exact(closed, arrived[s])
    <3>1. CASE elapsed > r.cur
      BY <3>1, <2>1, CloseWindowsExact DEF Recv, Window
    <3>2. CASE ~(elapsed > r.cur)
      BY <3>2, <2>1, UploadAssumption DEF Recv, Window
    <3> QED
      BY <3>1, <3>2
  <2> HIDE DEF closed
  <2>3. more \in Recv /\ more.cur = elapsed /\ Exact(more, frames)
    BY <2>1, <2>2, OneMoreExact
  <2>4. /\ recv' = [recv EXCEPT ![s] = more]
        /\ arrived' = [arrived EXCEPT ![s] = frames]
        /\ UNCHANGED <<elapsed, receiving, upSamples, upFinal, upResult>>
    BY <1>3, <2>1 DEF Receive, closed, UploadTypeOK
  <2>5. frames \in [Window -> Nat]
    BY <2>1
  <2> HIDE DEF more, frames
  <2>6. UploadTypeOK'
    BY <2>3, <2>4, <2>5 DEF UploadTypeOK, Ended
  <2>7. EveryFrameInItsWindow'
    <3> SUFFICES ASSUME NEW t \in Stream
                 PROVE  recv'[t].cur <= elapsed /\ Exact(recv'[t], arrived'[t])
      BY <2>4 DEF EveryFrameInItsWindow, Exact
    <3>1. CASE t = s
      <4>1. recv'[t] = more /\ arrived'[t] = frames
        BY <3>1, <2>4 DEF UploadTypeOK
      <4> QED
        BY <4>1, <2>3, <2>1, UploadAssumption DEF Window
    <3>2. CASE t # s
      <4>1. recv'[t] = recv[t] /\ arrived'[t] = arrived[t]
        BY <3>2, <2>4 DEF UploadTypeOK
      <4> QED
        BY <4>1 DEF EveryFrameInItsWindow
    <3> QED
      BY <3>1, <3>2
  <2> QED
    BY <2>6, <2>7
<1>4. ASSUME NEW s \in Stream, End(s)
      PROVE  UploadInv'
  <2>1. /\ receiving' = [receiving EXCEPT ![s] = "ended"]
        /\ upSamples' = [t \in DOMAIN upSamples \cup {s} |-> recv[t].samples]
        /\ UNCHANGED <<elapsed, recv, arrived>>
    BY <1>4 DEF End
  <2>2. UploadTypeOK'
    BY <2>1 DEF UploadTypeOK, Ended
  <2>3. EveryFrameInItsWindow'
    BY <2>1 DEF EveryFrameInItsWindow, Exact
  <2> QED
    BY <2>2, <2>3
<1>5. CASE UNCHANGED uploadVars
  BY <1>5 DEF uploadVars, UploadTypeOK, EveryFrameInItsWindow, Exact, Ended
<1> QED
  BY <1>1, <1>2, <1>3, <1>4, <1>5 DEF UploadNext

\* Every stream's windows are exact, for any number of streams and windows and
\* any pattern of frames and gaps (recvUpload).
THEOREM EveryFrameInItsWindowHolds ==
  UploadSpec => []EveryFrameInItsWindow
<1>1. UploadInv => EveryFrameInItsWindow
  BY DEF UploadInv
<1> QED
  BY <1>1, UploadInitial, UploadStepKeeps, PTL DEF UploadSpec

-----------------------------------------------------------------------------
(* The result *)

\* That a result is exact, of any state of the streams' locals.
ExactFor(result, locals, frames) ==
  LET streams == result.streams
      closed  == Max({locals[s].cur : s \in streams})
  IN /\ DOMAIN result.series = {w \in 0 .. closed - 2 : AtMs(w) > WarmupMs}
     /\ \A w \in DOMAIN result.series :
          result.series[w] = SumOf([s \in Stream |-> frames[s][w]],
                                   {s \in streams : locals[s].cur > w})
     /\ result.total =
          SumOf([s \in Stream |-> SumFunction(frames[s])], streams)

LEMMA ResultIsExactFor ==
  ResultIsExact <=> (upFinal => ExactFor(upResult, recv, arrived))
BY SumFunctionOnSetIsSum DEF ResultIsExact, ExactFor, Counted

\* What the streams outside a result do afterwards does not concern it.
LEMMA OthersDoNotMatter ==
  ASSUME NEW result, result.streams \subseteq Stream,
         NEW r, NEW frames, NEW q, NEW more,
         \A s \in result.streams : q[s] = r[s] /\ more[s] = frames[s],
         ExactFor(result, r, frames)
  PROVE  ExactFor(result, q, more)
<1> DEFINE streams == result.streams
<1>1. IsFiniteSet(streams)
  BY UploadAssumption, FS_Subset
<1>2. {q[s].cur : s \in streams} = {r[s].cur : s \in streams}
  OBVIOUS
<1>3. ASSUME NEW w
      PROVE  SumOf([s \in Stream |-> more[s][w]],
                   {s \in streams : q[s].cur > w}) =
             SumOf([s \in Stream |-> frames[s][w]],
                   {s \in streams : r[s].cur > w})
  <2> DEFINE T == {s \in streams : r[s].cur > w}
             f == [s \in Stream |-> frames[s][w]]
             h == [s \in Stream |-> more[s][w]]
  <2>1. {s \in streams : q[s].cur > w} = T
    OBVIOUS
  <2>2. IsFiniteSet(T)
    BY <1>1, FS_Subset
  <2>3. \A s \in T : h[s] = f[s]
    OBVIOUS
  <2>4. SumOf(h, T) = SumOf(f, T)
    <3> HIDE DEF T, f, h
    <3> QED
      BY <2>2, <2>3, SumAgree
  <2> QED
    BY <2>1, <2>4
<1>4. SumOf([s \in Stream |-> SumFunction(more[s])], streams) =
        SumOf([s \in Stream |-> SumFunction(frames[s])], streams)
  <2> DEFINE f == [s \in Stream |-> SumFunction(frames[s])]
             h == [s \in Stream |-> SumFunction(more[s])]
  <2>1. \A s \in streams : h[s] = f[s]
    OBVIOUS
  <2> HIDE DEF f, h
  <2>2. SumOf(h, streams) = SumOf(f, streams)
    BY <1>1, <2>1, SumAgree
  <2> QED
    BY <2>2 DEF f, h
<1>5. DOMAIN result.series = {w \in 0 .. Max({q[s].cur : s \in streams}) - 2 :
                                AtMs(w) > WarmupMs}
  BY <1>2 DEF ExactFor
<1>6. \A w \in DOMAIN result.series :
        result.series[w] = SumOf([s \in Stream |-> more[s][w]],
                                 {s \in streams : q[s].cur > w})
  BY <1>3 DEF ExactFor
<1>7. result.total = SumOf([s \in Stream |-> SumFunction(more[s])], streams)
  BY <1>4 DEF ExactFor
<1> QED
  BY <1>5, <1>6, <1>7 DEF ExactFor

\* From a series without holes the trimming leaves all but the warm-up and the
\* last window.  Of one or two windows, which TrimTail leaves alone, all is
\* warm-up.
LEMMA TrimmedSeries ==
  ASSUME NEW n \in Nat, NEW series, DOMAIN series = 0 .. n - 1
  PROVE  LET trimmed == TrimWarmup(TrimTail(series))
         IN  /\ DOMAIN trimmed = {w \in 0 .. n - 2 : AtMs(w) > WarmupMs}
             /\ \A w \in DOMAIN trimmed : trimmed[w] = series[w]
<1>1. IsFiniteSet(0 .. n - 1) /\ Cardinality(0 .. n - 1) = n
  BY FS_Interval
<1>2. CASE n <= 2
  <2>1. TrimTail(series) = series
    BY <1>1, <1>2 DEF TrimTail
  <2>2. \A w \in 0 .. n - 1 : ~(AtMs(w) > WarmupMs)
    BY <1>2, StatsAssumption DEF AtMs, SampleMs
  <2> QED
    BY <2>1, <2>2 DEF TrimWarmup, Restrict
<1>3. CASE n > 2
  <2>1. Max(0 .. n - 1) = n - 1
    <3>1. 0 .. n - 1 \subseteq Int /\ 0 .. n - 1 # {}
      <4>1. 0 \in 0 .. n - 1
        BY <1>3
      <4> QED
        BY <4>1
    <3>2. Max(0 .. n - 1) \in 0 .. n - 1
          /\ \A x \in 0 .. n - 1 : x <= Max(0 .. n - 1)
      BY <1>1, <3>1, MaxIsLargest
    <3>3. n - 1 \in 0 .. n - 1
      BY <1>3
    <3> QED
      BY <3>2, <3>3
  <2>2. (0 .. n - 1) \ {n - 1} = 0 .. n - 2
    OBVIOUS
  <2>3. TrimTail(series) = [w \in 0 .. n - 2 |-> series[w]]
    BY <1>1, <1>3, <2>1, <2>2 DEF TrimTail, Restrict
  <2> QED
    BY <2>3 DEF TrimWarmup, Restrict
<1> QED
  BY <1>2, <1>3

\* What endUpload computes is exact when the locals are.
LEMMA ResultOfIsExact ==
  ASSUME NEW E \in SUBSET Stream, E # {},
         NEW r \in [Stream -> Recv], NEW frames \in [Stream -> [Window -> Nat]],
         \A s \in Stream : /\ Exact(r[s], frames[s])
                           /\ r[s].total = SumFunction(frames[s])
  PROVE  ExactFor(ResultOf([t \in E |-> r[t].samples],
                           [t \in Stream |-> r[t].total]), r, frames)
<1> DEFINE perStream == [t \in E |-> r[t].samples]
           totals == [t \in Stream |-> r[t].total]
           cur == [s \in E |-> r[s].cur]
           curs == {r[s].cur : s \in E}
           closed == Max(curs)
           all == AggregateSamples(perStream)
           result == ResultOf(perStream, totals)
<1>1. IsFiniteSet(E)
  BY UploadAssumption, FS_Subset
<1>2. \A s \in Stream : r[s].cur \in Nat /\ r[s].cur \in Window
  BY UploadAssumption DEF Recv, Window
<1>3. Contiguous(perStream, cur, frames)
  <2>1. ASSUME NEW s \in E
        PROVE  /\ cur[s] \in Nat /\ DOMAIN perStream[s] = 1 .. cur[s]
               /\ \A k \in 1 .. cur[s] :
                    /\ perStream[s][k] = [window |-> k - 1,
                                          frames |-> frames[s][k - 1]]
                    /\ frames[s][k - 1] \in Nat
    <3>1. /\ r[s].samples \in Seq(Sample) /\ Len(r[s].samples) = r[s].cur
          /\ r[s].cur \in Nat
      BY <1>2 DEF Recv, Exact
    <3>2. DOMAIN r[s].samples = 1 .. r[s].cur
      BY <3>1
    <3>3. \A k \in 1 .. r[s].cur : k - 1 \in Window
      BY <1>2, UploadAssumption DEF Window
    <3>4. \A k \in 1 .. r[s].cur : frames[s][k - 1] \in Nat
      BY <3>3
    <3>5. \A k \in 1 .. r[s].cur :
            r[s].samples[k] = [window |-> k - 1, frames |-> frames[s][k - 1]]
      BY DEF Exact
    <3> QED
      BY <3>1, <3>2, <3>4, <3>5
  <2>2. DOMAIN perStream = E /\ DOMAIN cur = E
    OBVIOUS
  <2> HIDE DEF perStream, cur
  <2> QED
    BY <2>1, <2>2 DEF Contiguous
<1>4. DOMAIN perStream = E /\ DOMAIN cur = E
  OBVIOUS
<1>5. \A s \in E : cur[s] = r[s].cur
  OBVIOUS
<1>6. closed \in Nat /\ (\E s \in E : closed = r[s].cur)
        /\ \A s \in E : r[s].cur <= closed
  <2>1. curs \subseteq Int /\ curs # {}
    BY <1>2
  <2>2. IsFiniteSet(curs)
    <3>1. curs \subseteq Window
      BY <1>2
    <3>2. IsFiniteSet(Window)
      BY UploadAssumption, FS_Interval DEF Window
    <3> HIDE DEF curs
    <3> QED
      BY <3>1, <3>2, FS_Subset
  <2>3. Max(curs) \in curs /\ \A x \in curs : x <= Max(curs)
    <3> HIDE DEF curs
    <3> QED
      BY <2>1, <2>2, MaxIsLargest
  <2> QED
    BY <1>2, <2>3
<1>7. /\ \A w : w \in DOMAIN all <=> w \in Nat /\ \E s \in E : w < cur[s]
      /\ \A w \in DOMAIN all :
           all[w] = SumOf(InWindow(frames, E, w), ClosedBy(cur, w))
  <2> HIDE DEF perStream, cur
  <2> QED
    BY <1>1, <1>3, <1>4, AggregateSums
<1> HIDE DEF perStream, cur, closed
<1>8. DOMAIN all = 0 .. closed - 1
  <2>1. closed \in Nat /\ \A s \in E : r[s].cur \in Nat
    BY <1>2, <1>6
  <2>2. ASSUME NEW w \in DOMAIN all PROVE w \in 0 .. closed - 1
    <3>1. PICK s \in E : w \in Nat /\ w < cur[s]
      BY <1>7
    <3>2. cur[s] = r[s].cur /\ r[s].cur <= closed
      BY <1>5, <1>6
    <3> QED
      BY <2>1, <3>1, <3>2
  <2>3. ASSUME NEW w \in 0 .. closed - 1 PROVE w \in DOMAIN all
    <3>1. PICK s \in E : closed = r[s].cur
      BY <1>6
    <3>2. w \in Nat /\ w < cur[s]
      BY <1>5, <2>1, <3>1
    <3> QED
      BY <1>7, <3>2
  <2> QED
    BY <2>2, <2>3
<1>9. ASSUME NEW w \in DOMAIN all
      PROVE  all[w] = SumOf([s \in Stream |-> frames[s][w]],
                            {s \in E : r[s].cur > w})
  <2> DEFINE T == {s \in E : r[s].cur > w}
             f == InWindow(frames, E, w)
             h == [s \in Stream |-> frames[s][w]]
  <2>1. ClosedBy(cur, w) = T
    BY <1>4, <1>5 DEF ClosedBy
  <2>2. IsFiniteSet(T) /\ \A s \in T : f[s] = h[s]
    BY <1>1, FS_Subset DEF InWindow
  <2>3. SumOf(f, T) = SumOf(h, T)
    <3> HIDE DEF T, f, h
    <3> QED
      BY <2>2, SumAgree
  <2>4. all[w] = SumOf(f, T)
    BY <1>7, <1>9, <2>1
  <2> QED
    BY <2>3, <2>4
<1> HIDE DEF all
<1>10. /\ result.streams = E
       /\ result.series = TrimWarmup(TrimTail(all))
       /\ result.total = SumOf(totals, E)
  BY <1>4, SumFunctionOnSetIsSum DEF ResultOf, all
<1>11. totals = [s \in Stream |-> SumFunction(frames[s])]
  OBVIOUS
<1> HIDE DEF result, totals
<1>12. /\ DOMAIN result.series = {w \in 0 .. closed - 2 : AtMs(w) > WarmupMs}
       /\ \A w \in DOMAIN result.series : result.series[w] = all[w]
  <2>1. closed \in Nat
    BY <1>6
  <2>2. LET trimmed == TrimWarmup(TrimTail(all))
        IN  /\ DOMAIN trimmed = {w \in 0 .. closed - 2 : AtMs(w) > WarmupMs}
            /\ \A w \in DOMAIN trimmed : trimmed[w] = all[w]
    BY <1>8, <2>1, TrimmedSeries
  <2> QED
    BY <1>10, <2>2
<1>13. DOMAIN result.series \subseteq DOMAIN all
  BY <1>6, <1>8, <1>12
<1>14. \A w \in DOMAIN result.series :
         result.series[w] = SumOf([s \in Stream |-> frames[s][w]],
                                  {s \in E : r[s].cur > w})
  BY <1>9, <1>12, <1>13
<1> QED
  BY <1>10, <1>11, <1>12, <1>14 DEF ExactFor, closed, result, perStream, totals

\* Each local's total is what arrived, and the streams of a result have ended.
ResultInv ==
  /\ UploadInv
  /\ \A s \in Stream : recv[s].total = SumFunction(arrived[s])
  /\ upFinal => upResult.streams # {} /\ upResult.streams \subseteq Ended
  /\ ResultIsExact

LEMMA ResultInitial ==
  ASSUME UploadInit
  PROVE  ResultInv
<1> DEFINE none == [w \in Window |-> 0]
<1>1. IsFiniteSet(Window)
  BY UploadAssumption, FS_Interval DEF Window
<1>2. SumOf(none, Window) = SumOf(none, {})
  <2>1. /\ \A w \in Window : none[w] \in Nat
        /\ \A w \in Window \ {} : none[w] = 0
        /\ {} \in SUBSET Window
    OBVIOUS
  <2> HIDE DEF none
  <2> QED
    BY <1>1, <2>1, SumWithoutZeros
<1>3. SumOf(none, {}) = 0
  BY FS_EmptySet, SumStep
<1>4. SumFunction(none) = 0
  BY <1>2, <1>3, SumFunctionOnSetIsSum DEF SumFunction
<1>5. \A s \in Stream : recv[s].total = SumFunction(arrived[s])
  BY <1>4 DEF UploadInit, Fresh
<1> QED
  BY <1>5, UploadInitial DEF UploadInit, ResultInv, ResultIsExact

\* A frame is one more in the stream's total, and the stream is in no result.
LEMMA ReceiveKeepsResult ==
  ASSUME ResultInv, NEW s \in Stream, Receive(s)
  PROVE  ResultInv'
<1> DEFINE r == recv[s]
           closed == IF elapsed > r.cur THEN CloseWindows(r, elapsed) ELSE r
           frames == [arrived[s] EXCEPT ![elapsed] = @ + 1]
<1>1. /\ recv \in [Stream -> Recv] /\ arrived \in [Stream -> [Window -> Nat]]
      /\ elapsed \in Window
  BY DEF ResultInv, UploadInv, UploadTypeOK
<1>2. UploadInv'
  <2>1. UploadInv /\ UploadNext
    BY DEF ResultInv, UploadNext
  <2> QED
    BY <2>1, UploadStepKeeps
<1>3. /\ receiving[s] = "receiving"
      /\ recv' = [recv EXCEPT ![s] = CountFrame(closed)]
      /\ arrived' = [arrived EXCEPT ![s] = frames]
      /\ UNCHANGED <<receiving, upFinal, upResult>>
  BY <1>1 DEF Receive
<1>4. /\ recv'[s] = CountFrame(closed) /\ arrived'[s] = frames
      /\ \A t \in Stream \ {s} : recv'[t] = recv[t] /\ arrived'[t] = arrived[t]
  BY <1>1, <1>3
<1>5. recv'[s].total = r.total + 1
  <2>1. closed.total = r.total
    BY DEF CloseWindows
  <2> HIDE DEF closed
  <2> QED
    BY <1>4, <2>1 DEF CountFrame
<1>6. SumFunction(frames) = SumFunction(arrived[s]) + 1
  <2> DEFINE old == arrived[s]
  <2>1. IsFiniteSet(Window)
    BY UploadAssumption, FS_Interval DEF Window
  <2>2. old \in [Window -> Nat] /\ frames \in [Window -> Nat]
    BY <1>1
  <2>3. /\ frames[elapsed] = old[elapsed] + 1
        /\ \A w \in Window \ {elapsed} : old[w] = frames[w]
    BY <1>1
  <2> HIDE DEF old, frames
  <2>4. \A w \in Window : old[w] \in Nat /\ frames[w] \in Nat
    BY <2>2
  <2>5. SumOf(frames, Window) + old[elapsed] =
          SumOf(old, Window) + frames[elapsed]
    BY <1>1, <2>1, <2>3, <2>4, SumChange
  <2>6. SumOf(frames, Window) \in Nat /\ SumOf(old, Window) \in Nat
    BY <2>1, <2>4, SumNat
  <2>7. old[elapsed] \in Nat
    BY <1>1, <2>4
  <2>8. SumOf(frames, Window) = SumOf(old, Window) + 1
    BY <2>3, <2>5, <2>6, <2>7
  <2>9. DOMAIN old = Window /\ DOMAIN frames = Window
    BY <2>2
  <2> QED
    BY <2>8, <2>9, SumFunctionOnSetIsSum DEF SumFunction, old
<1>7. \A t \in Stream : recv'[t].total = SumFunction(arrived'[t])
  <2>1. r.total = SumFunction(arrived[s])
    BY DEF ResultInv
  <2>2. recv'[s].total = SumFunction(arrived'[s])
    BY <1>4, <1>5, <1>6, <2>1
  <2>3. \A t \in Stream \ {s} : recv'[t].total = SumFunction(arrived'[t])
    BY <1>4 DEF ResultInv
  <2> QED
    BY <2>2, <2>3
<1>8. upFinal => upResult.streams # {} /\ upResult.streams \subseteq Ended \ {s}
  BY <1>3 DEF ResultInv, Ended
<1>9. Ended' = Ended
  BY <1>3 DEF Ended
<1> HIDE DEF frames, closed, r
<1>10. ASSUME upFinal'
       PROVE  ExactFor(upResult', recv', arrived')
  <2>1. /\ upFinal /\ upResult' = upResult
        /\ upResult.streams \subseteq Stream \ {s}
    BY <1>3, <1>8, <1>10 DEF Ended
  <2>2. ExactFor(upResult, recv, arrived)
    BY <2>1, ResultIsExactFor DEF ResultInv
  <2>3. \A t \in upResult.streams :
          recv'[t] = recv[t] /\ arrived'[t] = arrived[t]
    BY <1>4, <2>1
  <2>4. upResult.streams \subseteq Stream
    BY <2>1
  <2>5. ExactFor(upResult, recv', arrived')
    BY <2>2, <2>3, <2>4, OthersDoNotMatter
  <2> QED
    BY <2>1, <2>5
<1>11. ResultIsExact'
  <2>1. (upFinal => ExactFor(upResult, recv, arrived))'
    BY <1>10
  <2> QED
    BY <2>1, ResultIsExactFor, PTL
<1> QED
  BY <1>2, <1>3, <1>7, <1>8, <1>9, <1>11 DEF ResultInv

\* The last stream to end finds all locals exact; an earlier one, or one that
\* began after the result, leaves the result alone.
LEMMA EndKeepsResult ==
  ASSUME ResultInv, NEW s \in Stream, End(s)
  PROVE  ResultInv'
<1> DEFINE ended == Ended \cup {s}
           last == Active = {s} /\ ~upFinal
           result == ResultOf([t \in ended |-> recv[t].samples],
                              [t \in Stream |-> recv[t].total])
<1>1. /\ recv \in [Stream -> Recv] /\ arrived \in [Stream -> [Window -> Nat]]
      /\ receiving \in [Stream -> {"waiting", "receiving", "ended"}]
      /\ DOMAIN upSamples = Ended
  BY DEF ResultInv, UploadInv, UploadTypeOK
<1>2. UploadInv'
  <2>1. UploadInv /\ UploadNext
    BY DEF ResultInv, UploadNext
  <2> QED
    BY <2>1, UploadStepKeeps
<1>3. /\ receiving' = [receiving EXCEPT ![s] = "ended"]
      /\ upFinal' = (upFinal \/ last)
      /\ upResult' = IF last THEN result ELSE upResult
      /\ recv' = recv /\ arrived' = arrived
  BY <1>1 DEF End
<1>4. Ended' = ended
  BY <1>1, <1>3 DEF Ended
<1>5. \A t \in Stream : recv'[t].total = SumFunction(arrived'[t])
  BY <1>3 DEF ResultInv
<1>6. result.streams = ended
  BY DEF ResultOf
<1>7. ExactFor(result, recv, arrived)
  <2>1. ended \in SUBSET Stream /\ ended # {}
    BY DEF Ended
  <2>2. \A t \in Stream : /\ Exact(recv[t], arrived[t])
                          /\ recv[t].total = SumFunction(arrived[t])
    BY DEF ResultInv, UploadInv, EveryFrameInItsWindow
  <2> HIDE DEF ended
  <2> QED
    BY <1>1, <2>1, <2>2, ResultOfIsExact
<1> HIDE DEF result, last
<1>8. upFinal' => upResult'.streams # {} /\ upResult'.streams \subseteq ended
  BY <1>3, <1>6 DEF ResultInv
<1>9. upFinal' => ExactFor(upResult', recv', arrived')
  BY <1>3, <1>7, ResultIsExactFor DEF ResultInv
<1>10. ResultIsExact'
  <2>1. (upFinal => ExactFor(upResult, recv, arrived))'
    BY <1>9
  <2> QED
    BY <2>1, ResultIsExactFor, PTL
<1> QED
  BY <1>2, <1>4, <1>5, <1>8, <1>10 DEF ResultInv

LEMMA ResultStep ==
  ASSUME ResultInv, [UploadNext]_uploadVars
  PROVE  ResultInv'
<1>1. ASSUME Ended' = Ended, UNCHANGED <<recv, upFinal, upResult, arrived>>
      PROVE  ResultInv'
  <2>1. UploadInv'
    BY UploadStepKeeps DEF ResultInv
  <2>2. ResultIsExact'
    BY <1>1 DEF ResultInv, ResultIsExact, Counted
  <2> QED
    BY <1>1, <2>1, <2>2 DEF ResultInv
<1>2. CASE Tick \/ UNCHANGED uploadVars
  BY <1>1, <1>2 DEF Tick, uploadVars, Ended
<1>3. ASSUME NEW s \in Stream, Begin(s)
      PROVE  ResultInv'
  <2>1. receiving \in [Stream -> {"waiting", "receiving", "ended"}]
    BY DEF ResultInv, UploadInv, UploadTypeOK
  <2>2. Ended' = Ended
    BY <1>3, <2>1 DEF Begin, Ended
  <2> QED
    BY <1>1, <1>3, <2>2 DEF Begin
<1> QED
  BY <1>2, <1>3, ReceiveKeepsResult, EndKeepsResult DEF UploadNext

LEMMA ResultInvHolds == UploadSpec => []ResultInv
BY ResultInitial, ResultStep, PTL DEF UploadSpec

\* The measured series has every window between the warm-up and the last one
\* that any stream closed, each the sum of what the streams delivered in it,
\* and the total misses nothing: for any number of streams and windows, and
\* whichever streams end before, with or after the one that computes the result
\* (endUpload).
THEOREM ResultIsExactHolds == UploadSpec => []ResultIsExact
<1>1. ResultInv => ResultIsExact
  BY DEF ResultInv
<1> QED
  BY <1>1, ResultInvHolds, PTL

\* A result is a finite series of numbers.
LEMMA UploadedSeries ==
  ASSUME ResultInv, upFinal
  PROVE  /\ IsFiniteSet(DOMAIN upResult.series)
         /\ \A w \in DOMAIN upResult.series : upResult.series[w] \in Nat
<1> DEFINE streams == upResult.streams
           curs == {recv[s].cur : s \in streams}
           closed == Max(curs)
<1>1. streams \subseteq Stream /\ streams # {} /\ IsFiniteSet(streams)
  <2>1. streams \subseteq Stream /\ streams # {}
    BY DEF ResultInv, Ended
  <2> QED
    BY <2>1, UploadAssumption, FS_Subset
<1>2. \A s \in Stream : /\ recv[s].cur \in Window
                        /\ arrived[s] \in [Window -> Nat]
  BY DEF ResultInv, UploadInv, UploadTypeOK, Recv
<1>3. IsFiniteSet(Window) /\ Window \subseteq Int
  BY UploadAssumption, FS_Interval DEF Window
<1>4. ExactFor(upResult, recv, arrived)
  BY ResultIsExactFor DEF ResultInv
<1>5. closed \in Int
  <2>1. curs \subseteq Window /\ curs # {}
    BY <1>1, <1>2
  <2> HIDE DEF curs
  <2>2. IsFiniteSet(curs) /\ curs \subseteq Int
    BY <1>3, <2>1, FS_Subset
  <2> QED
    BY <2>1, <2>2, MaxIsLargest
<1>6. DOMAIN upResult.series = {w \in 0 .. closed - 2 : AtMs(w) > WarmupMs}
  BY <1>4 DEF ExactFor
<1> HIDE DEF closed
<1>7. /\ IsFiniteSet(DOMAIN upResult.series)
      /\ DOMAIN upResult.series \subseteq Nat
  <2>1. IsFiniteSet(0 .. closed - 2) /\ 0 .. closed - 2 \subseteq Nat
    BY <1>5, FS_Interval
  <2> QED
    BY <1>6, <2>1, FS_Subset
<1>8. ASSUME NEW w \in DOMAIN upResult.series
      PROVE  upResult.series[w] \in Nat
  <2> DEFINE T == {s \in streams : recv[s].cur > w}
             f == [s \in Stream |-> arrived[s][w]]
  <2>1. upResult.series[w] = SumOf(f, T)
    BY <1>4, <1>8 DEF ExactFor
  <2>2. IsFiniteSet(T)
    BY <1>1, FS_Subset
  <2>3. ASSUME NEW s \in T PROVE f[s] \in Nat
    <3>1. s \in Stream /\ recv[s].cur \in Window /\ recv[s].cur > w
      BY <1>1, <1>2, <2>3
    <3>2. w \in Nat
      BY <1>7
    <3>3. w \in Window
      BY <3>1, <3>2, UploadAssumption DEF Window
    <3> QED
      BY <1>2, <3>1, <3>3
  <2> HIDE DEF T, f
  <2> QED
    BY <2>1, <2>2, <2>3, SumNat
<1> QED
  BY <1>7, <1>8
=============================================================================
