------------------------- MODULE MeasurementProofs -------------------------
(***************************************************************************)
(* Theorems about Measurement, for any number of streams, windows, frames  *)
(* and pings.                                                              *)
(***************************************************************************)
EXTENDS Measurement, UploadProofs

-----------------------------------------------------------------------------
(* The whole run *)

\* A run's streams and its directions do not change under way.
LEMMA PlanIsFixed == MeasurementSpec => [](plan \in Plan)
<1>1. MeasurementInit => plan \in Plan
  BY DEF MeasurementInit
<1>2. ASSUME plan \in Plan, [MeasurementNext]_vars
      PROVE  (plan \in Plan)'
  BY <1>2
  DEF MeasurementNext, vars, pageVars, SendPing, OnPong, BeginDownload,
      DownTick, DownData, DownDone, DownClosed, BeginUpload, UploadStep,
      SendFinal, HandleFinal
<1> QED
  BY <1>1, <1>2, PTL DEF MeasurementSpec

\* Every step of a run is a step of the upload's measurement or leaves it alone,
\* so what is proved of the upload holds in a run.
THEOREM MeasurementImplementsUpload == MeasurementSpec => UploadSpec
<1>1. MeasurementInit => UploadInit
  BY DEF MeasurementInit
<1>2. plan \in Plan /\ [MeasurementNext]_vars => [UploadNext]_uploadVars
  <2> SUFFICES ASSUME plan \in Plan, [MeasurementNext]_vars
               PROVE  UploadNext \/ UNCHANGED uploadVars
    OBVIOUS
  <2>1. CASE UploadStep
    <3>1. plan.streams \subseteq Stream
      BY DEF Plan
    <3> QED
      BY <2>1, <3>1 DEF UploadStep, UploadNext
  <2>2. CASE UNCHANGED vars
    BY <2>2 DEF vars
  <2>3. ASSUME NEW s \in Stream, DownData(s) \/ DownDone(s) \/ DownClosed(s)
        PROVE  UNCHANGED uploadVars
    BY <2>3 DEF DownData, DownDone, DownClosed
  <2>4. CASE SendPing \/ OnPong \/ BeginDownload \/ DownTick \/ BeginUpload
    BY <2>4 DEF SendPing, OnPong, BeginDownload, DownTick, BeginUpload
  <2>5. CASE SendFinal \/ HandleFinal
    BY <2>5 DEF SendFinal, HandleFinal
  <2> QED
    BY <2>1, <2>2, <2>3, <2>4, <2>5 DEF MeasurementNext
<1> QED
  BY <1>1, <1>2, PlanIsFixed, PTL DEF MeasurementSpec, UploadSpec

\* In a run too every uploaded frame is counted once, in its window.
COROLLARY RunCountsEveryFrame == MeasurementSpec => []EveryFrameInItsWindow
BY EveryFrameInItsWindowHolds, MeasurementImplementsUpload, PTL

-----------------------------------------------------------------------------
(* Pings *)

InFlight(w, b) == {i \in DOMAIN w : w[i] = b}

LEMMA InFlightFinite ==
  ASSUME NEW w \in Seq(Bucket), NEW b
  PROVE  /\ IsFiniteSet(InFlight(w, b))
         /\ Cardinality(InFlight(w, b)) \in Nat
<1>1. DOMAIN w = 1 .. Len(w) /\ Len(w) \in Nat
  OBVIOUS
<1>2. IsFiniteSet(1 .. Len(w))
  BY <1>1, FS_Interval
<1>3. InFlight(w, b) \in SUBSET (1 .. Len(w))
  BY <1>1 DEF InFlight
<1> QED
  BY <1>2, <1>3, FS_Subset, FS_CardinalityType

\* A ping that is sent is one more in flight for its phase.
LEMMA OneMoreInFlight ==
  ASSUME NEW w \in Seq(Bucket), NEW b \in Bucket, NEW c \in Bucket
  PROVE  Cardinality(InFlight(Append(w, c), b)) =
           Cardinality(InFlight(w, b)) + (IF b = c THEN 1 ELSE 0)
<1>1. /\ Len(w) \in Nat /\ DOMAIN w = 1 .. Len(w)
      /\ DOMAIN Append(w, c) = 1 .. Len(w) + 1
      /\ \A i \in 1 .. Len(w) : Append(w, c)[i] = w[i]
      /\ Append(w, c)[Len(w) + 1] = c
  OBVIOUS
<1>2. InFlight(Append(w, c), b) =
        IF b = c THEN InFlight(w, b) \cup {Len(w) + 1} ELSE InFlight(w, b)
  BY <1>1 DEF InFlight
<1>3. Len(w) + 1 \notin InFlight(w, b)
  BY <1>1 DEF InFlight
<1>4. /\ IsFiniteSet(InFlight(w, b))
      /\ Cardinality(InFlight(w, b)) \in Nat
  BY InFlightFinite
<1>5. Cardinality(InFlight(w, b) \cup {Len(w) + 1}) =
        Cardinality(InFlight(w, b)) + 1
  BY <1>3, <1>4, FS_AddElement
<1> QED
  BY <1>2, <1>4, <1>5

\* A ping that is answered is one less in flight for the phase that sent it.
LEMMA OneLessInFlight ==
  ASSUME NEW w \in Seq(Bucket), NEW b \in Bucket, w # <<>>
  PROVE  Cardinality(InFlight(w, b)) =
           Cardinality(InFlight(Tail(w), b)) + (IF b = Head(w) THEN 1 ELSE 0)
<1> DEFINE rest == InFlight(w, b) \ {1}
           shift == [i \in InFlight(Tail(w), b) |-> i + 1]
<1>1. /\ Len(w) \in Nat \ {0} /\ DOMAIN w = 1 .. Len(w) /\ Head(w) = w[1]
      /\ Tail(w) \in Seq(Bucket) /\ DOMAIN Tail(w) = 1 .. Len(w) - 1
      /\ \A i \in 1 .. Len(w) - 1 : Tail(w)[i] = w[i + 1]
  OBVIOUS
<1>2. shift \in Bijection(InFlight(Tail(w), b), rest)
  <2>1. \A i \in InFlight(Tail(w), b) : i + 1 \in rest
    BY <1>1 DEF InFlight
  <2>2. \A i, k \in InFlight(Tail(w), b) : i + 1 = k + 1 => i = k
    BY <1>1 DEF InFlight
  <2>3. \A k \in rest : k - 1 \in InFlight(Tail(w), b) /\ (k - 1) + 1 = k
    BY <1>1 DEF InFlight
  <2> QED
    BY <2>1, <2>2, <2>3 DEF Bijection, Injection, Surjection, IsInjective
<1>3. ExistsBijection(InFlight(Tail(w), b), rest)
  BY <1>2 DEF ExistsBijection
<1>4. Cardinality(rest) = Cardinality(InFlight(Tail(w), b))
  BY <1>1, <1>3, InFlightFinite, FS_Bijection
<1>5. 1 \in InFlight(w, b) <=> b = Head(w)
  BY <1>1 DEF InFlight
<1>6. Cardinality(rest) =
        IF b = Head(w) THEN Cardinality(InFlight(w, b)) - 1
        ELSE Cardinality(InFlight(w, b))
  BY <1>5, InFlightFinite, FS_RemoveElement
<1> QED
  BY <1>4, <1>6, InFlightFinite

PingTypeOK ==
  /\ wire \in Seq(Bucket)
  /\ sent \in [Bucket -> Nat]
  /\ replies \in [Bucket -> Nat]

PingInv == PingTypeOK /\ RepliesCountedWhereSent

LEMMA PingInitial == MeasurementInit => PingInv
<1> SUFFICES ASSUME MeasurementInit
             PROVE  PingInv
  OBVIOUS
<1>1. wire = <<>> /\ sent = NoPings /\ replies = NoPings
  BY DEF MeasurementInit
<1>2. PingTypeOK
  BY <1>1 DEF PingTypeOK, NoPings
<1>3. \A b : {i \in DOMAIN wire : wire[i] = b} = {}
  BY <1>1
<1>4. Cardinality({}) = 0
  BY FS_EmptySet
<1> QED
  BY <1>1, <1>2, <1>3, <1>4 DEF PingInv, RepliesCountedWhereSent, NoPings

LEMMA PingStep ==
  ASSUME PingInv, [MeasurementNext]_vars
  PROVE  PingInv'
<1> USE DEF PingInv
<1>1. bucketName \in Bucket
  BY DEF bucketName, Bucket
<1>2. CASE SendPing
  <2>1. /\ phase \in {"latency", "download", "upload"} /\ phase' = phase
        /\ wire' = Append(wire, bucketName) /\ replies' = replies
        /\ sent' = [sent EXCEPT ![bucketName] = @ + 1]
    BY <1>2 DEF SendPing
  <2>2. PingTypeOK'
    BY <1>1, <2>1 DEF PingTypeOK
  <2>3. ASSUME NEW b \in Bucket
        PROVE  sent'[b] = replies'[b] + Cardinality(InFlight(wire', b))
    <3>1. sent[b] = replies[b] + Cardinality(InFlight(wire, b))
      BY <2>1 DEF RepliesCountedWhereSent, InFlight
    <3>2. Cardinality(InFlight(wire', b)) = Cardinality(InFlight(wire, b))
            + (IF b = bucketName THEN 1 ELSE 0)
      BY <1>1, <2>1, OneMoreInFlight DEF PingTypeOK
    <3>3. sent'[b] = sent[b] + (IF b = bucketName THEN 1 ELSE 0)
      BY <1>1, <2>1 DEF PingTypeOK
    <3> QED
      BY <2>1, <3>1, <3>2, <3>3, InFlightFinite DEF PingTypeOK
  <2> QED
    BY <2>2, <2>3 DEF RepliesCountedWhereSent, InFlight
<1>3. CASE OnPong
  <2>1. /\ phase \in {"latency", "download", "upload"} /\ phase' = phase
        /\ wire # <<>> /\ wire' = Tail(wire) /\ sent' = sent
        /\ replies' = [replies EXCEPT ![Head(wire)] = @ + 1]
    BY <1>3 DEF OnPong
  <2>2. Head(wire) \in Bucket /\ Tail(wire) \in Seq(Bucket)
    BY <2>1 DEF PingTypeOK
  <2>3. PingTypeOK'
    BY <2>1, <2>2 DEF PingTypeOK
  <2>4. ASSUME NEW b \in Bucket
        PROVE  sent'[b] = replies'[b] + Cardinality(InFlight(wire', b))
    <3>1. sent[b] = replies[b] + Cardinality(InFlight(wire, b))
      BY <2>1 DEF RepliesCountedWhereSent, InFlight
    <3>2. Cardinality(InFlight(wire, b)) = Cardinality(InFlight(wire', b))
            + (IF b = Head(wire) THEN 1 ELSE 0)
      BY <2>1, OneLessInFlight DEF PingTypeOK
    <3>3. replies'[b] = replies[b] + (IF b = Head(wire) THEN 1 ELSE 0)
      BY <2>1, <2>2 DEF PingTypeOK
    <3>4. Cardinality(InFlight(wire', b)) \in Nat /\ replies[b] \in Nat
      BY <2>1, <2>2, InFlightFinite DEF PingTypeOK
    <3>5. sent'[b] = sent[b]
      BY <2>1
    <3>6. CASE b = Head(wire)
      BY <3>1, <3>2, <3>3, <3>4, <3>5, <3>6
    <3>7. CASE b # Head(wire)
      BY <3>1, <3>2, <3>3, <3>4, <3>5, <3>7
    <3> QED
      BY <3>6, <3>7
  <2> QED
    BY <2>3, <2>4 DEF RepliesCountedWhereSent, InFlight
<1>4. CASE BeginDownload \/ BeginUpload
  <2>1. /\ phase \in {"latency", "download"}
        /\ UNCHANGED <<wire, sent, replies>>
    BY <1>4 DEF BeginDownload, BeginUpload
  <2> QED
    BY <2>1 DEF PingTypeOK, RepliesCountedWhereSent
<1>5. CASE SendFinal
  <2>1. /\ phase' = "final" /\ wire' = <<>>
        /\ sent' = NoPings /\ replies' = NoPings
    BY <1>5 DEF SendFinal
  <2> QED
    BY <2>1 DEF PingTypeOK, RepliesCountedWhereSent, NoPings
<1>6. CASE HandleFinal
  <2>1. phase' = "stored" /\ UNCHANGED <<wire, sent, replies>>
    BY <1>6 DEF HandleFinal
  <2> QED
    BY <2>1 DEF PingTypeOK, RepliesCountedWhereSent
<1>7. CASE UNCHANGED <<phase, wire, sent, replies>>
  BY <1>7 DEF PingTypeOK, RepliesCountedWhereSent
<1>8. ASSUME NEW s \in Stream, DownData(s) \/ DownDone(s) \/ DownClosed(s)
      PROVE  UNCHANGED <<phase, wire, sent, replies>>
  BY <1>8 DEF DownData, DownDone, DownClosed
<1>9. DownTick \/ UploadStep \/ UNCHANGED vars =>
        UNCHANGED <<phase, wire, sent, replies>>
  BY DEF DownTick, UploadStep, vars, pageVars
<1> QED
  BY <1>2, <1>3, <1>4, <1>5, <1>6, <1>7, <1>8, <1>9 DEF MeasurementNext

\* Whatever the order in which replies and phases come, for any number of pings,
\* each ping is in flight or a reply of the phase that sent it (sendPingOn,
\* onPong).
THEOREM RepliesCountedWhereSentHolds ==
  MeasurementSpec => []RepliesCountedWhereSent
<1>1. PingInv => RepliesCountedWhereSent
  BY DEF PingInv
<1> QED
  BY <1>1, PingInitial, PingStep, PTL DEF MeasurementSpec

-----------------------------------------------------------------------------
(* The download *)

DownType ==
  /\ plan \in Plan
  /\ phase \in Phase
  /\ downElapsed \in Window
  /\ delivered \in [Stream -> Nat]
  /\ downStream \in [Stream -> {"waiting", "loading", "done", "closed"}]
  /\ \E D \in SUBSET Window :
       down \in [windows : [D -> Nat], total : Nat, serverFrames : Nat]
  /\ caveats \in SUBSET {"stream closed"}

\* The streams whose frames the server has not told of: DOWN_DONE is still to
\* come, or never will.
Untold == {s \in Stream : downStream[s] # "done"}

\* The page's total is in its windows, and is what the server has told plus what
\* arrived on streams that are not done.
DownAddsUp ==
  /\ SumFunction(down.windows) = down.total
  /\ down.total = down.serverFrames + SumFunctionOnSet(delivered, Untold)

\* When streams load, and what a stream that dropped leaves.
DownStaged ==
  /\ \A s \in Stream : downStream[s] = "waiting" => delivered[s] = 0
  /\ \A s \in Stream : downStream[s] = "closed" => "stream closed" \in caveats
  /\ phase = "latency" => \A s \in Stream : downStream[s] = "waiting"
  /\ phase \in {"upload", "final", "stored"} => Loading = {}
  /\ plan.direction = "upload" =>
       down = Nothing /\ \A s \in Stream : downStream[s] = "waiting"

\* What FINAL says of the download.
FinalTells ==
  phase = "final" =>
    /\ \E n \in 0 .. MaxWindow + 1 : msg.samples \in [0 .. n - 1 -> Nat]
    /\ SumFunction(msg.samples) = msg.total
    /\ msg.caveats \in SUBSET {"stream closed"}
    /\ "stream closed" \notin msg.caveats => msg.total = msg.serverFrames
    /\ plan.direction = "upload" => DOMAIN msg.samples = {}

DownInv == DownType /\ DownAddsUp /\ DownStaged /\ FinalTells

LEMMA WindowsAreFinite ==
  /\ Window \subseteq Nat /\ IsFiniteSet(Window)
  /\ \A D \in SUBSET Window : IsFiniteSet(D)
<1>1. Window \subseteq Nat
  BY UploadAssumption DEF Window
<1>2. IsFiniteSet(Window)
  BY UploadAssumption, FS_Interval DEF Window
<1> QED
  BY <1>1, <1>2, FS_Subset

\* One more frame in some window is one more in all.
LEMMA TallyCounts ==
  ASSUME NEW D \in SUBSET Window, NEW f \in [D -> Nat], NEW w \in Window,
         NEW h, h = [v \in D \cup {w} |->
                      IF v = w THEN (IF w \in D THEN f[w] ELSE 0) + 1 ELSE f[v]]
  PROVE  /\ h \in [D \cup {w} -> Nat]
         /\ SumFunction(f) \in Nat
         /\ SumFunction(h) = SumFunction(f) + 1
<1>1. h \in [D \cup {w} -> Nat]
  OBVIOUS
<1>2. /\ SumFunction(f) = SumOf(f, D)
      /\ SumFunction(h) = SumOf(h, D \cup {w})
  BY <1>1, SumFunctionOnSetIsSum DEF SumFunction
<1>3. IsFiniteSet(D) /\ IsFiniteSet(D \cup {w})
  BY WindowsAreFinite
<1>4. SumOf(f, D) \in Nat
  BY <1>3, SumNat
<1>5. CASE w \in D
  <2>1. D \cup {w} = D
    BY <1>5
  <2>2. /\ \A v \in D : f[v] \in Nat /\ h[v] \in Nat
        /\ \A v \in D \ {w} : f[v] = h[v]
    BY <1>5
  <2>3. SumOf(h, D) + f[w] = SumOf(f, D) + h[w]
    BY <1>3, <1>5, <2>2, SumChange
  <2>4. SumOf(h, D) \in Nat
    BY <1>3, <2>2, SumNat
  <2>5. h[w] = f[w] + 1 /\ f[w] \in Nat
    BY <1>5
  <2> QED
    BY <1>1, <1>2, <1>4, <2>1, <2>3, <2>4, <2>5
<1>6. CASE w \notin D
  <2>1. (D \cup {w}) \ {w} = D
    BY <1>6
  <2>2. \A v \in D \cup {w} : h[v] \in Nat
    BY <1>1
  <2>3. SumOf(h, D \cup {w}) = h[w] + SumOf(h, D)
    BY <1>3, <2>1, <2>2, SumTakeOut
  <2>4. SumOf(h, D) = SumOf(f, D)
    <3>1. \A v \in D : h[v] = f[v]
      BY <1>6
    <3> QED
      BY <1>3, <3>1, SumAgree
  <2>5. h[w] = 1
    BY <1>6
  <2> QED
    BY <1>1, <1>2, <1>4, <2>3, <2>4, <2>5
<1> QED
  BY <1>5, <1>6

\* Filling the holes of a tally makes a series that has as many frames.
LEMMA SamplesAddUp ==
  ASSUME NEW D \in SUBSET Window, NEW f \in [D -> Nat]
  PROVE  /\ \E n \in 0 .. MaxWindow + 1 :
              buildDownloadSamples(f) \in [0 .. n - 1 -> Nat]
         /\ SumFunction(buildDownloadSamples(f)) = SumFunction(f)
         /\ D = {} => DOMAIN buildDownloadSamples(f) = {}
<1> DEFINE h == buildDownloadSamples(f)
<1>1. MaxWindow \in Nat /\ IsFiniteSet(D) /\ D \subseteq Int
  BY UploadAssumption, WindowsAreFinite
<1>2. SumFunction(f) = SumOf(f, D)
  BY SumFunctionOnSetIsSum DEF SumFunction
<1>3. CASE D = {}
  <2>1. h = [w \in {} |-> 0]
    BY <1>3 DEF buildDownloadSamples, NoSamples
  <2>2. 0 .. 0 - 1 = {} /\ 0 \in 0 .. MaxWindow + 1
    BY <1>1
  <2>3. h \in [0 .. 0 - 1 -> Nat] /\ DOMAIN h = {}
    BY <2>1, <2>2
  <2>4. SumFunction(h) = SumOf(h, {})
    BY <2>3, SumFunctionOnSetIsSum DEF SumFunction
  <2>5. SumOf(h, {}) = 0 /\ SumOf(f, {}) = 0
    BY FS_EmptySet, SumStep
  <2> HIDE DEF h
  <2> QED
    BY <1>2, <1>3, <2>2, <2>3, <2>4, <2>5 DEF h
<1>4. CASE D # {}
  <2> DEFINE m == Max(D)
  <2>1. m \in D /\ \A w \in D : w <= m
    BY <1>1, <1>4, MaxIsLargest
  <2>3. h = [w \in 0 .. m |-> IF w \in D THEN f[w] ELSE 0]
    BY <1>4 DEF buildDownloadSamples
  <2> HIDE DEF m, h
  <2>2. m \in 0 .. MaxWindow /\ m \in Nat
    BY <1>1, <2>1 DEF Window
  <2>4. h \in [0 .. m -> Nat] /\ DOMAIN h = 0 .. m
    BY <2>3
  <2>5. m + 1 \in 0 .. MaxWindow + 1 /\ (m + 1) - 1 = m
    BY <1>1, <2>2
  <2>6. SumFunction(h) = SumOf(h, 0 .. m)
    BY <2>4, SumFunctionOnSetIsSum DEF SumFunction
  <2>7. IsFiniteSet(0 .. m) /\ D \in SUBSET (0 .. m)
    BY <2>1, <2>2, FS_Interval DEF Window
  <2>8. SumOf(h, 0 .. m) = SumOf(h, D)
    <3>1. /\ \A w \in 0 .. m : h[w] \in Nat
          /\ \A w \in (0 .. m) \ D : h[w] = 0
      BY <2>3
    <3> QED
      BY <2>7, <3>1, SumWithoutZeros
  <2>9. SumOf(h, D) = SumOf(f, D)
    <3>1. \A w \in D : w \in 0 .. m
      BY <2>7
    <3>2. \A w \in D : h[w] = f[w]
      BY <2>3, <3>1
    <3>3. IsFiniteSet(D)
      BY <1>1
    <3> QED
      BY <3>2, <3>3, SumAgree
  <2> QED
    BY <1>2, <1>4, <2>4, <2>5, <2>6, <2>8, <2>9 DEF h
<1> QED
  BY <1>3, <1>4

\* No frames at all.
LEMMA NothingAddsUp ==
  /\ \E D \in SUBSET Window :
       Nothing \in [windows : [D -> Nat], total : Nat, serverFrames : Nat]
  /\ Nothing.total = 0 /\ Nothing.serverFrames = 0
  /\ SumFunction(Nothing.windows) = 0
  /\ \A S \in SUBSET Stream :
       SumFunctionOnSet([s \in Stream |-> 0], S) = 0
<1>1. NoSamples \in [{} -> Nat]
  BY DEF NoSamples
<1>2. SumFunction(NoSamples) = 0
  <2>1. SumFunction(NoSamples) = SumOf(NoSamples, {})
    BY <1>1, SumFunctionOnSetIsSum DEF SumFunction
  <2> QED
    BY <2>1, FS_EmptySet, SumStep
<1>3. ASSUME NEW S \in SUBSET Stream
      PROVE  SumFunctionOnSet([s \in Stream |-> 0], S) = 0
  <2> DEFINE f == [s \in Stream |-> 0]
  <2>1. IsFiniteSet(S) /\ {} \in SUBSET S
    BY UploadAssumption, FS_Subset
  <2>2. SumOf(f, S) = SumOf(f, {})
    <3>1. \A s \in S : f[s] = 0
      OBVIOUS
    <3> HIDE DEF f
    <3> QED
      BY <2>1, <3>1, SumWithoutZeros
  <2>3. SumOf(f, {}) = 0
    BY FS_EmptySet, SumStep
  <2> HIDE DEF f
  <2>4. SumFunctionOnSet(f, S) = 0
    BY <2>2, <2>3, SumFunctionOnSetIsSum
  <2> QED
    BY <2>4 DEF f
<1> QED
  BY <1>1, <1>2, <1>3 DEF Nothing

LEMMA DownInitial == MeasurementInit => DownInv
<1> SUFFICES ASSUME MeasurementInit PROVE DownInv
  OBVIOUS
<1>1. /\ plan \in Plan /\ phase = "latency" /\ caveats = {}
      /\ downStream = [s \in Stream |-> "waiting"]
      /\ delivered = [s \in Stream |-> 0]
      /\ downElapsed = 0 /\ down = Nothing
  BY DEF MeasurementInit
<1>2. DownType
  BY <1>1, UploadAssumption, NothingAddsUp DEF DownType, Phase, Window
<1>3. DownAddsUp
  <2>1. SumFunctionOnSet(delivered, Untold) = 0
    BY <1>1, NothingAddsUp DEF Untold
  <2> QED
    BY <1>1, <2>1, NothingAddsUp DEF DownAddsUp
<1>4. DownStaged
  BY <1>1 DEF DownStaged, Loading
<1>5. FinalTells
  BY <1>1 DEF FinalTells
<1> QED
  BY <1>2, <1>3, <1>4, <1>5 DEF DownInv

\* What the invariant gives at a step.
LEMMA DownFacts ==
  ASSUME DownInv
  PROVE  /\ SumOf(delivered, Untold) \in Nat
         /\ down.total = down.serverFrames + SumOf(delivered, Untold)
         /\ down.total \in Nat /\ down.serverFrames \in Nat
         /\ Untold \in SUBSET Stream /\ IsFiniteSet(Untold)
         /\ \A s \in Stream : delivered[s] \in Nat
<1> USE DEF DownInv
<1>1. Untold \in SUBSET Stream /\ IsFiniteSet(Untold)
  BY UploadAssumption, FS_Subset DEF Untold
<1>2. \A s \in Stream : delivered[s] \in Nat
  BY DEF DownType
<1>3. SumOf(delivered, Untold) \in Nat
  BY <1>1, <1>2, SumNat
<1>4. down.total \in Nat /\ down.serverFrames \in Nat
  BY DEF DownType
<1>5. SumFunctionOnSet(delivered, Untold) = SumOf(delivered, Untold)
  BY SumFunctionOnSetIsSum
<1> QED
  BY <1>1, <1>2, <1>3, <1>4, <1>5 DEF DownAddsUp

\* A frame arrives: one more in a window, in the total and on its stream.
LEMMA DownDataKeeps ==
  ASSUME DownInv, NEW s \in Stream, DownData(s)
  PROVE  DownInv'
<1> USE DEF DownInv
<1> DEFINE w == downElapsed
           f == down.windows
           h == [v \in DOMAIN f \cup {w} |->
                   IF v = w THEN (IF w \in DOMAIN f THEN f[w] ELSE 0) + 1
                   ELSE f[v]]
<1>1. /\ downStream[s] = "loading" /\ s \in Untold
      /\ delivered' = [delivered EXCEPT ![s] = @ + 1]
      /\ UNCHANGED <<plan, phase, downStream, downElapsed, caveats, msg>>
  BY DEF DownData, Untold
<1>2. PICK D \in SUBSET Window :
        down \in [windows : [D -> Nat], total : Nat, serverFrames : Nat]
  BY DEF DownType
<1>3. down' = [windows |-> h, total |-> down.total + 1,
               serverFrames |-> down.serverFrames]
  BY <1>2 DEF DownData
<1>4. DOMAIN f = D /\ w \in Window /\ f \in [D -> Nat]
  BY <1>2 DEF DownType
<1>5. /\ h \in [D \cup {w} -> Nat]
      /\ SumFunction(f) \in Nat
      /\ SumFunction(h) = SumFunction(f) + 1
  <2>1. h = [v \in D \cup {w} |->
               IF v = w THEN (IF w \in D THEN f[w] ELSE 0) + 1 ELSE f[v]]
    BY <1>4
  <2>2. D \in SUBSET Window /\ f \in [D -> Nat] /\ w \in Window
    BY <1>2, <1>4
  <2> HIDE DEF w, f, h
  <2> QED
    BY <2>1, <2>2, TallyCounts
<1>10. /\ SumOf(delivered, Untold) \in Nat /\ IsFiniteSet(Untold)
       /\ down.total = down.serverFrames + SumOf(delivered, Untold)
       /\ down.total \in Nat /\ down.serverFrames \in Nat
       /\ Untold \subseteq Stream
  BY DownFacts
<1>11. delivered \in [Stream -> Nat] /\ delivered' \in [Stream -> Nat]
  <2>1. delivered \in [Stream -> Nat]
    BY DEF DownType
  <2> QED
    BY <1>1, <2>1
<1> HIDE DEF h
<1>6. DownType'
  <2>1. D \cup {w} \in SUBSET Window
    BY <1>4
  <2>2. down' \in [windows : [D \cup {w} -> Nat], total : Nat,
                   serverFrames : Nat]
    BY <1>2, <1>3, <1>5
  <2> QED
    BY <1>1, <1>11, <2>1, <2>2 DEF DownType
<1>7. DownAddsUp'
  <2>1. SumFunction(down'.windows) = down'.total
    BY <1>3, <1>5 DEF DownAddsUp
  <2>2. Untold' = Untold
    BY <1>1 DEF Untold
  <2>3. delivered'[s] = delivered[s] + 1 /\ delivered[s] \in Nat
    BY <1>1, <1>11
  <2>4. /\ \A t \in Untold : delivered[t] \in Nat /\ delivered'[t] \in Nat
        /\ \A t \in Untold \ {s} : delivered[t] = delivered'[t]
    BY <1>1, <1>10, <1>11
  <2>5. SumOf(delivered', Untold) + delivered[s]
          = SumOf(delivered, Untold) + delivered'[s]
    <3>1. s \in Untold /\ IsFiniteSet(Untold)
      BY <1>1, <1>10
    <3> QED
      BY <2>4, <3>1, SumChange
  <2>6. SumOf(delivered', Untold) \in Nat
    BY <1>10, <2>4, SumNat
  <2>7. SumOf(delivered', Untold) = SumOf(delivered, Untold) + 1
    BY <1>10, <2>3, <2>5, <2>6
  <2>8. down'.total = down'.serverFrames + SumOf(delivered', Untold)
    BY <1>3, <1>10, <2>7
  <2> QED
    BY <2>1, <2>2, <2>8, SumFunctionOnSetIsSum DEF DownAddsUp
<1>8. DownStaged'
  <2>1. \A t \in Stream : downStream[t] = "waiting" => delivered'[t] = 0
    BY <1>1 DEF DownStaged, DownType
  <2> QED
    BY <1>1, <2>1 DEF DownStaged, Loading
<1>9. FinalTells'
  <2>1. phase # "final"
    BY <1>1 DEF DownStaged, Loading
  <2> QED
    BY <1>1, <2>1 DEF FinalTells
<1> QED
  BY <1>6, <1>7, <1>8, <1>9

\* DOWN_DONE moves what arrived on the stream to what the server has told.
LEMMA DownDoneKeeps ==
  ASSUME DownInv, NEW s \in Stream, DownDone(s)
  PROVE  DownInv'
<1> USE DEF DownInv
<1>1. /\ downStream[s] = "loading" /\ s \in Untold
      /\ downStream' = [downStream EXCEPT ![s] = "done"]
      /\ UNCHANGED <<plan, phase, delivered, downElapsed, caveats, msg>>
  BY DEF DownDone, Untold
<1>2. PICK D \in SUBSET Window :
        down \in [windows : [D -> Nat], total : Nat, serverFrames : Nat]
  BY DEF DownType
<1>3. down' = [windows |-> down.windows, total |-> down.total,
               serverFrames |-> down.serverFrames + delivered[s]]
  BY <1>2 DEF DownDone
<1>4. /\ SumOf(delivered, Untold) \in Nat /\ IsFiniteSet(Untold)
      /\ down.total = down.serverFrames + SumOf(delivered, Untold)
      /\ down.total \in Nat /\ down.serverFrames \in Nat
      /\ \A t \in Untold : delivered[t] \in Nat
  BY DownFacts
<1>5. DownType'
  <2>1. down' \in [windows : [D -> Nat], total : Nat, serverFrames : Nat]
    BY <1>1, <1>2, <1>3, <1>4
  <2>2. downStream' \in
          [Stream -> {"waiting", "loading", "done", "closed"}]
    BY <1>1 DEF DownType
  <2> QED
    BY <1>1, <1>2, <2>1, <2>2 DEF DownType
<1>6. DownAddsUp'
  <2>1. Untold' = Untold \ {s}
    BY <1>1 DEF Untold, DownType
  <2>2. SumOf(delivered, Untold)
          = delivered[s] + SumOf(delivered, Untold \ {s})
    <3>1. s \in Untold
      BY <1>1
    <3> QED
      BY <1>4, <3>1, SumTakeOut
  <2>3. SumOf(delivered, Untold \ {s}) \in Nat
    <3>1. IsFiniteSet(Untold \ {s})
      BY <1>4, FS_Subset
    <3> QED
      BY <1>4, <3>1, SumNat
  <2>4. SumFunctionOnSet(delivered', Untold')
          = SumOf(delivered, Untold \ {s})
    BY <1>1, <2>1, SumFunctionOnSetIsSum
  <2>5. delivered[s] \in Nat
    BY <1>1, <1>4
  <2> QED
    BY <1>3, <1>4, <2>2, <2>3, <2>4, <2>5 DEF DownAddsUp
<1>7. DownStaged'
  BY <1>1, <1>3 DEF DownStaged, DownType, Loading
<1>8. FinalTells'
  <2>1. phase # "final"
    BY <1>1 DEF DownStaged, Loading
  <2> QED
    BY <1>1, <2>1 DEF FinalTells
<1> QED
  BY <1>5, <1>6, <1>7, <1>8

\* FINAL tells what the invariant says; the page forgets the rest.
LEMMA SendFinalKeeps ==
  ASSUME DownInv, SendFinal
  PROVE  DownInv'
<1> USE DEF DownInv
<1>1. /\ phase \in {"download", "upload"} /\ Loading = {}
      /\ phase' = "final"
      /\ msg'.samples = buildDownloadSamples(down.windows)
      /\ msg'.total = down.total
      /\ msg'.serverFrames = down.serverFrames
      /\ msg'.caveats = caveats
      /\ delivered' = [s \in Stream |-> 0]
      /\ downStream' = [s \in Stream |-> "waiting"]
      /\ downElapsed' = 0 /\ down' = Nothing
      /\ UNCHANGED <<plan, caveats>>
  <2>1. /\ phase \in {"download", "upload"} /\ Loading = {}
        /\ phase' = "final"
    BY DEF SendFinal, DownStaged
  <2>2. /\ msg'.samples = buildDownloadSamples(down.windows)
        /\ msg'.total = down.total
        /\ msg'.serverFrames = down.serverFrames
        /\ msg'.caveats = caveats
    <3>1. PICK l : msg' = [samples |-> buildDownloadSamples(down.windows),
                           total |-> down.total,
                           serverFrames |-> down.serverFrames,
                           latency |-> l, caveats |-> caveats]
      BY DEF SendFinal
    <3> QED
      BY <3>1
  <2> QED
    BY <2>1, <2>2 DEF SendFinal
<1>2. PICK D \in SUBSET Window :
        down \in [windows : [D -> Nat], total : Nat, serverFrames : Nat]
  BY DEF DownType
<1>3. DownType'
  <2>1. /\ 0 \in Window
        /\ \E E \in SUBSET Window :
             down' \in [windows : [E -> Nat], total : Nat, serverFrames : Nat]
    BY <1>1, UploadAssumption, NothingAddsUp DEF Window
  <2> QED
    BY <1>1, <2>1 DEF DownType, Phase
<1>4. DownAddsUp'
  <2>1. Untold' \in SUBSET Stream
    BY DEF Untold
  <2>2. SumFunctionOnSet(delivered', Untold') = 0
    BY <1>1, <2>1, NothingAddsUp
  <2> QED
    BY <1>1, <2>2, NothingAddsUp DEF DownAddsUp
<1>5. DownStaged'
  BY <1>1 DEF DownStaged, Loading
<1>6. FinalTells'
  <2>1. down.windows \in [D -> Nat] /\ DOMAIN down.windows = D
    BY <1>2
  <2>2. /\ \E n \in 0 .. MaxWindow + 1 : msg'.samples \in [0 .. n - 1 -> Nat]
        /\ SumFunction(msg'.samples) = SumFunction(down.windows)
        /\ D = {} => DOMAIN msg'.samples = {}
    BY <1>1, <1>2, <2>1, SamplesAddUp
  <2>3. SumFunction(msg'.samples) = msg'.total
    BY <1>1, <2>2 DEF DownAddsUp
  <2>4. plan'.direction = "upload" => DOMAIN msg'.samples = {}
    <3>1. plan.direction = "upload" => DOMAIN down.windows = {}
      <4>1. DOMAIN Nothing.windows = {}
        BY DEF Nothing, NoSamples
      <4> QED
        BY <4>1 DEF DownStaged
    <3> QED
      BY <1>1, <2>1, <2>2, <3>1
  <2>5. msg'.caveats \in SUBSET {"stream closed"}
    BY <1>1 DEF DownType
  <2>6. ASSUME "stream closed" \notin msg'.caveats
        PROVE  msg'.total = msg'.serverFrames
    <3>1. /\ SumOf(delivered, Untold) \in Nat /\ IsFiniteSet(Untold)
          /\ down.total = down.serverFrames + SumOf(delivered, Untold)
          /\ down.serverFrames \in Nat
      BY DownFacts
    <3>2. \A s \in Untold : delivered[s] = 0
      BY <1>1, <2>6 DEF Untold, DownStaged, DownType, Loading
    <3>3. SumOf(delivered, Untold) = SumOf(delivered, {})
      <4>1. {} \in SUBSET Untold /\ \A s \in Untold : delivered[s] \in Nat
        BY <3>2
      <4> QED
        BY <3>1, <3>2, <4>1, SumWithoutZeros
    <3>4. SumOf(delivered, {}) = 0
      BY FS_EmptySet, SumStep
    <3> QED
      BY <1>1, <3>1, <3>3, <3>4
  <2> QED
    BY <2>2, <2>3, <2>4, <2>5, <2>6 DEF FinalTells
<1> QED
  BY <1>3, <1>4, <1>5, <1>6

\* What else the page does leaves the figures of the download alone.
LEMMA DownStep ==
  ASSUME DownInv, [MeasurementNext]_vars
  PROVE  DownInv'
<1> USE DEF DownInv
<1>1. CASE UNCHANGED <<plan, phase, downStream, delivered, downElapsed, down,
                       caveats, msg>>
  BY <1>1 DEF DownType, DownAddsUp, DownStaged, FinalTells, Untold, Loading
<1>2. CASE DownTick
  <2>1. /\ downElapsed' = downElapsed + 1 /\ downElapsed < plan.windows
        /\ UNCHANGED <<plan, phase, downStream, delivered, down, caveats, msg>>
    BY <1>2 DEF DownTick
  <2>2. downElapsed' \in Window
    <3>1. plan.windows \in Window /\ downElapsed \in Window
      BY DEF DownType, Plan
    <3> QED
      BY <2>1, <3>1, UploadAssumption DEF Window
  <2>3. DownType'
    BY <2>1, <2>2 DEF DownType
  <2> QED
    BY <2>1, <2>3 DEF DownAddsUp, DownStaged, FinalTells, Untold, Loading
<1>3. CASE BeginDownload
  <2>1. /\ phase = "latency" /\ phase' = "download"
        /\ plan.direction # "upload"
        /\ downStream' = [s \in Stream |->
                            IF s \in plan.streams THEN "loading" ELSE "waiting"]
        /\ UNCHANGED <<plan, delivered, downElapsed, down, caveats, msg>>
    BY <1>3 DEF BeginDownload
  <2>2. \A s \in Stream : downStream[s] = "waiting"
    BY <2>1 DEF DownStaged
  <2>3. Untold' = Untold
    BY <2>1, <2>2 DEF Untold
  <2>4. DownType'
    BY <2>1 DEF DownType, Phase
  <2>5. DownStaged'
    BY <2>1, <2>2 DEF DownStaged
  <2> QED
    BY <2>1, <2>3, <2>4, <2>5 DEF DownAddsUp, FinalTells
<1>4. CASE BeginUpload
  <2>1. /\ phase' = "upload"
        /\ Loading = {} \/ plan.direction = "upload"
        /\ UNCHANGED <<plan, downStream, delivered, downElapsed, down, caveats,
                       msg>>
    BY <1>4 DEF BeginUpload
  <2>2. Loading = {}
    BY <2>1 DEF DownStaged, Loading
  <2>3. DownType' /\ phase' # "final" /\ phase' # "latency"
    BY <2>1 DEF DownType, Phase
  <2>4. DownStaged'
    BY <2>1, <2>2, <2>3 DEF DownStaged, Loading
  <2> QED
    BY <2>1, <2>3, <2>4 DEF DownAddsUp, FinalTells, Untold
<1>5. ASSUME NEW s \in Stream, DownClosed(s) PROVE DownInv'
  <2>1. /\ downStream[s] = "loading"
        /\ downStream' = [downStream EXCEPT ![s] = "closed"]
        /\ caveats' = caveats \cup {"stream closed"}
        /\ UNCHANGED <<plan, phase, delivered, downElapsed, down, msg>>
    BY <1>5 DEF DownClosed
  <2>2. Untold' = Untold
    BY <2>1 DEF Untold, DownType
  <2>3. DownType'
    BY <2>1 DEF DownType
  <2>4. DownStaged'
    BY <2>1 DEF DownStaged, DownType, Loading
  <2>5. FinalTells'
    <3>1. phase # "final"
      BY <2>1 DEF DownStaged, Loading
    <3> QED
      BY <2>1, <3>1 DEF FinalTells
  <2> QED
    BY <2>1, <2>2, <2>3, <2>4, <2>5 DEF DownAddsUp
<1>6. CASE HandleFinal
  <2>1. /\ phase = "final" /\ phase' = "stored"
        /\ UNCHANGED <<plan, downStream, delivered, downElapsed, down, caveats>>
    BY <1>6 DEF HandleFinal
  <2>2. DownType' /\ FinalTells'
    BY <2>1 DEF DownType, Phase, FinalTells
  <2>3. DownStaged'
    BY <2>1 DEF DownStaged, Loading
  <2> QED
    BY <2>1, <2>2, <2>3 DEF DownAddsUp, Untold
<1>7. SendPing \/ OnPong \/ UploadStep \/ UNCHANGED vars =>
        UNCHANGED <<plan, phase, downStream, delivered, downElapsed, down,
                    caveats, msg>>
  BY DEF SendPing, OnPong, UploadStep, vars, pageVars
<1> QED
  BY <1>1, <1>2, <1>3, <1>4, <1>5, <1>6, <1>7, DownDataKeeps, DownDoneKeeps,
     SendFinalKeeps DEF MeasurementNext

LEMMA DownInvHolds == MeasurementSpec => []DownInv
  BY DownInitial, DownStep, PTL DEF MeasurementSpec

\* What FINAL reports of the download has no holes and adds up to the frames
\* that the page received, for any number of streams, frames and windows and
\* any pauses (bindStream, buildDownloadSamples).
THEOREM DownloadIsCompleteHolds == MeasurementSpec => []DownloadIsComplete
<1>1. DownInv => DownloadIsComplete
  <2> SUFFICES ASSUME DownInv, phase = "final"
               PROVE  /\ DOMAIN msg.samples
                           = 0 .. Cardinality(DOMAIN msg.samples) - 1
                      /\ SumFunction(msg.samples) = msg.total
    BY DEF DownloadIsComplete
  <2>1. PICK n \in 0 .. MaxWindow + 1 : msg.samples \in [0 .. n - 1 -> Nat]
    BY DEF DownInv, FinalTells
  <2>2. n \in Nat /\ DOMAIN msg.samples = 0 .. n - 1
    BY <2>1, UploadAssumption
  <2>3. Cardinality(0 .. n - 1) = n
    BY <2>2, FS_Interval
  <2> QED
    BY <2>2, <2>3 DEF DownInv, FinalTells
<1> QED
  BY <1>1, DownInvHolds, PTL

LEMMA ReasonsNamed ==
  ASSUME NEW bb
  PROVE  /\ CaveatReason(bb) \in {"buffer", "answered", "lag"}
         /\ VerdictReason(bb) \in {"buffer", "answered", "lag"}
BY DEF CaveatReason, VerdictReason

LEMMA FinalTotal ==
  ASSUME DownInv, phase = "final"
  PROVE  msg.total \in Nat
<1>1. PICK n \in 0 .. MaxWindow + 1 : msg.samples \in [0 .. n - 1 -> Nat]
  BY DEF DownInv, FinalTells
<1>2. n \in Nat /\ DOMAIN msg.samples = 0 .. n - 1
  BY <1>1, UploadAssumption
<1>3. IsFiniteSet(0 .. n - 1)
  BY <1>2, FS_Interval
<1>4. SumOf(msg.samples, 0 .. n - 1) \in Nat
  BY <1>1, <1>3, SumNat
<1>5. SumFunction(msg.samples) = msg.total
  BY DEF DownInv, FinalTells
<1> QED
  BY <1>2, <1>4, <1>5, SumFunctionOnSetIsSum DEF SumFunction

\* Equal counts do not differ.
LEMMA EqualDoNotDiffer ==
  ASSUME NEW n \in Nat, n > 0
  PROVE  ~Differ(n, n)
<1>1. {n - n, n - n} = {0} /\ {0} \subseteq Int /\ IsFiniteSet({0})
  BY FS_Singleton
<1>2. Max({0}) = 0
  BY <1>1, MaxIsLargest
<1> QED
  BY <1>1, <1>2 DEF Differ

\* The server blames the download for a difference only when a stream dropped
\* and the page has said so, for any number of streams and frames: DOWN_DONE
\* never overtakes the frames it counts (handleFinal's DownloadDeltaPct).
THEOREM DropsExplainDifferenceHolds ==
  MeasurementSpec => []DropsExplainDifference
<1>1. MeasurementInit => DropsExplainDifference
  BY DEF MeasurementInit, DropsExplainDifference
<1>2. DownInv /\ DropsExplainDifference /\ [MeasurementNext]_vars
        => DropsExplainDifference'
  <2> SUFFICES ASSUME DownInv, DropsExplainDifference, [MeasurementNext]_vars
               PROVE  DropsExplainDifference'
    OBVIOUS
  <2>1. CASE HandleFinal
    <3> SUFFICES ASSUME "server sent more" \in run'.caveats,
                        "stream closed" \notin run'.caveats
                 PROVE  FALSE
      BY DEF DropsExplainDifference
    <3> DEFINE peak == Max({Summarize(TrimWarmup(TrimTail(msg.samples))).p95,
                            Summarize(upResult.series).p95})
               bb == ComputeBufferbloat(msg.latency, peak)
               doubted == ~bb.trustworthy /\ bb.grade # "?"
    <3>1. run'.caveats = msg.caveats
            \cup (IF /\ msg.serverFrames > 0 /\ msg.total > 0
                    /\ Differ(msg.total, msg.serverFrames)
                 THEN {"server sent more"} ELSE {})
            \cup (IF doubted THEN {CaveatReason(bb)} ELSE {})
      BY <2>1 DEF HandleFinal
    <3> HIDE DEF doubted, bb
    <3>2. /\ msg.caveats \in SUBSET {"stream closed"}
          /\ "stream closed" \notin msg.caveats
                => msg.total = msg.serverFrames
      BY <2>1 DEF HandleFinal, DownInv, FinalTells
    <3>3. /\ msg.serverFrames > 0 /\ msg.total > 0
          /\ Differ(msg.total, msg.serverFrames)
      BY <3>1, <3>2, ReasonsNamed
    <3>4. msg.total = msg.serverFrames
      BY <3>1, <3>2
    <3>5. msg.total \in Nat
      BY <2>1, FinalTotal DEF HandleFinal
    <3> QED
      BY <3>3, <3>4, <3>5, EqualDoNotDiffer
  <2>2. CASE phase' = phase /\ run' = run
    BY <2>2 DEF DropsExplainDifference
  <2>3. CASE phase' # "stored"
    BY <2>3 DEF DropsExplainDifference
  <2>4. BeginDownload \/ BeginUpload \/ SendFinal => phase' # "stored"
    BY DEF BeginDownload, BeginUpload, SendFinal
  <2>5. SendPing \/ OnPong \/ DownTick \/ UploadStep \/ UNCHANGED vars =>
          phase' = phase /\ run' = run
    BY DEF SendPing, OnPong, DownTick, UploadStep, vars, pageVars
  <2>6. ASSUME NEW s \in Stream, DownData(s) \/ DownDone(s) \/ DownClosed(s)
        PROVE  phase' = phase /\ run' = run
    BY <2>6 DEF DownData, DownDone, DownClosed
  <2> QED
    BY <2>1, <2>2, <2>3, <2>4, <2>5, <2>6 DEF MeasurementNext
<1> QED
  BY <1>1, <1>2, DownInvHolds, PTL DEF MeasurementSpec

\* In a run too the measured upload is exact.
COROLLARY RunResultIsExact == MeasurementSpec => []ResultIsExact
BY ResultIsExactHolds, MeasurementImplementsUpload, PTL

-----------------------------------------------------------------------------
(* The figures *)

\* What HandleFinal finds when FINAL arrives: a result only of an upload, and
\* latency in numbers.
FiguresInv ==
  /\ ~upFinal => upResult = NoResult
  /\ plan.direction = "download" => phase # "upload" /\ ~upFinal
  /\ phase = "final" => LatencyOK(msg.latency)

LEMMA RoundTripFigures ==
  ASSUME NEW n \in Nat, NEW rtts \in RoundTrips(n), NEW k \in Nat,
         NEW l, l = SummarizeLatency(rtts, k)
  PROVE  /\ l.count \in Nat /\ l.sent \in Nat
         /\ l.p50 \in Int /\ l.p95 \in Int
<1>1. PICK slow \in RttMs :
        rtts = [i \in 1 .. n |-> IF i = n THEN slow ELSE Min(RttMs)]
  BY DEF RoundTrips
<1>2. Min(RttMs) \in Nat
  <2>1. PICK m \in RttMs : \A x \in RttMs : m <= x
    BY <1>1, MeasurementAssumption, LeastExists
  <2> QED
    BY <2>1, MeasurementAssumption DEF Min
<1>3. rtts \in [1 .. n -> Nat]
  <2>1. slow \in Nat
    BY <1>1, MeasurementAssumption
  <2> QED
    BY <1>1, <1>2, <2>1
<1>4. IsFiniteSet(1 .. n) /\ DOMAIN rtts = 1 .. n
  BY <1>3, FS_Interval
<1>5. Cardinality(DOMAIN rtts) \in Nat
  BY <1>4, FS_CardinalityType
<1>6. Percentile(rtts, 50) \in Int /\ Percentile(rtts, 95) \in Int
  BY <1>3, <1>4, PercentileIsNumber
<1> QED
  BY <1>5, <1>6 DEF SummarizeLatency

LEMMA SendFinalLatency ==
  ASSUME PingInv, SendFinal
  PROVE  LatencyOK(msg'.latency)
<1>1. PICK idle \in RoundTrips(replies["idle"]),
           dl \in RoundTrips(replies["download"]),
           ul \in RoundTrips(replies["upload"]), lag \in LagMs :
        msg' = [samples |-> buildDownloadSamples(down.windows),
                total |-> down.total, serverFrames |-> down.serverFrames,
                latency |->
                  [idle |-> SummarizeLatency(idle, sent["idle"]),
                   download |-> SummarizeLatency(dl, sent["download"]),
                   upload |-> SummarizeLatency(ul, sent["upload"]),
                   lag |-> lag],
                caveats |-> caveats]
  BY DEF SendFinal
<1>2. \A b \in {"idle", "download", "upload"} :
        replies[b] \in Nat /\ sent[b] \in Nat
  BY DEF PingInv, PingTypeOK, Bucket
<1>3. /\ msg'.latency.idle = SummarizeLatency(idle, sent["idle"])
      /\ msg'.latency.download = SummarizeLatency(dl, sent["download"])
      /\ msg'.latency.upload = SummarizeLatency(ul, sent["upload"])
      /\ msg'.latency.lag = lag
      /\ msg'.latency["download"] = msg'.latency.download
      /\ msg'.latency["upload"] = msg'.latency.upload
  BY <1>1
<1>4. msg'.latency.idle.p50 \in Int
  BY <1>1, <1>2, <1>3, RoundTripFigures
<1>5. /\ msg'.latency.download.count \in Nat
      /\ msg'.latency.download.sent \in Nat
      /\ msg'.latency.download.p95 \in Int
  BY <1>1, <1>2, <1>3, RoundTripFigures
<1>6. /\ msg'.latency.upload.count \in Nat /\ msg'.latency.upload.sent \in Nat
      /\ msg'.latency.upload.p95 \in Int
  BY <1>1, <1>2, <1>3, RoundTripFigures
<1>7. lag \in Nat
  BY <1>1, MeasurementAssumption
<1> QED
  BY <1>3, <1>4, <1>5, <1>6, <1>7 DEF LatencyOK

LEMMA FiguresInitial == MeasurementInit => FiguresInv
BY DEF MeasurementInit, UploadInit, FiguresInv

LEMMA FiguresStep ==
  ASSUME FiguresInv, PingInv, plan \in Plan, [MeasurementNext]_vars
  PROVE  FiguresInv'
<1> USE DEF FiguresInv
<1>1. CASE UNCHANGED <<plan, phase, upFinal, upResult, msg>>
  BY <1>1
<1>2. CASE BeginDownload \/ BeginUpload
  <2>1. /\ UNCHANGED <<plan, upFinal, upResult>> /\ phase' # "final"
        /\ phase' = "upload" => plan.direction # "download"
    BY <1>2 DEF BeginDownload, BeginUpload, uploadVars
  <2>2. plan.direction = "download" => ~upFinal
    OBVIOUS
  <2> QED
    BY <2>1, <2>2
<1>3. CASE UploadStep
  <2>1. /\ phase = "upload" /\ UNCHANGED <<plan, phase, msg>>
        /\ Tick \/ \E s \in plan.streams : Begin(s) \/ Receive(s) \/ End(s)
    BY <1>3 DEF UploadStep, pageVars
  <2>2. ~upFinal' => upResult' = NoResult
    BY <2>1 DEF Tick, Begin, Receive, End
  <2> QED
    BY <2>1, <2>2
<1>4. CASE SendFinal
  <2>1. UNCHANGED <<upFinal, upResult, plan>> /\ phase' = "final"
    BY <1>4 DEF SendFinal, uploadVars
  <2> QED
    BY <1>4, <2>1, SendFinalLatency
<1>5. CASE HandleFinal
  BY <1>5 DEF HandleFinal, uploadVars
<1>6. SendPing \/ OnPong \/ DownTick \/ UNCHANGED vars =>
        UNCHANGED <<plan, phase, upFinal, upResult, msg>>
  BY DEF SendPing, OnPong, DownTick, vars, uploadVars, pageVars
<1>7. ASSUME NEW s \in Stream, DownData(s) \/ DownDone(s) \/ DownClosed(s)
      PROVE  UNCHANGED <<plan, phase, upFinal, upResult, msg>>
  BY <1>7 DEF DownData, DownDone, DownClosed, uploadVars
<1> QED
  BY <1>1, <1>2, <1>3, <1>4, <1>5, <1>6, <1>7 DEF MeasurementNext

LEMMA FiguresInvHolds == MeasurementSpec => [](FiguresInv /\ PingInv)
BY FiguresInitial, FiguresStep, PingInitial, PingStep, PlanIsFixed, PTL
DEF MeasurementSpec

\* The figures of a series are numbers, and there are samples unless it is
\* empty.
LEMMA SummaryFigures ==
  ASSUME NEW series, IsFiniteSet(DOMAIN series),
         \A w \in DOMAIN series : series[w] \in Nat
  PROVE  /\ Summarize(series).samples \in Nat
         /\ Summarize(series).samples = 0 <=> DOMAIN series = {}
         /\ Summarize(series).p95 \in Int
<1> DEFINE rate == [w \in DOMAIN series |-> Mbps(series[w])]
<1>1. rate \in [DOMAIN series -> Nat]
  <2>1. \A w \in DOMAIN series : Mbps(series[w]) \in Nat
    BY StatsAssumption DEF Mbps
  <2> QED
    BY <2>1
<1>2. /\ Summarize(series).samples = Cardinality(DOMAIN series)
      /\ Summarize(series).p95 = Percentile(rate, 95)
  BY DEF Summarize
<1> HIDE DEF rate
<1>3. Percentile(rate, 95) \in Int
  BY <1>1, PercentileIsNumber
<1>4. /\ Cardinality(DOMAIN series) \in Nat
      /\ Cardinality(DOMAIN series) = 0 <=> DOMAIN series = {}
  BY FS_CardinalityType, FS_EmptySet
<1> QED
  BY <1>2, <1>3, <1>4

\* What HandleFinal makes of FINAL and of RESULT.
LEMMA FinalFigures ==
  ASSUME DownInv, ResultInv, FiguresInv, phase = "final",
         NEW dl, dl = Summarize(TrimWarmup(TrimTail(msg.samples))),
         NEW ul, ul = Summarize(upResult.series)
  PROVE  /\ dl.samples \in Nat /\ dl.p95 \in Int
         /\ ul.samples \in Nat /\ ul.p95 \in Int
         /\ plan.direction = "upload" => dl.samples = 0
         /\ plan.direction = "download" => ul.samples = 0
<1> DEFINE trimmed == TrimWarmup(TrimTail(msg.samples))
<1>1. PICK n \in 0 .. MaxWindow + 1 : msg.samples \in [0 .. n - 1 -> Nat]
  BY DEF DownInv, FinalTells
<1>2. n \in Nat /\ DOMAIN msg.samples = 0 .. n - 1
  BY <1>1, UploadAssumption
<1>3. /\ DOMAIN trimmed = {w \in 0 .. n - 2 : AtMs(w) > WarmupMs}
      /\ \A w \in DOMAIN trimmed : trimmed[w] = msg.samples[w]
  BY <1>2, TrimmedSeries
<1> HIDE DEF trimmed
<1>4. IsFiniteSet(DOMAIN trimmed) /\ DOMAIN trimmed \subseteq DOMAIN msg.samples
  <2>1. DOMAIN trimmed \subseteq 0 .. n - 1
    BY <1>2, <1>3
  <2>2. IsFiniteSet(0 .. n - 1)
    BY <1>2, FS_Interval
  <2> QED
    BY <1>2, <2>1, <2>2, FS_Subset
<1>5. \A w \in DOMAIN trimmed : trimmed[w] \in Nat
  BY <1>1, <1>2, <1>3, <1>4
<1>6. /\ dl.samples \in Nat /\ dl.p95 \in Int
      /\ dl.samples = 0 <=> DOMAIN trimmed = {}
  BY <1>4, <1>5, SummaryFigures DEF trimmed
<1>7. plan.direction = "upload" => dl.samples = 0
  BY <1>4, <1>6 DEF DownInv, FinalTells
<1>8. /\ IsFiniteSet(DOMAIN upResult.series)
      /\ \A w \in DOMAIN upResult.series : upResult.series[w] \in Nat
      /\ ~upFinal => DOMAIN upResult.series = {}
  <2>1. CASE ~upFinal
    <3>1. DOMAIN upResult.series = {}
      BY <2>1 DEF FiguresInv, NoResult, NoSamples
    <3> QED
      BY <3>1, FS_EmptySet
  <2>2. CASE upFinal
    BY <2>2, UploadedSeries
  <2> QED
    BY <2>1, <2>2
<1>9. /\ ul.samples \in Nat /\ ul.p95 \in Int
      /\ ul.samples = 0 <=> DOMAIN upResult.series = {}
  BY <1>8, SummaryFigures
<1>10. plan.direction = "download" => ul.samples = 0
  BY <1>8, <1>9 DEF FiguresInv
<1> QED
  BY <1>6, <1>7, <1>9, <1>10

\* The directions a verdict gives a figure for are those that have samples.
LEMMA VerdictFigures ==
  ASSUME NEW dl, NEW ul, dl.samples \in Nat, ul.samples \in Nat,
         NEW bb, NEW direction \in Direction,
         direction = "upload" => dl.samples = 0,
         direction = "download" => ul.samples = 0
  PROVE  /\ "download" \in BuildVerdict(dl, ul, bb, direction).figures <=>
              direction \in {"download", "both"} /\ dl.samples > 0
         /\ "upload" \in BuildVerdict(dl, ul, bb, direction).figures <=>
              direction \in {"upload", "both"} /\ ul.samples > 0
         /\ BuildVerdict(dl, ul, bb, direction).figures
              \subseteq {"download", "upload"}
<1> DEFINE verdict == BuildVerdict(dl, ul, bb, direction)
<1>1. CASE dl.samples = 0 /\ ul.samples = 0
  <2>1. verdict.figures = {}
    BY <1>1 DEF BuildVerdict
  <2> QED
    BY <1>1, <2>1
<1>2. CASE ~(dl.samples = 0 /\ ul.samples = 0)
  <2>1. verdict.figures =
          CASE direction = "download" \/ ul.samples = 0 -> {"download"}
            [] direction # "download" /\ ul.samples # 0
               /\ (direction = "upload" \/ dl.samples = 0) -> {"upload"}
            [] OTHER -> {"download", "upload"}
    BY <1>2 DEF BuildVerdict
  <2> HIDE DEF verdict
  <2>2. CASE direction = "download" \/ ul.samples = 0
    <3>1. verdict.figures = {"download"}
      BY <2>1, <2>2
    <3>2. ul.samples = 0 /\ dl.samples > 0
      BY <1>2, <2>2
    <3>3. direction \in {"download", "both"}
      BY <3>2 DEF Direction
    <3> QED
      BY <3>1, <3>2, <3>3 DEF verdict
  <2>3. CASE direction # "download" /\ ul.samples # 0
               /\ (direction = "upload" \/ dl.samples = 0)
    <3>1. verdict.figures = {"upload"}
      BY <2>1, <2>3
    <3>2. direction \in {"upload", "both"} /\ ul.samples > 0 /\ dl.samples = 0
      BY <2>3 DEF Direction
    <3> QED
      BY <3>1, <3>2 DEF verdict
  <2>4. CASE direction = "both" /\ ul.samples # 0 /\ dl.samples # 0
    <3>1. verdict.figures = {"download", "upload"}
      BY <2>1, <2>4
    <3> QED
      BY <2>4, <3>1 DEF verdict
  <2> QED
    BY <2>2, <2>3, <2>4 DEF Direction
<1> QED
  BY <1>1, <1>2

\* What is stored stays as it is, and only HandleFinal stores.
LEMMA StoredOnce ==
  ASSUME DownInv, [MeasurementNext]_vars, phase' = "stored"
  PROVE  \/ HandleFinal
         \/ phase = "stored" /\ UNCHANGED <<run, plan>>
<1>1. ~(BeginDownload \/ BeginUpload \/ SendFinal)
  BY DEF BeginDownload, BeginUpload, SendFinal
<1>2. SendPing \/ OnPong \/ DownTick \/ UploadStep \/ UNCHANGED vars =>
        UNCHANGED <<phase, run, plan>>
  BY DEF SendPing, OnPong, DownTick, UploadStep, vars, pageVars
<1>3. ASSUME NEW s \in Stream, DownData(s) \/ DownDone(s) \/ DownClosed(s)
      PROVE  UNCHANGED <<phase, run, plan>>
  BY <1>3 DEF DownData, DownDone, DownClosed
<1> QED
  BY <1>1, <1>2, <1>3 DEF MeasurementNext

\* The verdict gives a figure for exactly the directions that were planned and
\* measured, whatever was trimmed away (BuildVerdict).
THEOREM FiguresAreMeasuredHolds == MeasurementSpec => []FiguresAreMeasured
<1>1. MeasurementInit => FiguresAreMeasured
  BY DEF MeasurementInit, FiguresAreMeasured
<1>2. DownInv /\ ResultInv /\ FiguresInv /\ FiguresAreMeasured
        /\ [MeasurementNext]_vars => FiguresAreMeasured'
  <2> SUFFICES ASSUME DownInv, ResultInv, FiguresInv, FiguresAreMeasured,
                      [MeasurementNext]_vars, phase' = "stored"
               PROVE  FiguresAreMeasured'
    BY DEF FiguresAreMeasured
  <2>1. CASE HandleFinal
    <3> DEFINE dl == Summarize(TrimWarmup(TrimTail(msg.samples)))
               ul == Summarize(upResult.series)
               bb == ComputeBufferbloat(msg.latency, Max({dl.p95, ul.p95}))
    <3>1. /\ phase = "final" /\ plan' = plan
          /\ run'.verdict = BuildVerdict(dl, ul, bb, plan.direction)
          /\ run'["download"] = dl /\ run'["upload"] = ul
      BY <2>1 DEF HandleFinal
    <3>2. /\ dl.samples \in Nat /\ ul.samples \in Nat
          /\ plan.direction = "upload" => dl.samples = 0
          /\ plan.direction = "download" => ul.samples = 0
      BY <3>1, FinalFigures
    <3>3. plan.direction \in Direction
      BY DEF DownInv, DownType, Plan
    <3> HIDE DEF dl, ul, bb
    <3>4. /\ "download" \in run'.verdict.figures <=>
               plan.direction \in {"download", "both"} /\ dl.samples > 0
          /\ "upload" \in run'.verdict.figures <=>
               plan.direction \in {"upload", "both"} /\ ul.samples > 0
          /\ run'.verdict.figures \subseteq {"download", "upload"}
      BY <3>1, <3>2, <3>3, VerdictFigures
    <3> QED
      BY <3>1, <3>4 DEF FiguresAreMeasured
  <2>2. CASE phase = "stored" /\ UNCHANGED <<run, plan>>
    BY <2>2 DEF FiguresAreMeasured
  <2> QED
    BY <2>1, <2>2, StoredOnce
<1>3. MeasurementSpec => []ResultInv
  BY ResultInvHolds, MeasurementImplementsUpload, PTL
<1> QED
  BY <1>1, <1>2, <1>3, DownInvHolds, FiguresInvHolds, PTL DEF MeasurementSpec

\* What the verdict says of the latency when it gives a figure.
LEMMA VerdictLatency ==
  ASSUME NEW dl, NEW ul, NEW bb, NEW direction,
         BuildVerdict(dl, ul, bb, direction).figures # {},
         bb.grade \in {"C", "D", "F"}
  PROVE  BuildVerdict(dl, ul, bb, direction).latency =
           IF bb.trustworthy THEN "trusted" ELSE VerdictReason(bb)
<1>1. ~(dl.samples = 0 /\ ul.samples = 0)
  BY DEF BuildVerdict
<1>2. BuildVerdict(dl, ul, bb, direction).latency =
        CASE bb.grade = "?" -> "not measured"
          [] bb.grade # "?" /\ ~bb.trustworthy -> VerdictReason(bb)
          [] OTHER -> "trusted"
  BY <1>1 DEF BuildVerdict
<1> QED
  BY <1>2

\* The doubts of any figures.
DoubtsIn(figures) ==
  {r \in {"answered", "buffer", "lag"} :
     LET late == figures.bufferbloat.delta
     IN CASE r = "answered" ->
               \E d \in {"download", "upload"} :
                  2 * figures.latency[d].count < figures.latency[d].sent
          [] r = "buffer" ->
               \E d \in {"download", "upload"} :
                  figures[d].p95 * late * 125 > 256 * 1024 * 1024
          [] r = "lag" ->
               figures.latency.lag >= 15 /\ 2 * figures.latency.lag >= late}

\* They are what the bufferbloat of the figures is not trusted for.
LEMMA DoubtsOf ==
  ASSUME NEW figures, LatencyOK(figures.latency),
         NEW bb, figures.bufferbloat = bb, bb.grade \in {"C", "D", "F"},
         NEW down95 \in Int, down95 = figures["download"].p95,
         NEW up95 \in Int, up95 = figures["upload"].p95,
         bb = ComputeBufferbloat(figures.latency, Max({down95, up95}))
  PROVE  /\ bb.trustworthy <=> LagOK(bb) /\ AnsweredOK(bb) /\ PlausibleOK(bb)
         /\ \A r : r \in DoubtsIn(figures) <=>
                     \/ r = "answered" /\ ~AnsweredOK(bb)
                     \/ r = "buffer" /\ ~PlausibleOK(bb)
                     \/ r = "lag" /\ ~LagOK(bb)
<1>1. /\ bb.trustworthy <=> LagOK(bb) /\ AnsweredOK(bb) /\ PlausibleOK(bb)
      /\ ~AnsweredOK(bb) <=> HalfLost(figures.latency)
      /\ ~PlausibleOK(bb) <=>
           TooFull(down95, bb.delta) \/ TooFull(up95, bb.delta)
      /\ ~LagOK(bb) <=> TimerLate(figures.latency.lag, bb.delta)
  BY BlameOf
<1>2. "answered" \in DoubtsIn(figures) <=> HalfLost(figures.latency)
  BY DEF DoubtsIn, HalfLost
<1>3. "buffer" \in DoubtsIn(figures) <=>
        TooFull(down95, bb.delta) \/ TooFull(up95, bb.delta)
  <2>1. "buffer" \in DoubtsIn(figures) <=>
          \E d \in {"download", "upload"} : TooFull(figures[d].p95, bb.delta)
    BY DEF DoubtsIn, TooFull
  <2> QED
    BY <2>1
<1>4. "lag" \in DoubtsIn(figures) <=> TimerLate(figures.latency.lag, bb.delta)
  BY DEF DoubtsIn, TimerLate
<1>5. \A r \in DoubtsIn(figures) : r \in {"answered", "buffer", "lag"}
  BY DEF DoubtsIn
<1>6. ASSUME NEW r
      PROVE  r \in DoubtsIn(figures) <=> \/ r = "answered" /\ ~AnsweredOK(bb)
                                         \/ r = "buffer" /\ ~PlausibleOK(bb)
                                         \/ r = "lag" /\ ~LagOK(bb)
  <2>1. CASE r = "answered"
    BY <1>1, <1>2, <2>1
  <2>2. CASE r = "buffer"
    BY <1>1, <1>3, <2>2
  <2>3. CASE r = "lag"
    BY <1>1, <1>4, <2>3
  <2> QED
    BY <1>5, <2>1, <2>2, <2>3
<1> QED
  BY <1>1, <1>6

\* Each reason that is given is a check that failed.
LEMMA ReasonsFailed ==
  ASSUME NEW bb, ~(LagOK(bb) /\ AnsweredOK(bb) /\ PlausibleOK(bb)),
         NEW r \in {CaveatReason(bb), VerdictReason(bb)}
  PROVE  \/ r = "answered" /\ ~AnsweredOK(bb)
         \/ r = "buffer" /\ ~PlausibleOK(bb)
         \/ r = "lag" /\ ~LagOK(bb)
BY DEF CaveatReason, VerdictReason

LEMMA BlameOfStored ==
  ASSUME DownInv, ResultInv, FiguresInv, HandleFinal
  PROVE  BlameIsBacked'
<1> DEFINE dl == Summarize(TrimWarmup(TrimTail(msg.samples)))
           ul == Summarize(upResult.series)
           bb == ComputeBufferbloat(msg.latency, Max({dl.p95, ul.p95}))
           doubted == ~bb.trustworthy /\ bb.grade # "?"
           verdict == BuildVerdict(dl, ul, bb, plan.direction)
<1>1. phase = "final" /\ phase' = "stored"
  BY DEF HandleFinal
<1>2. /\ run'["download"] = dl /\ run'["upload"] = ul
      /\ run'.latency = msg.latency /\ run'.bufferbloat = bb
      /\ run'.reliable = ~doubted /\ run'.verdict = verdict
      /\ (IF doubted THEN {CaveatReason(bb)} ELSE {}) \subseteq run'.caveats
  BY DEF HandleFinal
<1>3. dl.p95 \in Int /\ ul.p95 \in Int
  BY <1>1, FinalFigures
<1>4. LatencyOK(msg.latency)
  BY <1>1 DEF FiguresInv
<1> SUFFICES ASSUME bb.grade \in {"C", "D", "F"}, verdict.figures # {}
             PROVE  BlameIsBacked'
  BY <1>2 DEF BlameIsBacked
<1>5. verdict.latency = IF bb.trustworthy THEN "trusted" ELSE VerdictReason(bb)
  <2> HIDE DEF dl, ul, bb
  <2> QED
    BY VerdictLatency DEF verdict
<1> HIDE DEF dl, ul, verdict
<1>6. doubted <=> ~bb.trustworthy
  BY DEF doubted
<1>7. bb = ComputeBufferbloat(run'.latency, Max({run'["download"].p95,
                                                 run'["upload"].p95}))
  BY <1>2
<1> HIDE DEF bb, doubted
<1>8. /\ bb.trustworthy <=> LagOK(bb) /\ AnsweredOK(bb) /\ PlausibleOK(bb)
      /\ \A r : r \in Doubts' <=> \/ r = "answered" /\ ~AnsweredOK(bb)
                                  \/ r = "buffer" /\ ~PlausibleOK(bb)
                                  \/ r = "lag" /\ ~LagOK(bb)
  <2>1. Doubts' = DoubtsIn(run')
    BY DEF Doubts, DoubtsIn
  <2>2. LatencyOK(run'.latency) /\ run'.bufferbloat = bb
    BY <1>2, <1>4
  <2>3. run'["download"].p95 \in Int /\ run'["upload"].p95 \in Int
    BY <1>2, <1>3
  <2> QED
    BY <1>7, <2>1, <2>2, <2>3, DoubtsOf
<1>9. CASE bb.trustworthy
  <2>1. Doubts' = {}
    BY <1>8, <1>9
  <2> QED
    BY <1>2, <1>5, <1>9, <2>1 DEF BlameIsBacked
<1>10. CASE ~bb.trustworthy
  <2>1. CaveatReason(bb) \in Doubts' /\ VerdictReason(bb) \in Doubts'
    BY <1>8, <1>10, ReasonsFailed
  <2>2. ~run'.reliable /\ CaveatReason(bb) \in run'.caveats
    BY <1>2, <1>6, <1>10
  <2>3. run'.verdict.latency = VerdictReason(bb)
    BY <1>2, <1>5, <1>10
  <2>4. VerdictReason(bb) # "trusted"
    BY ReasonsNamed
  <2> QED
    BY <2>1, <2>2, <2>3, <2>4 DEF BlameIsBacked
<1> QED
  BY <1>9, <1>10

\* The network is blamed for its latency only on evidence, and a blame that does
\* not stand is marked unreliable with reasons that hold, for all round trips,
\* rates and losses (ComputeBufferbloat, handleFinal, BuildVerdict).
THEOREM BlameIsBackedHolds == MeasurementSpec => []BlameIsBacked
<1>1. MeasurementInit => BlameIsBacked
  BY DEF MeasurementInit, BlameIsBacked
<1>2. DownInv /\ ResultInv /\ FiguresInv /\ BlameIsBacked
        /\ [MeasurementNext]_vars => BlameIsBacked'
  <2> SUFFICES ASSUME DownInv, ResultInv, FiguresInv, BlameIsBacked,
                      [MeasurementNext]_vars, phase' = "stored"
               PROVE  BlameIsBacked'
    BY DEF BlameIsBacked
  <2>1. CASE phase = "stored" /\ UNCHANGED <<run, plan>>
    <3>1. Doubts = DoubtsIn(run) /\ Doubts' = DoubtsIn(run')
      BY DEF Doubts, DoubtsIn
    <3> QED
      BY <2>1, <3>1 DEF BlameIsBacked
  <2> QED
    BY <2>1, StoredOnce, BlameOfStored
<1>3. MeasurementSpec => []ResultInv
  BY ResultInvHolds, MeasurementImplementsUpload, PTL
<1> QED
  BY <1>1, <1>2, <1>3, DownInvHolds, FiguresInvHolds, PTL DEF MeasurementSpec
=============================================================================
