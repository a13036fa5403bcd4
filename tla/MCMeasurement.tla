--------------------------- MODULE MCMeasurement ---------------------------
(***************************************************************************)
(* Small instances of Measurement for TLC: an upload on two streams, a     *)
(* download on two streams, or both directions on one stream.              *)
(***************************************************************************)
EXTENDS Measurement, TLC

SmallPlan(d, streams, pings, windows) ==
  [direction |-> d, streams |-> streams, pings |-> pings, windows |-> windows]

Plans ==
  {SmallPlan("download", Stream, MaxPings, MaxWindow),
   SmallPlan("upload", Stream, 1, MaxWindow)}
  \cup {SmallPlan("both", {s}, 1, MaxWindow - 1) : s \in Stream}

SmallInit == MeasurementInit /\ plan \in Plans

SmallSpec == SmallInit /\ [][MeasurementNext]_vars

\* Streams are interchangeable.
Symmetry == Permutations(Stream)

\* What is still read, so that states which differ only in how they came about
\* are one: nothing reads the streams of a download after it, nor anything but
\* FINAL and the figures of the upload once FINAL is sent.
Read ==
  CASE phase \in {"final", "stored"} -> <<plan, phase, upResult, msg, run>>
    [] phase = "upload" ->
         <<plan, phase, wire, sent, replies, down, caveats, uploadVars>>
    [] OTHER -> vars

\* Percentile against its reference: sort, find the position, interpolate.
ReferencePercentile(values, p) ==
  LET s == SortSeq(values, LAMBDA a, b : a < b)
      k == p * (Len(s) - 1)
      lo == s[(k \div 100) + 1]
  IN IF k % 100 = 0 THEN lo
     ELSE lo + ((s[(k \div 100) + 2] - lo) * (k % 100)) \div 100

ASSUME PercentileIsInterpolation ==
  \A n \in 1 .. 4, p \in {0, 50, 95, 100} :
    \A values \in [1 .. n -> {0, 20, 40, 100}] :
      Percentile(values, p) = ReferencePercentile(values, p)
=============================================================================
