------------------------------- MODULE Stats -------------------------------
(***************************************************************************)
(* The arithmetic of a run (src/stats.go).  Bytes are counted in frames.   *)
(* A series of throughput samples is a function from the index of a window *)
(* to the frames counted in it; the other fields of a Sample follow from   *)
(* the index and the count.  Round trips are in milliseconds.  Interpolated*)
(* percentiles and ratios are rounded down to integers.                    *)
(***************************************************************************)
EXTENDS Integers, FiniteSets, FiniteSetsExt, Functions

CONSTANTS WarmupMs,   \* what is discarded from the head of a direction
          FrameMbps   \* the rate of one frame per window

SampleMs == 250       \* SampleWindow

ASSUME StatsAssumption ==
  /\ WarmupMs \in Nat /\ WarmupMs >= 2 * SampleMs
  /\ FrameMbps \in Nat \ {0}

-----------------------------------------------------------------------------
(* Series of samples *)

AtMs(w) == (w + 1) * SampleMs

Mbps(frames) == frames * FrameMbps

NoSamples == [w \in {} |-> 0]

\* The samples of a list, by window; perStream maps streams to such lists.
SamplesIn(perStream) ==
  UNION {{<<s, i>> : i \in DOMAIN perStream[s]} : s \in DOMAIN perStream}

TrimWarmup(series) ==
  Restrict(series, {w \in DOMAIN series : AtMs(w) > WarmupMs})

TrimTail(series) ==
  IF Cardinality(DOMAIN series) <= 2 THEN series
  ELSE Restrict(series, DOMAIN series \ {Max(DOMAIN series)})

\* Faulty variant: of two streams' samples one overwrites the other.
AggregateSamplesOverwrites(perStream) ==
  LET windowOf(p) == perStream[p[1]][p[2]].window
      at(w) == {p \in SamplesIn(perStream) : windowOf(p) = w}
  IN [w \in {windowOf(p) : p \in SamplesIn(perStream)} |->
        LET p == CHOOSE q \in at(w) : TRUE IN perStream[p[1]][p[2]].frames]

\* Parallel streams are summed within the same window.
AggregateSamples(perStream) ==
  LET windowOf(p) == perStream[p[1]][p[2]].window
      at(w) == {p \in SamplesIn(perStream) : windowOf(p) = w}
  IN [w \in {windowOf(p) : p \in SamplesIn(perStream)} |->
        MapThenSumSet(LAMBDA p : perStream[p[1]][p[2]].frames, at(w))]

-----------------------------------------------------------------------------
(* Percentiles *)

\* s[k] of the code's sorted copy s of the values, from 0.
Sorted(values, k) ==
  CHOOSE x \in Range(values) :
     /\ Cardinality({i \in DOMAIN values : values[i] < x}) <= k
     /\ Cardinality({i \in DOMAIN values : values[i] <= x}) > k

\* The p-th percentile, interpolated between two neighbours.
Percentile(values, p) ==
  LET k == p * (Cardinality(DOMAIN values) - 1)
      lo == k \div 100
      hi == IF k % 100 = 0 THEN lo ELSE lo + 1
      gap == Sorted(values, hi) - Sorted(values, lo)
  IN IF DOMAIN values = {} THEN 0
     ELSE Sorted(values, lo) + (gap * (k % 100)) \div 100

\* DirStats of a series that is trimmed already.
Summarize(series) ==
  LET rate == [w \in DOMAIN series |-> Mbps(series[w])]
  IN [samples |-> Cardinality(DOMAIN series),
      total   |-> SumFunction(series),
      min     |-> Percentile(rate, 0),
      p50     |-> Percentile(rate, 50),
      p95     |-> Percentile(rate, 95),
      max     |-> Percentile(rate, 100)]

\* LatencyStats of a phase, with the pings it issued (withSent).
SummarizeLatency(rtts, sent) ==
  [count |-> Cardinality(DOMAIN rtts), sent |-> sent,
   p50   |-> Percentile(rtts, 50), p95 |-> Percentile(rtts, 95)]

\* In percent.  A phase without pings counts as fully answered.
AnsweredRatio(latency) ==
  IF latency.sent <= 0 THEN 100
  ELSE Min({100, (100 * latency.count) \div latency.sent})

-----------------------------------------------------------------------------
(* Bufferbloat *)

GradeBufferbloat(delta) ==
  CASE delta < 5   -> "A"
    [] 5 <= delta /\ delta < 30 -> "B"
    [] 30 <= delta /\ delta < 100 -> "C"
    [] 100 <= delta /\ delta < 300 -> "D"
    [] 300 <= delta -> "F"

bufferbloatConcernMs == 30
schedulingLagNoiseMs == 15
minAnsweredRatio     == 50

\* The bytes an increase of latency needs at a rate, and what a path can hold.
ImpliedBuffer(delta, peak) == delta * peak * 125
maxPlausibleBufferBytes    == 256 * 1024 * 1024

NotMeasured ==
  [grade |-> "?", delta |-> 0, lag |-> 0, answered |-> 0, buffer |-> 0,
   trustworthy |-> FALSE]

\* What Bufferbloat says before it is decided whether to trust it.
Increase(latency, peak) ==
  LET loaded == Max({latency.download.p95, latency.upload.p95})
      delta == Max({0, loaded - latency.idle.p50})
  IN [grade |-> GradeBufferbloat(delta), delta |-> delta, lag |-> latency.lag,
      answered |-> Min({AnsweredRatio(latency.download),
                        AnsweredRatio(latency.upload)}),
      buffer |-> ImpliedBuffer(delta, peak), trustworthy |-> TRUE]

LagOK(bb)       == bb.lag < schedulingLagNoiseMs \/ bb.delta > 2 * bb.lag
AnsweredOK(bb)  == bb.answered >= minAnsweredRatio
PlausibleOK(bb) == bb.buffer <= maxPlausibleBufferBytes

Measured(latency) ==
  latency.idle.count > 0 /\ latency.download.count + latency.upload.count > 0

\* Faulty variant: whatever was answered is believed.
ComputeBufferbloatTrusting(latency, peak) ==
  IF Measured(latency) THEN Increase(latency, peak) ELSE NotMeasured

ComputeBufferbloat(latency, peak) ==
  LET bb == Increase(latency, peak)
  IN IF ~Measured(latency) THEN NotMeasured
     ELSE [bb EXCEPT !.trustworthy =
             \/ bb.delta < bufferbloatConcernMs
             \/ LagOK(bb) /\ AnsweredOK(bb) /\ PlausibleOK(bb)]

\* What is wrong with an increase that is not to be trusted, as handleFinal's
\* caveat says it, and as the verdict says it: they ask in another order.
CaveatReason(bb) ==
  CASE ~PlausibleOK(bb) -> "buffer"
    [] PlausibleOK(bb) /\ ~AnsweredOK(bb) -> "answered"
    [] OTHER -> "lag"
VerdictReason(bb) ==
  CASE ~AnsweredOK(bb) -> "answered"
    [] AnsweredOK(bb) /\ ~PlausibleOK(bb) -> "buffer"
    [] OTHER -> "lag"

\* Faulty variant: a run of both directions has figures for both.
BuildVerdictOfPlan(down, up, bb, direction) ==
  [figures |-> IF direction = "both" THEN {"download", "upload"}
               ELSE {direction},
   latency |-> IF bb.trustworthy THEN "trusted" ELSE VerdictReason(bb)]

\* BuildVerdict: the directions it gives a figure for, and what it says of the
\* latency under load.
BuildVerdict(down, up, bb, direction) ==
  IF down.samples = 0 /\ up.samples = 0
  THEN [figures |-> {}, latency |-> "nothing measured"]
  ELSE [figures |->
          CASE direction = "download" \/ up.samples = 0 -> {"download"}
            [] direction # "download" /\ up.samples # 0
               /\ (direction = "upload" \/ down.samples = 0) -> {"upload"}
            [] OTHER -> {"download", "upload"},
        latency |->
          CASE bb.grade = "?" -> "not measured"
            [] bb.grade # "?" /\ ~bb.trustworthy -> VerdictReason(bb)
            [] OTHER -> "trusted"]

-----------------------------------------------------------------------------
\* How far two byte counts may differ: 5 percent of the server's.
Differ(client, server) ==
  20 * Max({client - server, server - client}) > server
=============================================================================
