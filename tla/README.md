# Verification of the LAN speed test

This directory models, checks and proves properties of the speed-test server
(`src/*.go`) and of the page that drives it (`src/web/app.js`). Paths such as
`server.go:884` are relative to `src/`.

## 1. The system

One server process runs on a machine of the LAN; phones and computers open its
page. A page runs a test by opening one *control* connection, which takes the
single-test lock, and up to eight *stream* connections that carry the load. The
phases are: idle latency, download, upload (as the direction says), FINAL/STORED.
A run is automatic (10 s per direction) or manual: one direction, ended by the
operator's stop. Other pages observe.

| Component | State | Operations | Interacts with |
|---|---|---|---|
| Lock and control connection (`server.go:422-485, 847-901`) | `Server.active`, `Session` | claim, refuse, PING, PROGRESS, STOP, FINAL, ABORT, release | streams (release closes them), observers (broadcast), history |
| Data streams (`server.go:487-532, 585-729, 948-1106`) | `Session.streams`, counters `dlActive`/`upActive`, samples, totals, `upFinal`, `upStats` | lookup, addStream, removeStream, closeStreams, send loop, receive loop, endDownload, endUpload | control connection (RESULT) |
| Page's run (`web/app.js:833-1401`) | `run`: phase, `streamConns`, `stopping`, `aborted`, pending promises | startTest and its awaits, stopTest, abortRun, bindStream's callbacks, teardownRun | all of the above, by messages |
| Observers (`server.go:534-583, 903-946`; `app.js:1557-1660`) | `Server.observers`; the page's reconnect timer | serveObserver, broadcast, scheduleReconnect | control goroutines |
| History (`history.go`) | a JSON file | Append, Load, cap, atomic rename | FINAL |
| Statistics (`stats.go`; windows in `recvUpload`) | none: pure functions | windows, aggregation, trims, percentiles, grades, verdict | FINAL, endUpload |
| Link monitor, network identity (`link.go`, `network.go`, `main.go:56-115`) | last link info; network key, fixed at start | Refresh, detection with fallbacks | FINAL |
| Stream log, protocol, HTTP endpoints, start-up, shells, presentation | none that matters here | formatting, encoding, serving | |

**What is hard.** Every connection has a goroutine of its own; two mutexes
(`Server.mu`, `Session.mu`) protect short sections and everything between them
interleaves. The lock is released before the streams are closed, a stream looks
its session up in one section and joins it in another, the upload aggregate is
computed between two sections, and "the last stream" is decided by a counter.
Clients vanish, connections drop in any phase, messages on different connections
are not ordered. On the page, an event that comes before anyone awaits it is lost.

**What makes each part correct.** *Lock*: exactly one owner, refusal only while it
is held, freed whatever the client does. *Streams*: the counters are exact, one
reporter, figures final and equal in RESULT and in the stored run, no goroutine
left behind. *Page*: each run ends, shows only what was measured and stored, and
leaves the server as it found it. *Observers*: they show the state of the lock in the end and
never delay a test. *History*: a crash loses at most the run being added; the cap
drops the oldest of the runs stored before; a run is compared with the latest of its shape. *Statistics*:
each function against its definition, at the boundaries.

`PROJECT.json` lists the hazards, each at its line with the property that would
catch it.

## 2. The modules

| Module | Models |
|---|---|
| `TestLock` | Abstract specification of the lock: Grant when free, Refuse when held, Free by the owner, once each. |
| `Sessions` | The server: lock, sessions, streams, phases, aggregate, stored figures. Implements `TestLock`. |
| `TestRun` | `Sessions` composed with the page's run over FIFO connections that may drop. |
| `HistoryData` | Stored runs and the lists `Append` makes of them. |
| `HistoryList` | Abstract specification of the history: a bounded list that a run joins in one step. |
| `History` | `Append` as `handleFinal` calls it, with failing reads and writes, crashes and restarts. Implements `HistoryList`. |
| `Stats` | The arithmetic of `stats.go`: windows, trims, percentiles, grades, what makes a grade believable, the verdict. |
| `UploadWindows` | How the server counts an upload by windows and adds the streams up. |
| `Measurement` | A whole run as figures: pings, downloaded windows, `UploadWindows`, FINAL, the stored run. Implements the specification of `UploadWindows`. |
| `Link` | What network the server thinks it is on, while the machine moves and tools fail. |
| `Observers` | Registration, first state and broadcasts as separate writes; the observing page, which stalls, drops, reconnects. |
| `MCSessions`, `MCTestRun`, `MCHistory`, `MCObservers`, `MCMeasurement` | Symmetry, views, and specifications that limit an instance to one test or to safety, for TLC. |
| `SessionsProofs`, `TestRunProofs`, `ObserversProofs`, `HistoryProofs`, `LinkProofs` | Theorems about the module each is named after. |
| `StatsProofs`, `UploadProofs`, `MeasurementProofs` | Lemmas about the arithmetic of `Stats`; theorems about `UploadWindows`; theorems about `Measurement`, which use both. |

### Sessions

One action per critical section or blocking point of a goroutine. `ctl` and `strm`
say where the goroutine of each connection is; the other variables are the fields
of `Server` and `Session`, plus the local variables that outlive a section
(`toClose`, `perStream`) and what went out (`result`, `stored`). A session is named
after its control connection. A series of samples, a byte total or a set of figures
is represented by the set of stream indices it covers: enough to tell a complete
result from one that misses a stream, and a figure from its absence.

| Code | Actions |
|---|---|
| `claim`, busy answer | `Claim`, `Refuse` |
| `serveControl` loop | `RequestStop`, `HandleFinal`, `ControlReturns` (close, idle timeout, failed PONG, ABORT) |
| `release`, `closeStreams` | `ReleaseLock`, `CollectStreams`, `CloseStream`, `ControlDone` |
| `serveStream` | `FindSession`, `FindNoSession`, `AddStream`, `StreamReturns`, `RemoveStream` |
| `sendDownload` | `StartDownload`, `EndDownload` |
| `recvUpload`, `endUpload` | `StartUpload`, `EndUpload` (first section), `StoreStats` (second), `SendResult` |
| client and network | `Vanish`, `DropStream` |

Closed connections are only noticed by the goroutine that reads or writes them, as
in the code: `open` turns false first, `StreamReturns` or the end of a phase comes
later, in any order with the rest. A timeout is an action that may come at any
time it is armed.

*Environment of `Sessions`.* The server accepts any message at any time and relies
on the page: each stream of a run has its own index (`app.js:1223-1227`), a phase
is run once per stream, the download before the upload, FINAL after RESULT when
there was an upload, STOP in manual runs only, and a manual run has one direction
(`app.js:1927-1932`; the named assumption). These are guards or assumptions of
`Sessions`; that the page keeps to them is a property of `TestRun`
(`PageKeepsRules`).

### TestRun

The page is single-threaded: an action is one event callback, or the code between
two awaits of `startTest`. `downWait` is `c.downDone` being set, `closedSeen` that
the close event has been delivered (it is delivered once, whether or not anyone
waits), and `shown` is the run that STORED brought (`lastStored`). The wait for
STORED is the one wait that `abortRun` can resolve without an error
(`ReportedNothing`). Messages wait in `wire` and `controlWire` until the server's action of
`Sessions` consumes them; a drop loses them. A read deadline that has passed (`readFailed`) is
for good: gorilla keeps the error, nothing is read on that stream any more and
`serveStream` returns. `Lossy` and `Cut` name the page's
phases in which a stream and the control connection may drop; after the run the
page closes everything itself. The page's timers (10 s for a connection, 30 s for
RESULT in an automatic run, 15 s for STORED) may fire whenever they are armed.
Left out: PING/PONG, PROGRESS and sampling (no control state), a second page
(contention for the lock is checked in `TwoTests`), and a stream's HELLO that the
server reads after the page has given the connection up.

### History

`stage` says where `handleFinal` is: before the load, between load, write and
rename, or about to send STORED; the other variables are the two files and
Append's locals. A file is whole, torn (its writing has begun and not ended) or
damaged by somebody else; a missing one is one without runs. A list is the *set* of its
runs, because `loadLocked` sorts whatever order the file has; runs of equal time
may come in any order (`sort.Slice` is not stable), which `Newest` and `Previous`
leave open. `HistoryStore.mu` and the test lock keep appends apart, so one is
under way at a time. `Load` may fail although the file is intact; `WriteError` may
come before, during or after the write; `Crash` may come anywhere. Runs of another
schema version are there at first, are never returned, and are gone with the next
append. Left out: a disabled history (no path), a second server process on the
same file, the page's GET of the list (a read under the same mutex), and a power
failure that loses data the process has handed to the system.

### Observers

`stage` follows the goroutine of a test from `claim` to the broadcast that ends
`release`; `cast` and `toWrite` are the broadcast it is in: the event, and the
observers of the copied set that have not been written to. `obs` follows the
goroutine of an observer connection (`Register`, `SendAck`, `SendFirst`,
`ObserverReturns`, `Deregister`, `CloseConn`); `first` is the lock as it read it.
Each write is an action, because `wsConn.mu` only keeps two writes on a
connection apart. A write blocks while `Window` messages are unread (the buffers
between server and page) and `WriteFails` is its deadline, after which gorilla's
connection fails every write. The page opens a connection (`Open`), takes only
HELLO_ACK as its first message (`Accept`, `Reject`), and reads events
(`Receive`, `Screen`); it may lose the connection, or be suspended, at any time.
Left out: the lists of peers, PING/PONG but for the idle timeout they put off, and
a page that also runs tests. The lock is as in `Sessions`; what happens to the
streams between `ReleaseLock` and `SayIdle` is not repeated.

### Stats, UploadWindows, Measurement

These three follow the *figures* of a run, where `Sessions` and `TestRun` follow
who may do what. A figure is counted in frames: a frame is one unit, `FrameMbps` is
the rate of one frame per window, and a series of samples is a function from the
index of a window to the frames in it (`AtMs` and `Mbps` follow from those).
Percentiles and ratios are rounded down; `MCMeasurement` checks `Percentile`
against sort-and-interpolate.

`UploadWindows` has the locals of `recvUpload` (`recv`: the current window, its
frames, the total, the samples) for each stream, a clock that counts whole windows
since the shared start, and `arrived`, a history of what came in which window.
`Begin`, `Receive` and `End` are `beginUpload`, MsgUpData and everything that ends
the loop; the two critical sections of `endUpload` are one action here.

`Measurement` adds the page. `wire` holds the pings in flight with the phase that
sent them (what `pingPhase` remembers), `sent` and `replies` are the counters of
`run`; `down` is the tally of downloaded windows; `SendFinal` is FINAL and
`HandleFinal` all that the server makes of it up to `history.Append`, which
`History` goes on with. Round trips and the lateness of the page's timer are
chosen when FINAL is sent, because nothing reads them earlier. The action in which
frames may stop (`DownClosed`) is a stream that drops. Left out: a page that was
hidden, `lastRTT` and what is displayed, jitter and the mean.

### Link

`goos` is fixed; `attached` says where each interface is. `Enumerate` is what
`main` reads once; a refresh is the sequence of tools of its system, each of which
may find something or fail, and `Store` puts the result where runs are stored with
it. The first refresh also identifies the network. A report is a record of *which
network* each part of it is about: the name, the radio (BSSID, frequency, rates),
and the security. A tool that is asked about an interface (`iw`,
`networksetup`) answers for it; `nmcli`, `system_profiler` and `netsh` name the
network of whichever radio they list. `seen`, `linkSeen` and `startSeen` are
histories of where interfaces have been. The parsers are left out: that they put a
value in the right field is for unit tests.

## 3. What is checked

| Run | Instance | Checks |
|---|---|---|
| `TwoTests` | 2 sessions (manual download; automatic both), 2 streams | `TypeOK`, `LockOwner`, `Strengthening`, refinement `LockSpec` |
| `OneTest` | 1 test of any shape, 2 streams | `CountersCount`, `OneReporter`, `StoredRunMatchesResult`, `DecidedOnce`, `VanishedClientFreesLock`, `VanishedStreamsEnd`, `ReleaseEndsStreams`, `StopEndsDownload`, `UploadIsReported` |
| `TestRunSafety` | 1 run of any shape, 2 streams, drops in every phase | `TestRunTypeOK`, `PageKeepsRules`, `HeaderListsEveryStream`, `ReportIsMeasured` |
| `HistoryAppend` | a history of 3 runs, 4 to add and 1 of another version, 2 timestamps, 2 shapes | `HistoryTypeOK`, `WithinBound`, `HistoryStrengthening`, `StoredIsOnDisk`, `ComparedWithLatest`, `OldestStoredDroppedFirst`, refinement `ListSpec` |
| `OneObserver` | 2 tests, 1 page, one connection at a time, one unread message | `ObserversTypeOK`, `NoStaleScreen`, `BroadcastEnds`, `TestIsShown`, `GoneIsForgotten` |
| `TestRunLive` | manual download or automatic both, 2 streams, drops in the download, control lost in the upload or while STORED is awaited | `RunEnds`, `RunLeavesNothing` |
| `Measured` | an upload or a download on 2 streams and 6 windows, or both on one stream and 5 | `EveryFrameInItsWindow`, `ResultIsExact`, `RepliesCountedWhereSent`, `DownloadIsComplete`, `DropsExplainDifference`, `FiguresAreMeasured`, `BlameIsBacked` |
| `Moving` | each system; a cable, a radio, a radio with a name that is never probed; 2 networks, one without IPv4; 2 moves | `OneNetworkPerReport`, `RunNamesWhereItWas` |

"Any shape" is: manual download, manual upload, automatic with both phases. An
instance has one session of each shape and only one of them is ever claimed.

*Why the bounds are enough.* The lock's hazards need one owner and one contender.
The counters and "last" need a stream that has ended and one that has not begun or
is still inside its phase: two streams show every order of the two, and
`SessionsProofs` covers any number. The page awaits all streams alike, so two (one early,
one late) show every order. A history is full after three appends and drops a run at
the fourth; two timestamps let the clock stand still, go on or be set back. An
event of one test can only be overtaken by one of another test or by the first
state, so two tests and one observer show every order; a second observer only
makes the writes of a broadcast later, which they may be anyway. With a window of
one message every write can block. In `Measured` the warm-up is two windows instead
of the code's four, so that six windows are enough for a run that is trimmed to
nothing, one that keeps a single window and one that keeps two; at most one
frame per window and stream tells a late one from a missing one, and one frame in a
window is 4000 Mbps, so that an implausible buffer occurs with a round trip that
the grades also need. Round trips of 20, 80 and 620 ms give the grades A, C and F,
each of them believed in some run, and each of the three reasons not to believe one;
they are multiples of 20, for which the 95th percentile is exact. Its view (`Read` in
`MCMeasurement`) leaves out what nothing reads any more. `Moving` needs one move
during a refresh and one after it. TLC's results hold for these instances; the
theorems of section 5 hold for every value of the constants.
No counter needs a cap: each session is claimed once and each stream runs a phase
once. Deadlock is checked for the history and the observers, which never stop; in
the other runs all tests may be over, or the bounds on moves and windows reached.

*Fairness.* `Sessions` assumes that goroutines run and armed timeouts expire
(`server.go:33-65`); of the client it assumes nothing but that a stopped manual
upload is ended (`ReadEnds`: a page that stops sends UP_DONE). `TestRun` assumes
that the page's event loop and the server's goroutines run, that what is sent
arrives unless its connection drops, and that what the page closes gets closed.
Nothing makes the network drop, the operator start or stop, or a manual download
end. `Observers` assumes that goroutines and the page run, that write deadlines
expire, and that a claimed test reports progress or ends; a page need not wake up
again. A write waiting for `wsConn.mu` gets its turn although others keep writing
(strong fairness, which Go's mutex gives).

Each property has a faulty variant of an action (the sections *Faulty variants* of
the modules: a dropped check, a forgotten reset, a missing deadline, a swapped
order) under which TLC finds it violated.

## 4. What the code does otherwise than it says

Four runs are expected to be violated; each shows a comment or a test contradicted.

* `EarlyResult` (`server.go:1046`, "The last stream to finish aggregates
  everything"): stop pressed before a manual upload begins makes the page send
  UP_START and UP_DONE together; the first stream can finish before the second has
  begun, and RESULT misses the second.
* `StoppedUpload` (`app.js:1106`, the wait "is bounded from the moment it was asked
  to stop"): a manual upload awaits RESULT with no timeout.
* `DroppedStream` (`app.js:1329`, "A stream dropping mid-download would otherwise
  hang the phase forever"): it still hangs when the stream drops just before, while
  the idle latency is measured, because `downDone` is set after its close event.
* `StaleScreen` (`server_test.go:550`, an observer "should see the test finish"): the
  first state is read when the observer registers and written later; the idle
  broadcast in between reaches the page first, and the page goes on showing a test
  that is over. `NoStaleScreen` shows that this is the only way: an observer that
  registered while the lock was free ends up right.

`RunEnds` is therefore checked where these cannot occur: streams drop during the
download only. The control connection drops during the upload or while STORED is
awaited.

More observations, for which no run is kept.

*Page.* When the control connection drops while STORED is awaited, `abortRun` resolves
the wait with null (`app.js:1378`) and `startTest` does not look at `run.aborted` after
`sendFinal` (`app.js:1250-1254`), as it does after each phase. The page's state is then
"done", not failed: `renderResult` says that the run gave no complete result
(`app.js:1406`) and leaves the panels of an earlier run as they are, while the server
may have stored the run. `ReportIsMeasured` therefore lets a run that is done show
nothing if it has lost its control connection.

*Sessions and history.* A stream that has found its session before `release` and joins
it after `closeStreams` has copied the map gets its HELLO_ACK (`server.go:489-504`) and
is closed by nobody: it lasts until its client closes it or goes silent for the idle
timeout. `ReleaseEndsStreams` says that all others end. `release` frees the lock
(`server.go:884`) before it closes the streams, so two sessions may load the link together for a moment, although a
Session's comment says "Only one may exist at a time" (`server.go:116`). STORED
goes out, and the log says "stored", even when `Append` reported an error
(`server.go:835-844`): the page cannot tell the two cases of `StoredIsOnDisk`
apart. And `Append` starts a new file after *any* read error, not only when the
file cannot be parsed (`history.go:141-147`): that is one exception in
`OldestStoredDroppedFirst`, and the action `StartAnew`. The other one is the new run:
"Oldest runs are dropped first" (`history.go:20-22`) is true of the runs stored before
it only. It is put in front after the sort and cut last (`history.go:163-165`), so that
with the clock set back it is kept although it is older than the run it displaces; the
next append sorts it to its place.

*Figures.* A window is closed by the next frame that comes after it. A stream whose
last frame came some windows before its end therefore loses a window that fully
elapsed, and the zero windows after it: this is the exception in `ResultIsExact`
(`server.go:714`; `stats.go:42` promises a sample for each window that elapsed).
`AnsweredRatio` speaks of pings "that came back inside their own phase"
(`stats.go:83`), but a reply that comes later counts too, because the page credits
it to the phase that sent it. The caveat that the server sent more than the client
received (`server.go:799`) appears only after a stream has dropped, and then the
server's count is the *smaller* one, as dropped streams report none: the percentage
it prints is negative. A grade of A or B stands even if no ping of one direction was
answered; the code says so on purpose (`stats.go:349`). When several reasons speak
against a grade, the caveat and the verdict may name different ones; both are true.

*Link.* The monitor's interface is fixed at start. On Linux, a laptop that moves from
the cable to Wi-Fi goes on being reported as on a cable, although `Start` says it
"reports what it is on now" (`link.go:579`; also `main.go:56`). On macOS and Windows
a Wi-Fi network is reported whenever there is one, also when the primary interface
is a cable. `nmcli` is not asked about an interface: with two radios it may name the
other one's network. The network a run is compared by is as old as the server; if
the tools fail at start, the key is the subnet for good. A radio that is unplugged is
reported as a cable on Linux. An interface whose name has a space (common on
Windows) fails `safeIface` and is never probed. A hidden network has no name, so
`mergeNmcli` cannot notice that `nmcli` speaks of another one.

## 5. What is proved

Every type invariant, safety invariant, action property and refinement that a
passing run checks is also a theorem, for every value of the constants: any number
of clients, streams, runs, observers, windows, pings, interfaces and moves. The
assumptions are the named ones of the modules:

| Assumption | Says | Because |
|---|---|---|
| `SessionsAssumption` | null values are no members; finitely many streams; a session has a direction, and a manual one only one | `app.js:1927-1932`; at most eight streams (`server.go:50`) |
| `ObserversAssumption` | null values; a window holds at least one message | socket buffers |
| `HistoryAssumption`, `NoRunAssumption` | a bound of at least one, numeric timestamps; the null value is no run | `maxHistoryRuns`, `history.go:22` |
| `StatsAssumption` | a warm-up of at least two windows, a positive rate | `WarmupMs`, `SampleWindow` |
| `UploadAssumption` | finitely many streams; bounds are numbers | bounds of an instance |
| `MeasurementAssumption` | round trips and lateness of a timer are numbers | differences of a monotonic clock (`app.js:917`), `Math.max(0, ...)` (`app.js:952`) |

`LinkProofs` needs none, and no proof uses `LossyAssumption`: anything may drop in any
phase. TLC evaluates all of them in the runs.

### SessionsProofs

* `TypeCorrect`, `LockOwnerHolds`, and `ImplementsTestLock`: the server refines
  `TestLock`, by cases on the next step, using `LockOwner`;
* `StreamsListedHolds`: until release has copied a session's map, every stream that has
  joined is in it. It needs `StreamsJoined` (a stream has one session and an index
  nobody else has, so `removeStream` by index removes itself) and `MapIsLocal` (a
  session's map and close list hold its own streams);
* `CountersCountHolds`: both counters equal the number of goroutines inside the
  phase, by the cardinality lemmas for adding and removing one stream;
* `OneReporterHolds`, `DecidedOnceHolds`, `StoredRunMatchesResultHolds`, which rest
  on `FiguresOrdered`: `upFinal` with the snapshot, then `upStats`, then RESULT,
  then the stored run. `OneReporter` is not inductive without it: that a second
  stream cannot become the reporter depends on `upFinal` being set while the first
  one computes.

The inductive invariant is `TypeOK`, `LockOwner`, `CountersCount`, `OneReporter` and
`Strengthening` (of which `StreamsListed` is a part) together; TLC checks each
conjunct. Frame lemmas say what control goroutines and stream goroutines leave
alone, so that each proof treats only the actions that matter to it.

### TestRunProofs

* `TestRunImplementsSessions`: a step of page, network and server together is a
  step of `Sessions` or leaves its variables alone. So every theorem above holds of
  a run of the page, whatever drops (`RunKeepsServer`).
* `PageKeepsRulesHolds`, `HeaderListsEveryStreamHolds` and `ReportIsMeasuredHolds`
  follow from the inductive invariant `RunInv`. Its core is `StreamsStaged`: a
  stream is at one of seven stages (no phase yet; each phase asked for, running,
  over), each of which says what is on the wire, where the goroutine is and what
  has been counted; the page's phase bounds the stages of the open streams. That the
  page's own wait is over only after the server's phase is what makes the upload's
  UP_START safe. `LoadIsLinked` (no phase before all streams are acknowledged) gives
  the header. Three more parts give the report. `FinalIsOnce`: FINAL goes out once, after
  RESULT, and nothing is stored before. `ShownIsStored`: the page shows the stored run,
  and once done it shows nothing only if its control connection was lost.
  `DownloadIsTold`: the page leaves the download only when every stream has been
  recorded by the server or its close has been heard. That the stored figures are those
  of RESULT is `StoredRunMatchesResult`.

### ObserversProofs

* `ObserversTypeCorrect`: types.
* `NoStaleScreenHolds`: a screen ends up showing a test (`ShowsRunning`) if the last
  of the unread messages that is an event says so. `LastWordToCome` says that as
  long as this is so, something is still to come (`Pending`): the goroutine is on its
  way in or out, a test holds the lock and will say "idle", or is saying so and has
  not written to this observer yet. `Registered` (a served observer is on the list a
  broadcast copies) and `SpeaksWhileServed` (only a served test says that it runs)
  make it inductive. A page that is settled has nothing pending.

### HistoryProofs

* `HistoryTypeCorrect`, `HistoryStrengtheningHolds`: until the rename `loaded` is what
  the file has, the temporary file is complete when it is renamed, and a new run's ID
  is not in the file. Without it the rename could bring back a torn or an older list;
* `HistoryImplementsList`: only `Rename` and `Damage` change the file, and the rename
  is an `Add`, or `StartAnew` after a failed read;
* `WithinBoundHolds`, `OldestStoredDroppedFirstHolds` and `StoredIsOnDiskHolds`, from the
  lemmas `JoinedContents` and `JoinedBound` about the lists;
* `ComparedWithLatestHolds`: inductive with `PreviousIsLatest`, which says the same of
  what was loaded. `Previous` is the latest of a set, and `LatestExists` says that a
  finite set of runs has one.

### StatsProofs, UploadProofs, MeasurementProofs

`StatsProofs` has the lemmas about the arithmetic. A sum over a set is a recursive
function in the community modules; `SumUnique`, `SumExists` and `SumStep` show that
the recursion has one solution, by a least counterexample among the subsets
(`SmallestSubset`), and from there: `SumTakeOut`, `SumAgree`, `SumChange`,
`SumReindexed`, and `AggregateSums` (of a list of series, `Aggregate` sums each window
that any of them has). `SortedExists` gives `PercentileIsNumber`; `BlameOf` goes
through the checks of `ComputeBufferbloat` once.

`UploadProofs`:

* `EveryFrameInItsWindowHolds`: a stream's samples are exactly what arrived. The
  property is inductive with the types; the work is in `CloseWindowsExact` (closing
  windows up to a later one keeps them exact, zero for the gaps) and `OneMoreExact`,
  which `Receive` composes;
* `ResultIsExactHolds`: the windows are exact and contiguous, so `AggregateSums` gives
  the sums and `TrimmedSeries` what the two trims leave (`ResultOfIsExact`); later
  steps do not change what a result is about (`OthersDoNotMatter`).

`MeasurementProofs`:

* `MeasurementImplementsUpload`: each step of a run is a step of `UploadWindows` or
  leaves its variables alone, so `RunCountsEveryFrame` and `RunResultIsExact` carry
  the properties over;
* `RepliesCountedWhereSentHolds`: inductive with the types; `OneMoreInFlight` and
  `OneLessInFlight` say how many pings of a phase `Append` and `Tail` leave in flight
  (the second by a bijection between the queue's tail and its rest);
* `DownloadIsCompleteHolds` and `DropsExplainDifferenceHolds`, from `DownInv`: the
  page's total is the sum of its windows, and also what the server has told of plus
  what arrived on streams that are not done; a stream that dropped has left its
  caveat. When FINAL is sent no stream loads, so without a caveat the two totals are
  equal;
* `FiguresAreMeasuredHolds`: `FiguresInv` (a result only of an upload, latency in
  numbers) says what FINAL is handled with; `FinalFigures` and `VerdictFigures` follow
  the figures through `HandleFinal` and `BuildVerdict`;
* `BlameIsBackedHolds`: `BlameOfStored` compares the reasons that `HandleFinal` and
  `BuildVerdict` find, each in its own order, with `Doubts`. That the checks are
  made of the same numbers is the point: the verdict reads what the run stored.

### LinkProofs

* `OneNetworkPerReportHolds`, from `AboutOne` of what the refresh has found so far:
  each tool alone speaks of one network, and `mergeNmcli` adds only to a report of
  that name or of none;
* `RunNamesWhereItWasHolds`. The inductive invariant says the same of the refresh
  under way, with `seen` in place of `linkSeen` (`RefreshInv`), which step belongs to
  which system (`StepInv`), and what start has found (`StartInv`); a move only adds
  to the histories, and what was true of fewer places stays true
  (`LocatedMonotonic`).

### Only model-checked

Liveness: `VanishedClientFreesLock`, `VanishedStreamsEnd`, `ReleaseEndsStreams`,
`StopEndsDownload`, `UploadIsReported`, `RunEnds`, `RunLeavesNothing`, `BroadcastEnds`, `TestIsShown`,
`GoneIsForgotten` rest on fairness and ENABLED, which are out of the prover's
reach. That `Percentile` agrees with sort-and-interpolate is evaluated by TLC over
bounded inputs (`PercentileIsInterpolation` in `MCMeasurement`). The four violated
properties of section 4 have counterexamples.

## 6. Not modelled

The lists of observers' peers; stalls, frame sizes and the per-stream table
(`streamlog.go`); the page's samplers, timers and what it draws; a hidden page.
Parsing of tool output, formatting, HTTP endpoints, the chart and the desktop shell
are string work or I/O and will stay out.

## 7. Plan

1. More about the operators: that `Percentile` lies between the least and the greatest
   round trip and grows with its argument, that a grade does not improve when the
   latency under load grows.
2. The page as observer and as tester in one module (`stopObserving`,
   `startObserving` around a run), and the lists of peers.
