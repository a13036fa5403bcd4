--------------------------- MODULE SessionsProofs ---------------------------
(***************************************************************************)
(* Proofs about Sessions for every set of control connections, streams and *)
(* indices.  Order: the frame lemmas (what a control or a stream step      *)
(* leaves alone), type correctness, the lock and its refinement, the joined *)
(* streams, the phase counters, the tracked streams, the figures.          *)
(***************************************************************************)
EXTENDS Sessions, FiniteSetTheorems, TLAPS

-----------------------------------------------------------------------------
(* Frames *)

\* A control goroutine touches no stream goroutine, no counter and no figure
\* but the stored run: serveControl and release only close connections.
LEMMA ControlFrame ==
  ASSUME NEW c \in Control, ControlNext(c)
  PROVE  /\ UNCHANGED <<strm, of, idx, downVars, upVars, upStats, result>>
         /\ \/ UNCHANGED stored
            \/ HandleFinal(c)
  BY DEF ControlNext, Claim, Refuse, Vanish, RequestStop, HandleFinal,
         ControlReturns, ReleaseLock, CollectStreams, CloseStream, ControlDone,
         streamVars, reportVars

\* A stream goroutine touches neither the lock nor a control goroutine, nor
\* the list of connections release is closing, nor a stored run.
LEMMA StreamFrame ==
  ASSUME NEW s \in Stream, StreamNext(s)
  PROVE  UNCHANGED <<ctlVars, toClose, idx, stored>>
  BY DEF StreamNext, FindSession, FindNoSession, AddStream, StartDownload,
         EndDownload, StartUpload, EndUpload, StoreStats, SendResult,
         StreamReturns, RemoveStream, DropStream, mapVars, reportVars

-----------------------------------------------------------------------------
(* Type correctness *)

\* The variables start in their types.
LEMMA TypeInit == Init => TypeOK
  BY SessionsAssumption DEF Init, TypeOK, ControlState, StreamState, Figures

\* A step of a control goroutine keeps every variable in its type.
LEMMA ControlType ==
  ASSUME TypeOK, NEW c \in Control, ControlNext(c)
  PROVE  TypeOK'
<1> USE SessionsAssumption
    DEF TypeOK, ControlState, Figures, ctlVars, mapVars, streamVars, downVars,
        upVars, reportVars
<1>1. CASE Claim(c)
  BY <1>1 DEF Claim
<1>2. CASE Refuse(c)
  BY <1>2 DEF Refuse
<1>3. CASE Vanish(c)
  BY <1>3 DEF Vanish
<1>4. CASE RequestStop(c)
  BY <1>4 DEF RequestStop
<1>5. CASE HandleFinal(c)
  BY <1>5 DEF HandleFinal
<1>6. CASE ControlReturns(c)
  BY <1>6 DEF ControlReturns
<1>7. CASE ReleaseLock(c)
  BY <1>7 DEF ReleaseLock
<1>8. CASE CollectStreams(c)
  BY <1>8 DEF CollectStreams
<1>9. ASSUME NEW s \in Stream, CloseStream(c, s) PROVE TypeOK'
  BY <1>9 DEF CloseStream
<1>10. CASE ControlDone(c)
  BY <1>10 DEF ControlDone
<1> QED
  BY <1>1, <1>2, <1>3, <1>4, <1>5, <1>6, <1>7, <1>8, <1>9, <1>10
  DEF ControlNext

\* A counter that goes down only while it is positive stays a natural number.
LEMMA CountDown ==
  ASSUME NEW f \in [Control -> Nat], NEW c,
         NEW g, g = [f EXCEPT ![c] = IF f[c] > 0 THEN f[c] - 1 ELSE f[c]]
  PROVE  g \in [Control -> Nat]
<1>1. CASE c \in Control
  <2>1. (IF f[c] > 0 THEN f[c] - 1 ELSE f[c]) \in Nat
    BY <1>1
  <2> QED
    BY <2>1
<1>2. CASE c \notin Control
  BY <1>2
<1> QED
  BY <1>1, <1>2

\* Adding an index to one session's set keeps every set a set of indices.
LEMMA AddIndex ==
  ASSUME NEW f \in [Control -> SUBSET Index], NEW c, NEW i \in Index,
         NEW g, g = [f EXCEPT ![c] = f[c] \cup {i}]
  PROVE  g \in [Control -> SUBSET Index]
<1>1. CASE c \in Control
  <2>1. f[c] \cup {i} \in SUBSET Index
    BY <1>1
  <2> QED
    BY <2>1
<1>2. CASE c \notin Control
  BY <1>2
<1> QED
  BY <1>1, <1>2

\* A step of a stream goroutine keeps every variable in its type.
LEMMA StreamType ==
  ASSUME TypeOK, NEW s \in Stream, StreamNext(s)
  PROVE  TypeOK'
<1> USE SessionsAssumption
    DEF TypeOK, StreamState, Figures, ctlVars, mapVars, streamVars, downVars,
        upVars, reportVars
<1>1. ASSUME NEW c \in Control, FindSession(s, c) PROVE TypeOK'
  BY <1>1 DEF FindSession
<1>2. ASSUME NEW c \in Control, FindNoSession(s, c) PROVE TypeOK'
  BY <1>2 DEF FindNoSession
<1>3. CASE AddStream(s)
  BY <1>3 DEF AddStream
<1>4. CASE StartDownload(s)
  BY <1>4 DEF StartDownload
<1>5. CASE EndDownload(s)
  <2>1. dlActive' \in [Control -> Nat]
    <3>1. dlActive' = [dlActive EXCEPT ![of[s]] =
                         IF dlActive[of[s]] > 0 THEN dlActive[of[s]] - 1
                                                ELSE dlActive[of[s]]]
      BY <1>5 DEF EndDownload
    <3>2. dlActive \in [Control -> Nat]
      OBVIOUS
    <3> HIDE DEF TypeOK
    <3> QED
      BY <3>1, <3>2, CountDown
  <2>2. dlResults' \in [Control -> SUBSET Index]
    <3>1. dlResults' = [dlResults EXCEPT ![of[s]] = @ \cup {idx[s]}]
      BY <1>5 DEF EndDownload
    <3>2. dlResults \in [Control -> SUBSET Index] /\ idx[s] \in Index
      OBVIOUS
    <3> HIDE DEF TypeOK
    <3> QED
      BY <3>1, <3>2, AddIndex
  <2>3. UNCHANGED <<ctlVars, mapVars, of, idx, open, upVars, reportVars>>
    BY <1>5 DEF EndDownload
  <2>4. strm' \in [Stream -> StreamState]
    BY <1>5 DEF EndDownload
  <2> QED
    BY <2>1, <2>2, <2>3, <2>4
<1>6. CASE StartUpload(s)
  BY <1>6 DEF StartUpload
<1>7. CASE EndUpload(s)
  <2> DEFINE left == IF upActive[of[s]] > 0 THEN upActive[of[s]] - 1 ELSE 0
             last == left = 0 /\ ~upFinal[of[s]]
  <2>1. upActive' \in [Control -> Nat]
    <3>1. upActive' = [upActive EXCEPT ![of[s]] = left]
      BY <1>7 DEF EndUpload
    <3>2. CASE of[s] \in Control
      <4>1. left \in Nat
        BY <3>2
      <4> QED
        BY <3>1, <4>1
    <3>3. CASE of[s] \notin Control
      <4>1. upActive \in [Control -> Nat]
        OBVIOUS
      <4> HIDE DEF left, TypeOK
      <4>2. upActive' = upActive
        BY <3>1, <3>3, <4>1
      <4> QED
        BY <4>1, <4>2
    <3> QED
      BY <3>2, <3>3
  <2>2. /\ upSamples' \in [Control -> SUBSET Index]
        /\ upTotal' \in [Control -> SUBSET Index]
    <3>1. /\ upSamples' = [upSamples EXCEPT ![of[s]] = @ \cup {idx[s]}]
          /\ upTotal' = [upTotal EXCEPT ![of[s]] = @ \cup {idx[s]}]
      BY <1>7 DEF EndUpload
    <3>2. /\ upSamples \in [Control -> SUBSET Index]
          /\ upTotal \in [Control -> SUBSET Index]
          /\ idx[s] \in Index
      OBVIOUS
    <3> HIDE DEF TypeOK
    <3> QED
      BY <3>1, <3>2, AddIndex
  <2>3. upFinal' \in [Control -> BOOLEAN]
    <3>1. upFinal' = [upFinal EXCEPT ![of[s]] = upFinal[of[s]] \/ last]
      BY <1>7 DEF EndUpload
    <3> QED
      BY <3>1, Zenon
  <2>4. perStream' \in [Control -> SUBSET Index]
    <3>1. perStream' = [perStream EXCEPT ![of[s]] =
                          IF last THEN upSamples'[of[s]] ELSE perStream[of[s]]]
      BY <1>7 DEF EndUpload
    <3>2. perStream \in [Control -> SUBSET Index]
      OBVIOUS
    <3> HIDE DEF last, TypeOK
    <3>3. of[s] \in Control
            => (IF last THEN upSamples'[of[s]] ELSE perStream[of[s]])
                 \in SUBSET Index
      BY <2>2, <3>2
    <3> QED
      BY <3>1, <3>2, <3>3
  <2>5. strm' \in [Stream -> StreamState]
    <3>1. strm' = [strm EXCEPT ![s] = IF last THEN "aggregating" ELSE "idle"]
      BY <1>7 DEF EndUpload
    <3> HIDE DEF last
    <3> QED
      BY <3>1
  <2>6. UNCHANGED <<ctlVars, mapVars, of, idx, open, downVars, reportVars>>
    BY <1>7 DEF EndUpload
  <2> QED
    BY <2>1, <2>2, <2>3, <2>4, <2>5, <2>6
<1>8. CASE StoreStats(s)
  BY <1>8 DEF StoreStats
<1>9. CASE SendResult(s)
  BY <1>9 DEF SendResult
<1>10. CASE StreamReturns(s)
  BY <1>10 DEF StreamReturns
<1>11. CASE RemoveStream(s)
  BY <1>11 DEF RemoveStream
<1>12. CASE DropStream(s)
  BY <1>12 DEF DropStream
<1> QED
  BY <1>1, <1>2, <1>3, <1>4, <1>5, <1>6, <1>7, <1>8, <1>9, <1>10, <1>11, <1>12
  DEF StreamNext

\* Every step, stuttering included, keeps every variable in its type.
LEMMA TypeNext == TypeOK /\ [Next]_vars => TypeOK'
<1> SUFFICES ASSUME TypeOK, [Next]_vars PROVE TypeOK'
  OBVIOUS
<1>1. CASE UNCHANGED vars
  BY <1>1 DEF TypeOK, vars, ctlVars, mapVars, streamVars, downVars, upVars,
              reportVars
<1>2. CASE Next
  BY <1>2, ControlType, StreamType DEF Next
<1> QED
  BY <1>1, <1>2

\* Every variable keeps its type: in particular the two counters of active
\* streams never go below zero (server.go:995-1066).
THEOREM TypeCorrect == Spec => []TypeOK
  BY TypeInit, TypeNext, PTL DEF Spec

-----------------------------------------------------------------------------
(* The lock *)

\* Only claim takes the lock and only release's first step gives it back.
LEMMA LockOwnerNext == TypeOK /\ LockOwner /\ [Next]_vars => LockOwner'
<1> SUFFICES ASSUME TypeOK, LockOwner, [Next]_vars PROVE LockOwner'
  OBVIOUS
<1> USE SessionsAssumption DEF TypeOK, LockOwner, ctlVars
<1>1. ASSUME NEW c \in Control, ControlNext(c) PROVE LockOwner'
  BY <1>1 DEF ControlNext, Claim, Refuse, Vanish, RequestStop, HandleFinal,
              ControlReturns, ReleaseLock, CollectStreams, CloseStream,
              ControlDone
<1>2. ASSUME NEW s \in Stream, StreamNext(s) PROVE LockOwner'
  BY <1>2, StreamFrame
<1>3. CASE UNCHANGED vars
  BY <1>3 DEF vars
<1> QED
  BY <1>1, <1>2, <1>3 DEF Next

\* The lock is held by exactly the test that claimed it and has not released
\* it yet (server.go:849-861, 884-888).
THEOREM LockOwnerHolds == Spec => []LockOwner
<1>1. Init => LockOwner
  BY SessionsAssumption DEF Init, LockOwner
<1> QED
  BY <1>1, LockOwnerNext, TypeCorrect, PTL DEF Spec

\* Every step is a Grant, a Refuse or a Free of TestLock, or a stutter of it.
LEMMA LockStep ==
  TypeOK /\ LockOwner /\ [Next]_vars => [Lock!Next]_(Lock!vars)
<1> SUFFICES ASSUME TypeOK, LockOwner, [Next]_vars
             PROVE  [Lock!Next]_(Lock!vars)
  OBVIOUS
<1> USE SessionsAssumption DEF TypeOK, ctlVars, Outcome
<1>1. ASSUME NEW c \in Control, Claim(c) PROVE Lock!Grant(c)
  BY <1>1 DEF Claim, Lock!Grant
<1>2. ASSUME NEW c \in Control, Refuse(c) PROVE Lock!Refuse(c)
  BY <1>2 DEF Refuse, Lock!Refuse
<1>3. ASSUME NEW c \in Control, ReleaseLock(c) PROVE Lock!Free(c)
  BY <1>3 DEF ReleaseLock, LockOwner, Lock!Free
<1>4. ASSUME NEW c \in Control, ControlNext(c),
             ~Claim(c), ~Refuse(c), ~ReleaseLock(c)
      PROVE  UNCHANGED Lock!vars
  <2>1. active' = active
    BY <1>4 DEF ControlNext, Vanish, RequestStop, HandleFinal, ControlReturns,
                CollectStreams, CloseStream, ControlDone
  <2>2. \A d \in Control : Outcome(d)' = Outcome(d)
    BY <1>4 DEF ControlNext, Vanish, RequestStop, HandleFinal, ControlReturns,
                CollectStreams, CloseStream, ControlDone
  <2> QED
    BY <2>1, <2>2 DEF Lock!vars
<1>5. ASSUME NEW s \in Stream, StreamNext(s) PROVE UNCHANGED Lock!vars
  BY <1>5, StreamFrame DEF Lock!vars
<1>6. CASE UNCHANGED vars
  BY <1>6 DEF vars, Lock!vars
<1> QED
  BY <1>1, <1>2, <1>3, <1>4, <1>5, <1>6 DEF Next, Lock!Next

\* The server implements the abstract single-test lock: it grants it only when
\* free, refuses only when held, and only the owner gives it back.
THEOREM ImplementsTestLock == Spec => LockSpec
<1>1. Init => Lock!Init
  BY DEF Init, Lock!Init, Outcome
<1> QED
  BY <1>1, LockStep, LockOwnerHolds, TypeCorrect, PTL
     DEF Spec, LockSpec, Lock!Spec

-----------------------------------------------------------------------------
(* Streams and the map release closes *)

\* lookup is the only step that gives a stream a session, and it gives it an
\* index no other stream of the session has.
LEMMA JoinedNext == TypeOK /\ StreamsJoined /\ [Next]_vars => StreamsJoined'
<1> SUFFICES ASSUME TypeOK, StreamsJoined, [Next]_vars PROVE StreamsJoined'
  OBVIOUS
<1> USE SessionsAssumption DEF TypeOK, StreamsJoined
<1>1. ASSUME NEW c \in Control, ControlNext(c) PROVE StreamsJoined'
  BY <1>1, ControlFrame
<1>2. ASSUME NEW s \in Stream, StreamNext(s) PROVE StreamsJoined'
  <2>1. ASSUME NEW c \in Control, FindSession(s, c) PROVE StreamsJoined'
    BY <2>1 DEF FindSession
  <2>2. CASE ~\E c \in Control : FindSession(s, c)
    <3>1. UNCHANGED <<of, idx>>
      BY <1>2, <2>2
      DEF StreamNext, FindNoSession, AddStream, StartDownload, EndDownload,
          StartUpload, EndUpload, StoreStats, SendResult, StreamReturns,
          RemoveStream, DropStream
    <3>2. /\ \A t \in Stream \ {s} : strm'[t] = strm[t]
          /\ strm[s] = "hello" => strm'[s] = "gone"
          /\ strm[s] # "hello" => strm'[s] # "hello"
          /\ strm[s] = "gone" => strm'[s] = "gone"
      BY <1>2, <2>2
      DEF StreamNext, FindNoSession, AddStream, StartDownload, Listening,
          EndDownload, StartUpload, EndUpload, StoreStats, SendResult,
          StreamReturns, RemoveStream, DropStream, Registered
    <3> QED
      BY <3>1, <3>2
  <2> QED
    BY <2>1, <2>2
<1>3. CASE UNCHANGED vars
  BY <1>3 DEF vars, streamVars
<1> QED
  BY <1>1, <1>2, <1>3 DEF Next

\* From lookup on a stream belongs to one session, under an index of its own
\* (server.go:489-500).
THEOREM StreamsJoinedHolds == Spec => []StreamsJoined
<1>1. Init => StreamsJoined
  BY SessionsAssumption DEF Init, StreamsJoined
<1> QED
  BY <1>1, JoinedNext, TypeCorrect, PTL DEF Spec

\* addStream writes into the stream's own session, closeStreams copies from its
\* own map, and the list is empty again before the goroutine ends.
LEMMA MapNext ==
  TypeOK /\ StreamsJoined /\ MapIsLocal /\ [Next]_vars => MapIsLocal'
<1> SUFFICES ASSUME TypeOK, StreamsJoined, MapIsLocal, [Next]_vars
             PROVE  MapIsLocal'
  OBVIOUS
<1>0. /\ streams \in [Control -> [Index -> Stream \cup {NoStream}]]
      /\ toClose \in [Control -> SUBSET Stream]
      /\ ctl \in [Control -> ControlState]
      /\ strm \in [Stream -> StreamState]
      /\ of \in [Stream -> Control \cup {NoControl}]
      /\ idx \in [Stream -> Index]
      /\ NoControl \notin Control /\ NoStream \notin Stream
  BY SessionsAssumption DEF TypeOK
<1> USE <1>0 DEF MapIsLocal, mapVars
<1>1. ASSUME NEW c \in Control, ControlNext(c) PROVE MapIsLocal'
  <2>1. of' = of
    BY <1>1, ControlFrame
  <2>2. CASE CollectStreams(c)
    BY <2>1, <2>2 DEF CollectStreams
  <2>3. ASSUME NEW s \in Stream, CloseStream(c, s) PROVE MapIsLocal'
    BY <2>1, <2>3 DEF CloseStream, ctlVars
  <2>4. CASE /\ UNCHANGED mapVars
             /\ \A d \in Control : ctl'[d] # "draining" => toClose[d] = {}
    BY <2>1, <2>4
  <2>5. CASE Claim(c) \/ Refuse(c) \/ ControlReturns(c)
    BY <2>4, <2>5 DEF Claim, Refuse, ControlReturns
  <2>6. CASE Vanish(c) \/ RequestStop(c) \/ HandleFinal(c)
    BY <2>4, <2>6 DEF Vanish, RequestStop, HandleFinal, ctlVars
  <2>7. CASE ReleaseLock(c) \/ ControlDone(c)
    BY <2>4, <2>7 DEF ReleaseLock, ControlDone
  <2> QED
    BY <1>1, <2>2, <2>3, <2>5, <2>6, <2>7 DEF ControlNext
<1>2. ASSUME NEW s \in Stream, StreamNext(s) PROVE MapIsLocal'
  <2>1. UNCHANGED <<toClose, ctl>>
    BY <1>2, StreamFrame DEF ctlVars
  <2>2. ASSUME NEW c \in Control, FindSession(s, c) PROVE MapIsLocal'
    <3>1. of[s] = NoControl /\ UNCHANGED streams
      BY <2>2 DEF FindSession, StreamsJoined
    <3>2. of' = [of EXCEPT ![s] = c]
      BY <2>2 DEF FindSession
    <3> QED
      BY <2>1, <3>1, <3>2
  <2>3. CASE AddStream(s)
    BY <2>1, <2>3 DEF AddStream, StreamsJoined
  <2>4. CASE RemoveStream(s)
    BY <2>1, <2>4 DEF RemoveStream, StreamsJoined
  <2>5. CASE UNCHANGED <<streams, of>>
    BY <2>1, <2>5
  <2> QED
    BY <1>2, <2>2, <2>3, <2>4, <2>5
    DEF StreamNext, FindNoSession, StartDownload, EndDownload, StartUpload,
        EndUpload, StoreStats, SendResult, StreamReturns, DropStream
<1>3. CASE UNCHANGED vars
  BY <1>3 DEF vars, streamVars, ctlVars
<1> QED
  BY <1>1, <1>2, <1>3 DEF Next

\* release closes connections of its own session only (server.go:948-993).
THEOREM MapIsLocalHolds == Spec => []MapIsLocal
<1>1. Init => MapIsLocal
  BY SessionsAssumption DEF Init, MapIsLocal
<1> QED
  BY <1>1, MapNext, StreamsJoinedHolds, TypeCorrect, PTL DEF Spec

\* A stream leaves the map when release collects it, or when its own goroutine
\* ends.
LEMMA ListedNext ==
  TypeOK /\ StreamsJoined /\ StreamsListed /\ [Next]_vars => StreamsListed'
<1> SUFFICES ASSUME TypeOK, StreamsJoined, StreamsListed, [Next]_vars
             PROVE  StreamsListed'
  OBVIOUS
<1>0. /\ streams \in [Control -> [Index -> Stream \cup {NoStream}]]
      /\ ctl \in [Control -> ControlState]
      /\ strm \in [Stream -> StreamState]
      /\ of \in [Stream -> Control \cup {NoControl}]
      /\ idx \in [Stream -> Index]
      /\ NoControl \notin Control
  BY SessionsAssumption DEF TypeOK
<1> USE <1>0 DEF StreamsListed, Registered
<1>1. ASSUME NEW c \in Control, ControlNext(c) PROVE StreamsListed'
  <2>1. UNCHANGED <<strm, of, idx>>
    BY <1>1, ControlFrame
  <2>2. CASE CollectStreams(c)
    <3>1. /\ ctl'[c] = "draining"
          /\ \A d \in Control \ {c} : /\ streams'[d] = streams[d]
                                      /\ ctl'[d] = ctl[d]
      BY <2>2 DEF CollectStreams
    <3> QED
      BY <2>1, <3>1 DEF StreamsJoined
  <2>3. CASE /\ UNCHANGED streams
             /\ \A d \in Control : ctl[d] \in {"draining", "done"}
                                   => ctl'[d] \in {"draining", "done"}
    BY <2>1, <2>3 DEF StreamsJoined
  <2>4. CASE Claim(c) \/ Refuse(c) \/ ControlReturns(c) \/ ReleaseLock(c)
             \/ ControlDone(c)
    BY <2>3, <2>4
    DEF Claim, Refuse, ControlReturns, ReleaseLock, ControlDone, mapVars
  <2>5. CASE Vanish(c) \/ RequestStop(c) \/ HandleFinal(c)
             \/ \E s \in Stream : CloseStream(c, s)
    BY <2>3, <2>5
    DEF Vanish, RequestStop, HandleFinal, CloseStream, ctlVars, mapVars
  <2> QED
    BY <1>1, <2>2, <2>4, <2>5 DEF ControlNext
<1>2. ASSUME NEW s \in Stream, StreamNext(s) PROVE StreamsListed'
  <2>1. UNCHANGED <<ctl, idx>>
    BY <1>2, StreamFrame DEF ctlVars
  <2>2. ASSUME NEW c \in Control, FindSession(s, c) PROVE StreamsListed'
    BY <2>1, <2>2 DEF FindSession, mapVars
  <2>3. CASE AddStream(s) \/ RemoveStream(s)
    <3>1. \A t \in Stream \ {s} :
            of[t] \in Control =>
              streams'[of[t]][idx[t]] = streams[of[t]][idx[t]]
      BY <2>3 DEF AddStream, RemoveStream, StreamsJoined
    <3>2. AddStream(s) => streams'[of[s]][idx[s]] = s
      BY <2>3 DEF AddStream, StreamsJoined
    <3> QED
      BY <2>1, <2>3, <3>1, <3>2 DEF AddStream, RemoveStream, StreamsJoined
  <2>4. CASE /\ UNCHANGED <<streams, of>>
             /\ \A t \in Stream : strm'[t] \in Registered
                                  => strm[t] \in Registered
    BY <2>1, <2>4
  <2>5. CASE StartDownload(s) \/ EndDownload(s)
    BY <2>4, <2>5 DEF StartDownload, Listening, EndDownload, mapVars
  <2>6. CASE StartUpload(s) \/ EndUpload(s)
    BY <2>4, <2>6 DEF StartUpload, Listening, EndUpload, mapVars
  <2>7. CASE \/ StoreStats(s) \/ SendResult(s) \/ StreamReturns(s)
             \/ DropStream(s)
    BY <2>4, <2>7
    DEF StoreStats, SendResult, StreamReturns, DropStream, mapVars
  <2>8. CASE \E c \in Control : FindNoSession(s, c)
    BY <2>4, <2>8 DEF FindNoSession, mapVars
  <2> QED
    BY <1>2, <2>2, <2>3, <2>5, <2>6, <2>7, <2>8 DEF StreamNext
<1>3. CASE UNCHANGED vars
  BY <1>3 DEF vars, streamVars, ctlVars, mapVars
<1> QED
  BY <1>1, <1>2, <1>3 DEF Next

\* Whatever joins, drops or ends meanwhile, the map that release is about to
\* copy holds every stream that has joined the session (server.go:489-500,
\* 948-993).
\* Nothing is said of the streams that join after the copy.
THEOREM StreamsListedHolds == Spec => []StreamsListed
<1>1. Init => StreamsListed
  BY DEF Init, StreamsListed, Registered
<1> QED
  BY <1>1, ListedNext, StreamsJoinedHolds, TypeCorrect, PTL DEF Spec

-----------------------------------------------------------------------------
(* The counters of active streams *)

\* The streams inside a phase can be counted.
LEMMA DownloadingFinite ==
  \A c \in Control : IsFiniteSet(Downloading(c)) /\ IsFiniteSet(Uploading(c))
  BY SessionsAssumption, FS_Subset DEF Downloading, Uploading

\* A set that gains one element counts one more.
LEMMA OneMore ==
  ASSUME NEW S, IsFiniteSet(S), NEW x, x \notin S, NEW T, T = S \cup {x}
  PROVE  Cardinality(T) = Cardinality(S) + 1
  BY FS_AddElement

\* A set that loses one element counts one less.
LEMMA OneLess ==
  ASSUME NEW S, IsFiniteSet(S), NEW x, x \in S, NEW T, T = S \ {x}
  PROVE  Cardinality(T) = Cardinality(S) - 1
  BY FS_RemoveElement

\* A counter changes exactly when a stream enters or leaves its phase.
LEMMA CountersNext ==
  TypeOK /\ StreamsJoined /\ CountersCount /\ [Next]_vars => CountersCount'
<1> SUFFICES ASSUME TypeOK, StreamsJoined, CountersCount, [Next]_vars
             PROVE  CountersCount'
  OBVIOUS
<1> USE SessionsAssumption DEF TypeOK, downVars
<1>1. ASSUME UNCHANGED <<dlActive, upActive>>,
             \A c \in Control : /\ Downloading(c)' = Downloading(c)
                               /\ Uploading(c)' = Uploading(c)
      PROVE  CountersCount'
  BY <1>1 DEF CountersCount
<1>2. ASSUME NEW c \in Control, ControlNext(c) PROVE CountersCount'
  BY <1>1, <1>2, ControlFrame DEF Downloading, Uploading, upVars
<1>3. ASSUME NEW s \in Stream, StreamNext(s) PROVE CountersCount'
  <2>1. ASSUME NEW c \in Control, FindSession(s, c) PROVE CountersCount'
    <3>1. /\ strm' = [strm EXCEPT ![s] = "found"] /\ strm[s] = "hello"
          /\ of' = [of EXCEPT ![s] = c]
          /\ UNCHANGED <<dlActive, upActive>>
      BY <2>1 DEF FindSession, upVars
    <3>2. \A d \in Control : /\ Downloading(d)' = Downloading(d)
                            /\ Uploading(d)' = Uploading(d)
      BY <3>1 DEF Downloading, Uploading
    <3> QED
      BY <1>1, <3>1, <3>2
  <2>2. CASE StartDownload(s)
    <3>1. /\ strm' = [strm EXCEPT ![s] = "downloading"] /\ strm[s] = "idle"
          /\ dlActive' = [dlActive EXCEPT ![of[s]] = @ + 1]
          /\ UNCHANGED <<of, upActive>>
      BY <2>2 DEF StartDownload, Listening, upVars
    <3>2. of[s] \in Control
      BY <3>1 DEF StreamsJoined
    <3>3. Downloading(of[s])' = Downloading(of[s]) \cup {s}
      BY <3>1 DEF Downloading
    <3>4. Cardinality(Downloading(of[s])') = Cardinality(Downloading(of[s])) + 1
      <4>1. s \notin Downloading(of[s])
        BY <3>1 DEF Downloading
      <4>2. IsFiniteSet(Downloading(of[s]))
        BY <3>2, DownloadingFinite
      <4> HIDE DEF TypeOK
      <4> QED
        BY <3>3, <4>1, <4>2, OneMore
    <3>5. \A d \in Control : /\ d # of[s] => Downloading(d)' = Downloading(d)
                            /\ Uploading(d)' = Uploading(d)
      BY <3>1 DEF Downloading, Uploading
    <3> QED
      BY <3>1, <3>2, <3>4, <3>5 DEF CountersCount
  <2>3. CASE EndDownload(s)
    <3>1. /\ strm' = [strm EXCEPT ![s] = "idle"] /\ strm[s] = "downloading"
          /\ dlActive' = [dlActive EXCEPT ![of[s]] =
                            IF @ > 0 THEN @ - 1 ELSE @]
          /\ UNCHANGED <<of, upActive>>
      BY <2>3 DEF EndDownload, upVars
    <3>2. of[s] \in Control
      BY <3>1 DEF StreamsJoined
    <3>3. Downloading(of[s])' = Downloading(of[s]) \ {s}
      BY <3>1 DEF Downloading
    <3>4. Cardinality(Downloading(of[s])') = Cardinality(Downloading(of[s])) - 1
      <4>1. s \in Downloading(of[s])
        BY <3>1 DEF Downloading
      <4>2. IsFiniteSet(Downloading(of[s]))
        BY <3>2, DownloadingFinite
      <4> HIDE DEF TypeOK
      <4> QED
        BY <3>3, <4>1, <4>2, OneLess
    <3>5. dlActive[of[s]] > 0
      <4>1. Downloading(of[s]) # {}
        BY <3>1 DEF Downloading
      <4>2. dlActive[of[s]] = Cardinality(Downloading(of[s]))
        BY <3>2 DEF CountersCount
      <4>3. Cardinality(Downloading(of[s])) # 0
        BY <3>2, <4>1, DownloadingFinite, FS_EmptySet
      <4> QED
        BY <3>2, <4>2, <4>3
    <3>6. \A d \in Control : /\ d # of[s] => Downloading(d)' = Downloading(d)
                            /\ Uploading(d)' = Uploading(d)
      BY <3>1 DEF Downloading, Uploading
    <3> QED
      BY <3>1, <3>2, <3>4, <3>5, <3>6 DEF CountersCount
  <2>4. CASE StartUpload(s)
    <3>1. /\ strm' = [strm EXCEPT ![s] = "uploading"] /\ strm[s] = "idle"
          /\ upActive' = [upActive EXCEPT ![of[s]] = @ + 1]
          /\ UNCHANGED <<of, dlActive>>
      BY <2>4 DEF StartUpload, Listening
    <3>2. of[s] \in Control
      BY <3>1 DEF StreamsJoined
    <3>3. Uploading(of[s])' = Uploading(of[s]) \cup {s}
      BY <3>1 DEF Uploading
    <3>4. Cardinality(Uploading(of[s])') = Cardinality(Uploading(of[s])) + 1
      <4>1. s \notin Uploading(of[s])
        BY <3>1 DEF Uploading
      <4>2. IsFiniteSet(Uploading(of[s]))
        BY <3>2, DownloadingFinite
      <4> HIDE DEF TypeOK
      <4> QED
        BY <3>3, <4>1, <4>2, OneMore
    <3>5. \A d \in Control : /\ d # of[s] => Uploading(d)' = Uploading(d)
                            /\ Downloading(d)' = Downloading(d)
      BY <3>1 DEF Downloading, Uploading
    <3> QED
      BY <3>1, <3>2, <3>4, <3>5 DEF CountersCount
  <2>5. CASE EndUpload(s)
    <3>1. /\ strm[s] = "uploading"
          /\ upActive' = [upActive EXCEPT ![of[s]] =
                            IF upActive[of[s]] > 0 THEN upActive[of[s]] - 1
                                                   ELSE 0]
          /\ UNCHANGED <<of, dlActive>>
      BY <2>5 DEF EndUpload
    <3>2. of[s] \in Control
      BY <3>1 DEF StreamsJoined
    <3>3. /\ strm'[s] \in {"aggregating", "idle"}
          /\ \A t \in Stream \ {s} : strm'[t] = strm[t]
      <4> DEFINE last == /\ (IF upActive[of[s]] > 0 THEN upActive[of[s]] - 1
                                                    ELSE 0) = 0
                         /\ ~upFinal[of[s]]
      <4>1. strm' = [strm EXCEPT ![s] = IF last THEN "aggregating" ELSE "idle"]
        BY <2>5 DEF EndUpload
      <4> HIDE DEF last
      <4> QED
        BY <4>1
    <3>4. Uploading(of[s])' = Uploading(of[s]) \ {s}
      BY <3>1, <3>3 DEF Uploading
    <3>5. Cardinality(Uploading(of[s])') = Cardinality(Uploading(of[s])) - 1
      <4>1. s \in Uploading(of[s])
        BY <3>1 DEF Uploading
      <4>2. IsFiniteSet(Uploading(of[s]))
        BY <3>2, DownloadingFinite
      <4> HIDE DEF TypeOK
      <4> QED
        BY <3>4, <4>1, <4>2, OneLess
    <3>6. upActive[of[s]] > 0
      <4>1. Uploading(of[s]) # {}
        BY <3>1 DEF Uploading
      <4>2. upActive[of[s]] = Cardinality(Uploading(of[s]))
        BY <3>2 DEF CountersCount
      <4>3. Cardinality(Uploading(of[s])) # 0
        BY <3>2, <4>1, DownloadingFinite, FS_EmptySet
      <4> QED
        BY <3>2, <4>2, <4>3
    <3>7. \A d \in Control : /\ d # of[s] => Uploading(d)' = Uploading(d)
                            /\ Downloading(d)' = Downloading(d)
      BY <3>1, <3>3 DEF Downloading, Uploading
    <3> QED
      BY <3>1, <3>2, <3>5, <3>6, <3>7 DEF CountersCount
  <2>6. ASSUME UNCHANGED <<of, dlActive, upActive>>,
               \A t \in Stream :
                 strm[t] # strm'[t] =>
                   {strm[t], strm'[t]} \cap {"downloading", "uploading"} = {}
        PROVE  CountersCount'
    <3>1. \A c \in Control : /\ Downloading(c)' = Downloading(c)
                            /\ Uploading(c)' = Uploading(c)
      BY <2>6 DEF Downloading, Uploading
    <3> QED
      BY <1>1, <2>6, <3>1
  <2>7. CASE \/ \E c \in Control : FindNoSession(s, c)
             \/ AddStream(s) \/ StoreStats(s) \/ SendResult(s)
             \/ StreamReturns(s) \/ RemoveStream(s) \/ DropStream(s)
    BY <2>6, <2>7
    DEF FindNoSession, AddStream, StoreStats, SendResult, StreamReturns,
        RemoveStream, DropStream, upVars
  <2> QED
    BY <1>3, <2>1, <2>2, <2>3, <2>4, <2>5, <2>7 DEF StreamNext
<1>4. CASE UNCHANGED vars
  BY <1>1, <1>4 DEF vars, streamVars, upVars, Downloading, Uploading
<1> QED
  BY <1>2, <1>3, <1>4 DEF Next

\* dlActive and upActive are the numbers of streams inside sendDownload and
\* recvUpload, so "last" in endDownload and endUpload means what it says and
\* their "> 0" tests never fail (server.go:995-1056).
THEOREM CountersCountHolds == Spec => []CountersCount
<1>1. Init => CountersCount
  <2> SUFFICES ASSUME Init PROVE CountersCount
    OBVIOUS
  <2>1. \A c \in Control : Downloading(c) = {} /\ Uploading(c) = {}
    BY DEF Init, Downloading, Uploading
  <2> QED
    BY <2>1, FS_EmptySet DEF Init, CountersCount
<1> QED
  BY <1>1, CountersNext, StreamsJoinedHolds, TypeCorrect, PTL DEF Spec

-----------------------------------------------------------------------------
(* The upload figures *)

figureVars == <<upSamples, upTotal, upFinal, perStream, upStats, result>>

\* The goroutines between endUpload's critical sections, by session and step.
Reporting(c) == {s \in Reporters(c) : strm[s] = "reporting"}

FiguresInv == FiguresOrdered /\ OneReporter

\* The invariant only reads the figures and who is reporting.
LEMMA FiguresFrame ==
  ASSUME FiguresInv, UNCHANGED figureVars,
         \A c \in Control : /\ Reporters(c)' = Reporters(c)
                           /\ Reporting(c)' = Reporting(c)
  PROVE  FiguresInv'
<1>1. OneReporter'
  BY DEF FiguresInv, OneReporter, figureVars
<1>2. \A c \in Control : \A s \in Reporters(c) :
        strm'[s] = "reporting" => strm[s] = "reporting"
  BY DEF Reporting
<1>3. FiguresOrdered'
  BY <1>2 DEF FiguresInv, FiguresOrdered, FiguresAt, figureVars
<1> QED
  BY <1>1, <1>3 DEF FiguresInv

\* endUpload's first critical section: whether or not the stream is the last.
LEMMA EndUploadFigures ==
  ASSUME TypeOK, StreamsJoined, FiguresInv, NEW s \in Stream, EndUpload(s),
         NEW c \in Control, c = of[s]
  PROVE  FiguresInv'
<1> DEFINE left == IF upActive[c] > 0 THEN upActive[c] - 1 ELSE 0
           last == left = 0 /\ ~upFinal[c]
<1>1. /\ strm[s] = "uploading" /\ c \in Control
      /\ upSamples' = [upSamples EXCEPT ![c] = @ \cup {idx[s]}]
      /\ upTotal' = [upTotal EXCEPT ![c] = @ \cup {idx[s]}]
      /\ upFinal' = [upFinal EXCEPT ![c] = @ \/ last]
      /\ perStream' = [perStream EXCEPT ![c] =
                         IF last THEN upSamples'[c] ELSE @]
      /\ strm' = [strm EXCEPT ![s] = IF last THEN "aggregating" ELSE "idle"]
      /\ UNCHANGED <<of, upStats, result>>
  BY DEF EndUpload, StreamsJoined, reportVars
<1>2. last => ~upFinal[c]
  OBVIOUS
<1> HIDE DEF last
<1>3. \A d \in Control \ {c} :
        /\ Reporters(d)' = Reporters(d) /\ Reporting(d)' = Reporting(d)
        /\ upSamples'[d] = upSamples[d] /\ upTotal'[d] = upTotal[d]
        /\ upFinal'[d] = upFinal[d] /\ perStream'[d] = perStream[d]
  BY <1>1 DEF TypeOK, Reporters, Reporting
<1>4. Reporting(c)' = Reporting(c)
  BY <1>1 DEF TypeOK, Reporters, Reporting
<1>5. CASE last
  <2>1. Reporters(c) = {} /\ result[c] = NoFigures /\ upStats[c] = NoFigures
    BY <1>1, <1>2, <1>5 DEF FiguresInv, OneReporter, FiguresOrdered, FiguresAt
  <2>2. Reporters(c)' = {s}
    BY <1>1, <1>5, <2>1 DEF TypeOK, Reporters
  <2>3. /\ upSamples'[c] = upSamples[c] \cup {idx[s]}
        /\ upTotal'[c] = upTotal[c] \cup {idx[s]}
        /\ upSamples[c] = upTotal[c]
        /\ upFinal'[c] /\ perStream'[c] = upSamples'[c]
    BY <1>1, <1>5 DEF TypeOK, FiguresInv, FiguresOrdered, FiguresAt
  <2>4. \A t \in Reporters(c)' : strm'[t] # "reporting"
    BY <1>1, <1>5, <2>2 DEF TypeOK
  <2>5. OneReporter'
    <3>1. ASSUME NEW d \in Control \ {c}
          PROVE  /\ \A t, u \in Reporters(d)' : t = u
                 /\ Reporters(d)' # {} => upFinal'[d] /\ result'[d] = NoFigures
                 /\ upStats'[d] # NoFigures
                      => upFinal'[d] /\ upStats'[d] = perStream'[d]
      BY <1>1, <1>3, <3>1 DEF FiguresInv, OneReporter
    <3>2. /\ \A t, u \in Reporters(c)' : t = u
          /\ upFinal'[c] /\ result'[c] = NoFigures /\ upStats'[c] = NoFigures
      BY <1>1, <2>1, <2>2, <2>3
    <3> QED
      BY <3>1, <3>2 DEF OneReporter
  <2>6. FiguresOrdered'
    <3>1. ASSUME NEW d \in Control \ {c} PROVE FiguresAt(d)'
      BY <1>1, <1>3, <3>1
      DEF FiguresInv, FiguresOrdered, FiguresAt, Reporting
    <3>2. FiguresAt(c)'
      BY <1>1, <2>1, <2>3, <2>4 DEF FiguresAt
    <3> QED
      BY <3>1, <3>2 DEF FiguresOrdered
  <2> QED
    BY <2>5, <2>6 DEF FiguresInv
<1>6. CASE ~last
  <2>1. Reporters(c)' = Reporters(c)
    BY <1>1, <1>6 DEF TypeOK, Reporters
  <2>2. /\ upSamples'[c] = upSamples[c] \cup {idx[s]}
        /\ upTotal'[c] = upTotal[c] \cup {idx[s]}
        /\ upFinal'[c] = upFinal[c] /\ perStream'[c] = perStream[c]
    BY <1>1, <1>6 DEF TypeOK
  <2>3. OneReporter'
    BY <1>1, <1>3, <2>1, <2>2 DEF FiguresInv, OneReporter
  <2>4. FiguresOrdered'
    <3>1. ASSUME NEW d \in Control \ {c} PROVE FiguresAt(d)'
      BY <1>1, <1>3, <3>1
      DEF FiguresInv, FiguresOrdered, FiguresAt, Reporting
    <3>2. FiguresAt(c)'
      <4>1. FiguresAt(c)
        BY DEF FiguresInv, FiguresOrdered
      <4>2. UNCHANGED <<upStats[c], result[c]>>
        BY <1>1
      <4>3. \A t \in Reporters(c)' : strm'[t] = "reporting" =>
              t \in Reporters(c) /\ strm[t] = "reporting"
        BY <1>4, <2>1 DEF Reporting
      <4> QED
        BY <2>2, <4>1, <4>2, <4>3 DEF FiguresAt
    <3> QED
      BY <3>1, <3>2 DEF FiguresOrdered
  <2> QED
    BY <2>3, <2>4 DEF FiguresInv
<1> QED
  BY <1>5, <1>6

\* endUpload's second critical section: the reporter's snapshot is stored.
LEMMA StoreStatsFigures ==
  ASSUME TypeOK, StreamsJoined, FiguresInv, NEW s \in Stream, StoreStats(s),
         NEW c \in Control, c = of[s]
  PROVE  FiguresInv'
<1>1. /\ s \in Reporters(c) /\ strm[s] = "aggregating"
      /\ upStats' = [upStats EXCEPT ![c] = perStream[c]]
      /\ strm' = [strm EXCEPT ![s] = "reporting"]
      /\ UNCHANGED <<of, upSamples, upTotal, upFinal, perStream, result>>
  BY DEF StoreStats, Reporters, upVars
<1>2. \A d \in Control : Reporters(d)' = Reporters(d)
  BY <1>1 DEF TypeOK, Reporters
<1>3. /\ upFinal[c] /\ result[c] = NoFigures
      /\ upStats'[c] = perStream[c]
      /\ \A d \in Control \ {c} : upStats'[d] = upStats[d]
  BY <1>1 DEF TypeOK, FiguresInv, OneReporter
<1>4. OneReporter'
  BY <1>1, <1>2, <1>3 DEF FiguresInv, OneReporter
<1>5. ASSUME NEW d \in Control \ {c} PROVE FiguresAt(d)'
  <2>1. \A t \in Reporters(d) : strm'[t] = strm[t]
    BY <1>1, <1>5 DEF TypeOK, Reporters
  <2> QED
    BY <1>1, <1>2, <1>3, <2>1 DEF FiguresInv, FiguresOrdered, FiguresAt
<1>6. FiguresAt(c)'
  BY <1>1, <1>3 DEF FiguresInv, FiguresOrdered, FiguresAt
<1> QED
  BY <1>4, <1>5, <1>6 DEF FiguresInv, FiguresOrdered

\* RESULT is written from the snapshot the session's figures were stored from.
LEMMA SendResultFigures ==
  ASSUME TypeOK, StreamsJoined, FiguresInv, NEW s \in Stream, SendResult(s),
         NEW c \in Control, c = of[s]
  PROVE  FiguresInv'
<1>1. /\ s \in Reporters(c) /\ strm[s] = "reporting"
      /\ result' = [result EXCEPT ![c] =
                      IF ctl[c] = "done" THEN result[c] ELSE perStream[c]]
      /\ strm' = [strm EXCEPT ![s] = "idle"]
      /\ UNCHANGED <<of, upSamples, upTotal, upFinal, perStream, upStats>>
  BY DEF SendResult, Reporters, upVars
<1>2. Reporters(c) = {s} /\ upFinal[c] /\ upStats[c] = perStream[c]
  BY <1>1 DEF FiguresInv, OneReporter, FiguresOrdered, FiguresAt
<1>3. /\ Reporters(c)' = {}
      /\ \A d \in Control \ {c} : /\ Reporters(d)' = Reporters(d)
                                 /\ result'[d] = result[d]
      /\ result'[c] \in {result[c], perStream[c]}
  BY <1>1, <1>2 DEF TypeOK, Reporters
<1>4. OneReporter'
  BY <1>1, <1>3 DEF FiguresInv, OneReporter
<1>5. ASSUME NEW d \in Control \ {c} PROVE FiguresAt(d)'
  <2>1. \A t \in Reporters(d) : strm'[t] = strm[t]
    BY <1>1, <1>5 DEF TypeOK, Reporters
  <2> QED
    BY <1>1, <1>3, <2>1 DEF FiguresInv, FiguresOrdered, FiguresAt
<1>6. FiguresAt(c)'
  BY <1>1, <1>2, <1>3 DEF FiguresInv, FiguresOrdered, FiguresAt
<1> QED
  BY <1>4, <1>5, <1>6 DEF FiguresInv, FiguresOrdered

\* The steps outside endUpload neither compute nor report figures.
LEMMA QuietFigures ==
  ASSUME TypeOK, StreamsJoined, [Next]_vars,
         \A s \in Stream : ~EndUpload(s) /\ ~StoreStats(s) /\ ~SendResult(s)
  PROVE  /\ UNCHANGED figureVars
         /\ \A c \in Control : /\ Reporters(c)' = Reporters(c)
                               /\ Reporting(c)' = Reporting(c)
<1> USE DEF TypeOK, Reporters, Reporting, figureVars, upVars
<1>1. ASSUME NEW c \in Control, ControlNext(c)
      PROVE  UNCHANGED <<figureVars, strm, of>>
  BY <1>1, ControlFrame
<1>2. ASSUME NEW s \in Stream, StreamNext(s)
      PROVE  /\ UNCHANGED figureVars
             /\ \A t \in Stream \ {s} : UNCHANGED <<strm[t], of[t]>>
             /\ {strm[s], strm'[s]} \cap {"aggregating", "reporting"} = {}
  BY <1>2
  DEF StreamNext, FindSession, FindNoSession, AddStream, StartDownload,
      Listening, EndDownload, StartUpload, StreamReturns, RemoveStream,
      DropStream, Registered, reportVars
<1>3. CASE UNCHANGED vars
  BY <1>3 DEF vars, streamVars, reportVars
<1> QED
  BY <1>1, <1>2, <1>3 DEF Next

\* Every step keeps the order in which figures come to be.
LEMMA FiguresNext ==
  TypeOK /\ StreamsJoined /\ FiguresInv /\ [Next]_vars => FiguresInv'
<1> SUFFICES ASSUME TypeOK, StreamsJoined, FiguresInv, [Next]_vars
             PROVE  FiguresInv'
  OBVIOUS
<1>1. ASSUME NEW s \in Stream,
             EndUpload(s) \/ StoreStats(s) \/ SendResult(s)
      PROVE  FiguresInv'
  <2>1. of[s] \in Control
    BY <1>1 DEF StreamsJoined, EndUpload, StoreStats, SendResult
  <2> QED
    BY <1>1, <2>1, EndUploadFigures, StoreStatsFigures, SendResultFigures
<1>2. CASE \A s \in Stream :
             ~EndUpload(s) /\ ~StoreStats(s) /\ ~SendResult(s)
  BY <1>2, QuietFigures, FiguresFrame
<1> QED
  BY <1>1, <1>2

\* The inductive invariant of the figures.
LEMMA FiguresHold == Spec => []FiguresInv
<1>1. Init => FiguresInv
  BY DEF Init, FiguresInv, FiguresOrdered, FiguresAt, OneReporter, Reporters
<1> QED
  BY <1>1, FiguresNext, StreamsJoinedHolds, TypeCorrect, PTL DEF Spec

\* One goroutine at a time aggregates a session's upload, and its figures are
\* not readable before it has stored them (server.go:1046-1102).
THEOREM OneReporterHolds == Spec => []OneReporter
<1>1. FiguresInv => OneReporter
  BY DEF FiguresInv
<1> QED
  BY <1>1, FiguresHold, PTL

\* The inductive strengthening holds: who is joined, the maps and what release
\* finds in them, and the order in which figures come to be.
THEOREM StrengtheningHolds == Spec => []Strengthening
<1>1. StreamsJoined /\ MapIsLocal /\ StreamsListed /\ FiguresInv
        => Strengthening
  BY DEF FiguresInv, Strengthening
<1> QED
  BY <1>1, FiguresHold, StreamsJoinedHolds, MapIsLocalHolds,
     StreamsListedHolds, PTL

-----------------------------------------------------------------------------
(* The stored run, and what never changes *)

\* What a session has decided survives every step.
LEMMA DecidedStep ==
  ASSUME TypeOK, StreamsJoined, FiguresInv, Next, NEW c \in Control
  PROVE  /\ upStats[c] # NoFigures => upStats'[c] = upStats[c]
         /\ result[c] # NoFigures => result'[c] = result[c]
         /\ upFinal[c] => upFinal'[c] /\ perStream'[c] = perStream[c]
         /\ stopped[c] => stopped'[c]
<1>1. stopped[c] => stopped'[c]
  <2>1. ASSUME NEW d \in Control, ControlNext(d)
        PROVE  stopped[c] => stopped'[c]
    BY <2>1
    DEF TypeOK, ControlNext, Claim, Refuse, Vanish, RequestStop, HandleFinal,
        ControlReturns, ReleaseLock, CollectStreams, CloseStream, ControlDone,
        ctlVars
  <2>2. ASSUME NEW s \in Stream, StreamNext(s) PROVE stopped' = stopped
    BY <2>2, StreamFrame DEF ctlVars
  <2> QED
    BY <2>1, <2>2 DEF Next
<1>2. ASSUME NEW s \in Stream, EndUpload(s)
      PROVE  /\ UNCHANGED <<upStats, result>>
             /\ upFinal[c] => upFinal'[c] /\ perStream'[c] = perStream[c]
  BY <1>2 DEF EndUpload, TypeOK, reportVars
<1>3. ASSUME NEW s \in Stream, StoreStats(s)
      PROVE  /\ upStats[c] # NoFigures => upStats'[c] = upStats[c]
             /\ UNCHANGED <<upFinal, perStream, result>>
  BY <1>3 DEF StoreStats, TypeOK, upVars, FiguresInv, OneReporter
<1>4. ASSUME NEW s \in Stream, SendResult(s)
      PROVE  /\ result[c] # NoFigures => result'[c] = result[c]
             /\ UNCHANGED <<upFinal, perStream, upStats>>
  <2>1. of[s] = c => s \in Reporters(c)
    BY <1>4 DEF SendResult, Reporters
  <2>2. result[c] # NoFigures => of[s] # c
    BY <2>1 DEF FiguresInv, OneReporter
  <2> QED
    BY <1>4, <2>2 DEF SendResult, TypeOK, upVars
<1>5. CASE \A s \in Stream :
             ~EndUpload(s) /\ ~StoreStats(s) /\ ~SendResult(s)
  BY <1>1, <1>5, QuietFigures DEF figureVars
<1> QED
  BY <1>1, <1>2, <1>3, <1>4, <1>5

\* A session's figures, its RESULT, its last-stream decision and its stop are
\* final (server.go:157-161, 1056-1061, 1082-1084).
THEOREM DecidedOnceHolds == Spec => DecidedOnce
<1> DEFINE Step == \A c \in Control :
             /\ upStats[c] # NoFigures => upStats'[c] = upStats[c]
             /\ result[c] # NoFigures => result'[c] = result[c]
             /\ upFinal[c] => upFinal'[c] /\ perStream'[c] = perStream[c]
             /\ stopped[c] => stopped'[c]
<1>1. TypeOK /\ StreamsJoined /\ FiguresInv /\ [Next]_vars => [Step]_vars
  <2> SUFFICES ASSUME TypeOK, StreamsJoined, FiguresInv, Next PROVE Step
    OBVIOUS
  <2> QED
    BY DecidedStep
<1> QED
  BY <1>1, TypeCorrect, StreamsJoinedHolds, FiguresHold, PTL
  DEF Spec, DecidedOnce

\* HandleFinal stores what RESULT showed, and no step changes it afterwards.
LEMMA StoredNext ==
  TypeOK /\ StreamsJoined /\ FiguresInv /\ StoredRunMatchesResult /\ [Next]_vars
    => StoredRunMatchesResult'
<1> SUFFICES ASSUME TypeOK, StreamsJoined, FiguresInv, StoredRunMatchesResult,
                    [Next]_vars, NEW c \in Uploads, stored'[c] # NoFigures
             PROVE  /\ stored'[c].stats = result'[c]
                    /\ stored'[c].total # {}
                    /\ result'[c] # NoFigures
                    /\ result'[c] \subseteq stored'[c].total
  BY DEF StoredRunMatchesResult
<1>1. c \in Control
  BY SessionsAssumption
<1>2. ASSUME HandleFinal(c)
      PROVE  /\ stored'[c].stats = result'[c]
             /\ stored'[c].total # {}
             /\ result'[c] # NoFigures
             /\ result'[c] \subseteq stored'[c].total
  <2>1. /\ stored'[c] = [stats |-> upStats[c], total |-> upTotal[c]]
        /\ result' = result /\ result[c] # NoFigures
    BY <1>1, <1>2 DEF HandleFinal, TypeOK
  <2>2. /\ result[c] = upStats[c] /\ upStats[c] = perStream[c]
        /\ perStream[c] # {} /\ perStream[c] \subseteq upTotal[c]
    BY <1>1, <2>1 DEF FiguresInv, FiguresOrdered, FiguresAt, OneReporter
  <2> QED
    BY <2>1, <2>2
<1>3. CASE stored'[c] = stored[c]
  <2>1. /\ stored[c].stats = result[c] /\ stored[c].total # {}
        /\ result[c] \subseteq stored[c].total
        /\ result[c] # NoFigures
    BY <1>1, <1>3 DEF StoredRunMatchesResult, TypeOK
  <2>2. result'[c] = result[c]
    BY <1>1, <2>1, DecidedStep DEF vars, reportVars
  <2> QED
    BY <1>3, <2>1, <2>2
<1>4. stored'[c] = stored[c] \/ HandleFinal(c)
  <2>1. ASSUME NEW d \in Control, ControlNext(d)
        PROVE  stored'[c] = stored[c] \/ HandleFinal(c)
    BY <1>1, <2>1, ControlFrame DEF HandleFinal, TypeOK
  <2> QED
    BY <2>1, StreamFrame DEF Next, vars, reportVars
<1> QED
  BY <1>2, <1>3, <1>4

\* The stored run carries the figures of RESULT (server.go:746-747, 1082-1102).
THEOREM StoredRunMatchesResultHolds == Spec => []StoredRunMatchesResult
<1>1. Init => StoredRunMatchesResult
  BY SessionsAssumption DEF Init, StoredRunMatchesResult
<1> QED
  BY <1>1, StoredNext, FiguresHold, StreamsJoinedHolds, TypeCorrect, PTL
  DEF Spec
=============================================================================
