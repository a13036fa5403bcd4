-------------------------- MODULE ObserversProofs --------------------------
(***************************************************************************)
(* Proofs about Observers for every set of tests, pages and connections    *)
(* and every window: type correctness, and that no page that registered    *)
(* while no test ran goes on showing one that is over.  The argument is    *)
(* about what a page will show once it has read what is on its way: if     *)
(* that is a running test, something is still going to be written to it.   *)
(***************************************************************************)
EXTENDS Observers, SequenceTheorems, TLAPS

\* What the types rest on: a goroutine between two broadcasts has nothing left
\* to write, and a connection has one page at most.
Casts ==
  /\ \A t \in Test : cast[t] = "none" => toWrite[t] = {}
  /\ \A p, q \in Page : mine[p] = mine[q] /\ mine[p] # NoConn => p = q

TestType ==
  /\ active \in Test \cup {NoTest}
  /\ stage \in [Test -> Stage]
  /\ cast \in [Test -> Event \cup {"none"}]
  /\ toWrite \in [Test -> SUBSET Conn]

ConnType ==
  /\ observers \subseteq Conn
  /\ obs \in [Conn -> Phase]
  /\ first \in [Conn -> {"running", "idle"}]
  /\ writable \in [Conn -> BOOLEAN]

Message == Event \cup {"ACK", "CLOSE"}
InboxType == inbox \in [Conn -> Seq(Message)]

PageType ==
  /\ mine \in [Page -> Conn \cup {NoConn}]
  /\ watch \in [Page -> {"off", "opening", "watching", "asleep"}]
  /\ screen \in [Page -> {"waiting", "running", "done"}]
  /\ \A p \in Page : watch[p] = "off" <=> mine[p] = NoConn

Typed == TestType /\ ConnType /\ InboxType /\ PageType /\ Casts

-----------------------------------------------------------------------------
(* Type correctness *)

\* Whatever is written to a connection, and whether it arrives, inboxes hold
\* messages.
LEMMA WriteType ==
  ASSUME InboxType, NEW c \in Conn, NEW m \in Message, Write(c, m)
  PROVE  InboxType'
<1>1. Append(inbox[c], m) \in Seq(Message)
  BY DEF InboxType
<1> QED
  BY <1>1 DEF InboxType, Write

\* The goroutine of a test.
LEMMA TestTyped ==
  ASSUME Typed, NEW t \in Test, Claim(t) \/ TestMustStep(t)
  PROVE  Typed'
<1> USE DEF Typed, TestType, ConnType, PageType, Casts, Stage, Event, connVars,
            pageVars
<1>1. CASE Claim(t)
  BY <1>1 DEF Claim, InboxType
<1>7. CASE EndBroadcast(t)
  BY <1>7 DEF EndBroadcast, InboxType
<1>8. CASE ControlReturns(t)
  BY <1>8 DEF ControlReturns, InboxType
<1>9. CASE ReleaseLock(t)
  <2>1. TestType'
    BY <1>9 DEF ReleaseLock
  <2>2. UNCHANGED <<cast, toWrite, connVars, pageVars>>
    BY <1>9 DEF ReleaseLock
  <2> QED
    BY <2>1, <2>2 DEF InboxType
<1>2. CASE SayRunning(t)
  BY <1>2 DEF SayRunning, Broadcast, InboxType
<1>4. CASE Relay(t)
  BY <1>4 DEF Relay, Broadcast, InboxType
<1>5. CASE Report(t)
  BY <1>5 DEF Report, Broadcast, InboxType
<1>6. CASE SayIdle(t)
  BY <1>6 DEF SayIdle, Broadcast, InboxType
<1>3. ASSUME NEW c \in Conn, WriteEvent(t, c) PROVE Typed'
  <2>1. cast[t] \in Message
    BY <1>3 DEF WriteEvent, Message
  <2>2. InboxType'
    BY <1>3, <2>1, WriteType DEF WriteEvent
  <2> QED
    BY <1>3, <2>2 DEF WriteEvent
<1> QED
  BY <1>1, <1>2, <1>3, <1>4, <1>5, <1>6, <1>7, <1>8, <1>9 DEF TestMustStep

\* The goroutine of an observer connection.
LEMMA ConnTyped ==
  ASSUME Typed, NEW c \in Conn, ObserverMustStep(c)
  PROVE  Typed'
<1> USE DEF Typed, TestType, ConnType, PageType, Casts, Phase, testVars,
            pageVars
<1>1. CASE Register(c)
  BY <1>1 DEF Register, InboxType
<1>2. CASE NoHello(c)
  BY <1>2 DEF NoHello, InboxType
<1>6. CASE WriteFails(c)
  BY <1>6 DEF WriteFails, InboxType
<1>7. CASE ObserverReturns(c)
  BY <1>7 DEF ObserverReturns, InboxType
<1>8. CASE Deregister(c)
  BY <1>8 DEF Deregister, InboxType
<1>3. CASE SendAck(c)
  <2>1. InboxType'
    BY <1>3, WriteType DEF SendAck, Message
  <2> QED
    BY <1>3, <2>1 DEF SendAck
<1>4. CASE SendFirst(c)
  <2>1. first[c] \in Message
    BY DEF Message, Event
  <2>2. InboxType'
    BY <1>4, <2>1, WriteType DEF SendFirst
  <2> QED
    BY <1>4, <2>2 DEF SendFirst
<1>5. CASE CloseConn(c)
  <2>1. InboxType'
    <3>1. Append(inbox[c], "CLOSE") \in Seq(Message)
      BY DEF InboxType, Message
    <3> QED
      BY <1>5, <3>1 DEF CloseConn, InboxType
  <2> QED
    BY <1>5, <2>1 DEF CloseConn
<1> QED
  BY <1>1, <1>2, <1>3, <1>4, <1>5, <1>6, <1>7, <1>8 DEF ObserverMustStep

\* The page.
LEMMA PageTyped ==
  ASSUME Typed, NEW p \in Page,
         Sleep(p) \/ Wake(p) \/ Drop(p) \/ PageMustStep(p)
  PROVE  Typed'
<1> USE ObserversAssumption
    DEF Typed, TestType, ConnType, PageType, Casts, testVars, connVars
<1>1. CASE Open(p)
  <2>1. PICK c \in Conn :
          /\ ~Held(c)
          /\ mine' = [mine EXCEPT ![p] = c]
          /\ obs' = [obs EXCEPT ![c] = "hello"]
          /\ writable' = [writable EXCEPT ![c] = TRUE]
    BY <1>1 DEF Open, Unused
  <2>2. \A q \in Page : mine[q] # c
    BY <2>1 DEF Held, Range
  <2> QED
    BY <1>1, <2>1, <2>2 DEF Open, Phase, InboxType
<1>2. CASE Drop(p) \/ Reject(p) \/ ReceiveClose(p)
  <2>1. Lose(p) /\ mine[p] \in Conn
    BY <1>2 DEF Drop, Reject, ReceiveClose
  <2>2. InboxType'
    BY <2>1 DEF Lose, InboxType
  <2> QED
    BY <2>1, <2>2 DEF Lose
<1>3. CASE Accept(p) \/ Receive(p)
  <2>1. mine[p] \in Conn /\ inbox[mine[p]] # <<>>
    BY <1>3 DEF Accept, Receive, HasMail
  <2>2. Tail(inbox[mine[p]]) \in Seq(Message)
    BY <2>1 DEF InboxType
  <2>6. inbox' = [inbox EXCEPT ![mine[p]] = Tail(inbox[mine[p]])]
    BY <1>3 DEF Accept, Receive
  <2>3. InboxType'
    BY <2>2, <2>6 DEF InboxType
  <2>4. CASE Accept(p)
    BY <2>1, <2>3, <2>4 DEF Accept
  <2>5. CASE Receive(p)
    <3>1. Screen(screen[p], Unread(p)) \in {"waiting", "running", "done"}
      BY <2>5 DEF Receive, Screen, Event
    <3> QED
      BY <2>1, <2>3, <2>5, <3>1 DEF Receive
  <2> QED
    BY <1>3, <2>4, <2>5
<1>4. CASE Sleep(p)
  BY <1>4 DEF Sleep, InboxType
<1>5. CASE Wake(p)
  BY <1>5 DEF Wake, InboxType
<1> QED
  BY <1>1, <1>2, <1>3, <1>4, <1>5 DEF PageMustStep

\* Every step keeps every variable in its type.
LEMMA TypedNext == Typed /\ [Next]_vars => Typed'
<1> SUFFICES ASSUME Typed, [Next]_vars PROVE Typed'
  OBVIOUS
<1>1. CASE UNCHANGED vars
  BY <1>1
  DEF vars, testVars, connVars, pageVars, Typed, TestType, ConnType, InboxType,
      PageType, Casts
<1> QED
  BY <1>1, TestTyped, ConnTyped, PageTyped DEF Next

\* The initial state.
LEMMA TypedInit == Init => Typed
  BY ObserversAssumption
  DEF Init, Typed, TestType, ConnType, InboxType, PageType, Casts, Stage,
      Event, Phase

\* Types, and that a connection has one page at most.
LEMMA TypedHolds == Spec => []Typed
  BY TypedInit, TypedNext, PTL DEF Spec

\* Every variable keeps its type; a page that is not off holds a connection
\* (server.go, serveObserver and broadcast; app.js, startObserving).
THEOREM ObserversTypeCorrect == Spec => []ObserversTypeOK
<1>1. Typed => ObserversTypeOK
  BY DEF Typed, TestType, ConnType, InboxType, PageType, Message,
         ObserversTypeOK
<1> QED
  BY <1>1, TypedHolds, PTL

-----------------------------------------------------------------------------
(* No stale screen *)

Live == {"running", "progress"}
Ended == {"final", "idle"}

\* Once a page with this screen has read q, it shows a test that runs: it is
\* told of one, or shows one, and is not told afterwards that it is over.
ShowsRunning(q, old) ==
  \/ \E i \in 1 .. Len(q) :
       /\ q[i] \in Live
       /\ \A j \in (i + 1) .. Len(q) : q[j] \notin Ended
  \/ /\ old = "running"
     /\ \A j \in 1 .. Len(q) : q[j] \notin Ended

\* Something is still to happen to c: the goroutine has not said what the lock
\* was, or is on its way out; a test that runs will say "idle" when it is
\* over, or is saying so.
Pending(c) ==
  \/ obs[c] # "listening"
  \/ ~writable[c]
  \/ \E t \in Test : stage[t] \notin {"hello", "over"}
  \/ \E t \in Test : cast[t] = "idle" /\ c \in toWrite[t]

\* A goroutine that serves an observer has it on the list, up to the deferred
\* delete.
Registered ==
  \A c \in Conn :
    obs[c] \in {"registered", "acked", "listening"} => c \in observers

\* Only a test that is served says that it runs.
SpeaksWhileServed ==
  \A t \in Test : cast[t] \in Live => stage[t] = "serving"

\* Something is to come for a page that is going to show a test.
LastWordToCome ==
  \A p \in Page :
    /\ mine[p] # NoConn
    /\ first[mine[p]] = "idle"
    /\ ShowsRunning(inbox[mine[p]], screen[p])
    => Pending(mine[p])

ScreenInv == Registered /\ SpeaksWhileServed /\ LastWordToCome

\* What is appended last decides, if it is an event.
LEMMA ShowsAfterAppend ==
  ASSUME NEW q \in Seq(Message), NEW m \in Message, NEW old,
         ShowsRunning(Append(q, m), old)
  PROVE  m \notin Ended /\ (m \in Live \/ ShowsRunning(q, old))
<1> DEFINE r == Append(q, m)
<1>1. /\ Len(q) \in Nat
      /\ Len(r) = Len(q) + 1
      /\ r[Len(q) + 1] = m
      /\ \A i \in 1 .. Len(q) : r[i] = q[i]
  OBVIOUS
<1> HIDE DEF r
<1>2. CASE old = "running" /\ \A j \in 1 .. Len(r) : r[j] \notin Ended
  <2>1. m \notin Ended
    BY <1>1, <1>2
  <2>2. \A j \in 1 .. Len(q) : q[j] \notin Ended
    BY <1>1, <1>2
  <2> QED
    BY <1>2, <2>1, <2>2 DEF ShowsRunning
<1>3. CASE \E i \in 1 .. Len(r) :
             /\ r[i] \in Live
             /\ \A j \in (i + 1) .. Len(r) : r[j] \notin Ended
  <2>1. PICK i \in 1 .. Len(r) :
          /\ r[i] \in Live
          /\ \A j \in (i + 1) .. Len(r) : r[j] \notin Ended
    BY <1>3
  <2>2. CASE i = Len(q) + 1
    BY <1>1, <2>1, <2>2 DEF Live, Ended
  <2>3. CASE i # Len(q) + 1
    <3>1. i \in 1 .. Len(q) /\ q[i] \in Live
      BY <1>1, <2>1, <2>3
    <3>2. Len(r) \in (i + 1) .. Len(r)
      BY <1>1, <3>1
    <3>3. m \notin Ended
      BY <1>1, <2>1, <3>2
    <3>4. \A j \in (i + 1) .. Len(q) : q[j] \notin Ended
      BY <1>1, <2>1, <3>1
    <3> QED
      BY <3>1, <3>3, <3>4 DEF ShowsRunning
  <2> QED
    BY <2>2, <2>3
<1> QED
  BY <1>2, <1>3 DEF ShowsRunning, r

\* Reading a message does not change what the page ends up showing:
\* handleObserve applies an event, openConn consumes HELLO_ACK.
LEMMA ShowsAfterRead ==
  ASSUME NEW q \in Seq(Message), q # <<>>, NEW old, NEW new,
         \/ Head(q) \in Event /\ new = Screen(old, Head(q))
         \/ Head(q) = "ACK" /\ new = old,
         ShowsRunning(Tail(q), new)
  PROVE  ShowsRunning(q, old)
<1> DEFINE r == Tail(q)
<1>1. /\ Len(q) \in Nat \ {0}
      /\ Len(r) = Len(q) - 1
      /\ \A i \in 1 .. Len(q) - 1 : r[i] = q[i + 1]
      /\ Head(q) = q[1]
  OBVIOUS
<1> HIDE DEF r
<1>2. CASE \E i \in 1 .. Len(r) :
             /\ r[i] \in Live
             /\ \A j \in (i + 1) .. Len(r) : r[j] \notin Ended
  <2>1. PICK i \in 1 .. Len(r) :
          /\ r[i] \in Live
          /\ \A j \in (i + 1) .. Len(r) : r[j] \notin Ended
    BY <1>2
  <2>2. i + 1 \in 1 .. Len(q) /\ q[i + 1] \in Live
    BY <1>1, <2>1
  <2>3. ASSUME NEW j \in (i + 1) + 1 .. Len(q) PROVE q[j] \notin Ended
    <3>1. j - 1 \in (i + 1) .. Len(r) /\ r[j - 1] = q[j]
      BY <1>1, <2>1
    <3> QED
      BY <2>1, <3>1
  <2> QED
    BY <2>2, <2>3 DEF ShowsRunning
<1>3. CASE new = "running" /\ \A j \in 1 .. Len(r) : r[j] \notin Ended
  <2>1. ASSUME NEW j \in 2 .. Len(q) PROVE q[j] \notin Ended
    <3>1. j - 1 \in 1 .. Len(r) /\ r[j - 1] = q[j]
      BY <1>1
    <3> QED
      BY <1>3, <3>1
  <2>2. q[1] \in Live \/ (old = "running" /\ q[1] \notin Ended)
    BY <1>1, <1>3 DEF Screen, Live, Ended, Event
  <2>3. CASE q[1] \in Live
    <3>1. 1 \in 1 .. Len(q) /\ \A j \in 1 + 1 .. Len(q) : q[j] \notin Ended
      BY <1>1, <2>1
    <3> QED
      BY <2>3, <3>1 DEF ShowsRunning
  <2>4. CASE old = "running" /\ q[1] \notin Ended
    <3>1. \A j \in 1 .. Len(q) : q[j] \notin Ended
      BY <1>1, <2>1, <2>4
    <3> QED
      BY <2>4, <3>1 DEF ShowsRunning
  <2> QED
    BY <2>2, <2>3, <2>4
<1> QED
  BY <1>2, <1>3 DEF ShowsRunning, r

\* A write changes what one page is going to show, if it arrives.
LEMMA ShowsAfterWrite ==
  ASSUME Typed, NEW c \in Conn, NEW m \in Message, Write(c, m),
         NEW p \in Page, mine[p] # NoConn,
         ShowsRunning(inbox'[mine[p]], screen[p])
  PROVE  /\ \/ ShowsRunning(inbox[mine[p]], screen[p])
            \/ mine[p] = c /\ m \in Live
         /\ mine[p] = c => ~writable[c] \/ m \notin Ended
<1>1. mine[p] \in Conn /\ inbox[mine[p]] \in Seq(Message)
  BY DEF Typed, PageType, InboxType
<1>2. CASE mine[p] = c /\ writable[c]
  <2>1. Held(c)
    BY <1>2 DEF Held, Range, Typed, PageType
  <2>2. inbox'[c] = Append(inbox[c], m)
    BY <1>2, <2>1 DEF Write, Typed, InboxType
  <2> QED
    BY <1>1, <1>2, <2>2, ShowsAfterAppend
<1>3. CASE ~(mine[p] = c /\ writable[c])
  <2>1. inbox'[mine[p]] = inbox[mine[p]]
    BY <1>1, <1>3 DEF Write, Typed, InboxType
  <2> QED
    BY <1>3, <2>1
<1> QED
  BY <1>2, <1>3

\* The goroutine of a test: while it goes on it is itself what is to come, and
\* at its end it says so to everybody on the list.
LEMMA TestKeepsScreen ==
  ASSUME Typed, ScreenInv, NEW t \in Test, Claim(t) \/ TestMustStep(t)
  PROVE  ScreenInv'
<1> USE DEF Typed, TestType
<1>1. Registered'
  <2>1. UNCHANGED <<obs, observers>>
    BY DEF TestMustStep, Claim, SayRunning, WriteEvent, EndBroadcast, Relay,
           Report, ControlReturns, ReleaseLock, SayIdle, connVars
  <2> QED
    BY <2>1 DEF ScreenInv, Registered
<1>2. SpeaksWhileServed'
  <2> USE DEF ScreenInv, SpeaksWhileServed
  <2>1. CASE Claim(t)
    BY <2>1 DEF Claim, Live
  <2>2. CASE SayRunning(t)
    BY <2>2 DEF SayRunning, Broadcast
  <2>3. CASE \E c \in Conn : WriteEvent(t, c)
    BY <2>3 DEF WriteEvent
  <2>4. CASE EndBroadcast(t)
    BY <2>4 DEF EndBroadcast, Live
  <2>5. CASE Relay(t)
    BY <2>5 DEF Relay, Broadcast
  <2>6. CASE Report(t)
    BY <2>6 DEF Report, Broadcast, Live
  <2>7. CASE ControlReturns(t)
    BY <2>7 DEF ControlReturns, Live
  <2>8. CASE ReleaseLock(t)
    BY <2>8 DEF ReleaseLock
  <2>9. CASE SayIdle(t)
    BY <2>9 DEF SayIdle, Broadcast, Live
  <2> QED
    BY <2>1, <2>2, <2>3, <2>4, <2>5, <2>6, <2>7, <2>8, <2>9 DEF TestMustStep
<1>3. LastWordToCome'
  <2> SUFFICES ASSUME NEW p \in Page,
                      mine'[p] # NoConn,
                      first'[mine'[p]] = "idle",
                      ShowsRunning(inbox'[mine'[p]], screen'[p])
               PROVE  Pending(mine[p])'
    <3>1. UNCHANGED mine
      BY DEF TestMustStep, Claim, SayRunning, WriteEvent, EndBroadcast, Relay,
             Report, ControlReturns, ReleaseLock, SayIdle, pageVars
    <3> QED
      BY <3>1 DEF LastWordToCome, ShowsRunning
  <2>1. UNCHANGED <<obs, first, writable, mine, screen>>
    BY DEF TestMustStep, Claim, SayRunning, WriteEvent, EndBroadcast, Relay,
           Report, ControlReturns, ReleaseLock, SayIdle, connVars, pageVars
  <2>2. mine[p] \in Conn
    BY <2>1 DEF PageType
  <2>3. CASE stage'[t] \notin {"hello", "over"}
    BY <2>3 DEF Pending
  <2>4. CASE EndBroadcast(t)
    <3>1. Pending(mine[p])
      BY <2>1, <2>4 DEF EndBroadcast, pageVars, ScreenInv, LastWordToCome
    <3> QED
      BY <2>1, <2>4, <3>1 DEF EndBroadcast, Pending
  <2>5. CASE SayIdle(t)
    <3>1. obs[mine[p]] = "listening" => mine[p] \in observers
      BY <2>2 DEF ScreenInv, Registered
    <3> QED
      BY <2>1, <2>5, <3>1 DEF SayIdle, Broadcast, Pending
  <2>6. ASSUME NEW c \in Conn, WriteEvent(t, c) PROVE Pending(mine[p])'
    <3>1. cast[t] \in Message /\ Write(c, cast[t]) /\ c \in toWrite[t]
      <4>1. c \in toWrite[t] /\ Write(c, cast[t])
        BY <2>6 DEF WriteEvent
      <4> QED
        BY <4>1 DEF Casts, Message
    <3>2. /\ \/ ShowsRunning(inbox[mine[p]], screen[p])
             \/ mine[p] = c /\ cast[t] \in Live
          /\ mine[p] = c => ~writable[c] \/ cast[t] \notin Ended
      <4>1. ShowsRunning(inbox'[mine[p]], screen[p]) /\ mine[p] # NoConn
        BY <2>1
      <4> QED
        BY <3>1, <4>1, ShowsAfterWrite
    <3>3. CASE cast[t] \in Live
      <4>1. stage[t] = "serving"
        BY <3>3 DEF ScreenInv, SpeaksWhileServed
      <4> QED
        BY <2>6, <4>1 DEF WriteEvent, Pending
    <3>4. CASE cast[t] \notin Live
      <4>1. Pending(mine[p])
        BY <2>1, <3>2, <3>4 DEF ScreenInv, LastWordToCome
      <4>2. mine[p] = c /\ writable[c] => cast[t] # "idle"
        BY <3>2 DEF Ended
      <4>3. /\ toWrite' = [toWrite EXCEPT ![t] = toWrite[t] \ {c}]
            /\ UNCHANGED <<stage, cast>>
        BY <2>6 DEF WriteEvent
      <4> QED
        BY <2>1, <4>1, <4>2, <4>3 DEF Pending
    <3> QED
      BY <3>3, <3>4
  <2>7. CASE \/ Claim(t) \/ SayRunning(t) \/ Relay(t) \/ Report(t)
             \/ ControlReturns(t) \/ ReleaseLock(t)
    <3>1. stage'[t] \notin {"hello", "over"}
      BY <2>7 DEF Claim, SayRunning, Relay, Report, ControlReturns, ReleaseLock
    <3> QED
      BY <2>3, <3>1
  <2> QED
    BY <2>4, <2>5, <2>6, <2>7 DEF TestMustStep
<1> QED
  BY <1>1, <1>2, <1>3 DEF ScreenInv

\* The goroutine of an observer connection: its first state is "idle" if it
\* registered while no test ran, and once it leaves the page will read that.
LEMMA ConnKeepsScreen ==
  ASSUME Typed, ScreenInv, NEW c \in Conn, ObserverMustStep(c)
  PROVE  ScreenInv'
<1> USE DEF Typed, ConnType
<1>1. Registered'
  <2> USE DEF ScreenInv, Registered
  <2>1. CASE Register(c)
    BY <2>1 DEF Register
  <2>2. CASE NoHello(c)
    BY <2>2 DEF NoHello
  <2>3. CASE SendAck(c)
    BY <2>3 DEF SendAck
  <2>4. CASE SendFirst(c)
    BY <2>4 DEF SendFirst
  <2>5. CASE WriteFails(c)
    BY <2>5 DEF WriteFails
  <2>6. CASE ObserverReturns(c)
    BY <2>6 DEF ObserverReturns
  <2>7. CASE Deregister(c)
    BY <2>7 DEF Deregister
  <2>8. CASE CloseConn(c)
    BY <2>8 DEF CloseConn
  <2> QED
    BY <2>1, <2>2, <2>3, <2>4, <2>5, <2>6, <2>7, <2>8 DEF ObserverMustStep
<1>2. UNCHANGED <<stage, cast, toWrite, mine, screen>>
  BY DEF ObserverMustStep, Register, NoHello, SendAck, SendFirst, WriteFails,
         ObserverReturns, Deregister, CloseConn, testVars, pageVars
<1>3. SpeaksWhileServed'
  BY <1>2 DEF ScreenInv, SpeaksWhileServed
<1>4. LastWordToCome'
  <2> SUFFICES ASSUME NEW p \in Page,
                      mine[p] # NoConn,
                      first'[mine[p]] = "idle",
                      ShowsRunning(inbox'[mine[p]], screen[p])
               PROVE  Pending(mine[p])'
    BY <1>2 DEF LastWordToCome, ShowsRunning
  <2> DEFINE d == mine[p]
  <2>1. d \in Conn
    BY DEF PageType
  <2>2. CASE d # c
    <3>1. /\ inbox'[d] = inbox[d] /\ first'[d] = first[d]
          /\ obs'[d] = obs[d] /\ writable'[d] = writable[d]
      BY <2>1, <2>2
      DEF ObserverMustStep, Register, NoHello, SendAck, SendFirst, WriteFails,
          ObserverReturns, Deregister, CloseConn, Write, pageVars, InboxType
    <3> QED
      BY <1>2, <3>1 DEF ScreenInv, LastWordToCome, Pending
  <2>3. CASE d = c
    <3>1. CASE obs'[c] # "listening"
      BY <1>2, <2>3, <3>1 DEF Pending
    <3>2. CASE SendFirst(c)
      <4>1. first[c] = "idle" /\ Write(c, first[c]) /\ first[c] \in Message
        BY <2>3, <3>2 DEF SendFirst, Message, Event
      <4>2. ~writable[c] \/ first[c] \notin Ended
        BY <2>3, <4>1, ShowsAfterWrite
      <4> QED
        BY <1>2, <2>3, <3>2, <4>1, <4>2 DEF SendFirst, Ended, Pending
    <3>3. CASE WriteFails(c)
      BY <1>2, <2>3, <3>3 DEF WriteFails, Pending
    <3> QED
      BY <3>1, <3>2, <3>3
      DEF ObserverMustStep, Register, NoHello, SendAck, ObserverReturns,
          Deregister, CloseConn
  <2> QED
    BY <2>2, <2>3
<1> QED
  BY <1>1, <1>3, <1>4 DEF ScreenInv

\* The page: what it reads was on its way, what it drops is nobody's any more.
LEMMA PageKeepsScreen ==
  ASSUME Typed, ScreenInv, NEW p \in Page,
         Sleep(p) \/ Wake(p) \/ Drop(p) \/ PageMustStep(p)
  PROVE  ScreenInv'
<1> USE DEF Typed, ConnType, PageType
<1>1. UNCHANGED <<stage, cast, toWrite, observers, first>>
  BY DEF Sleep, Wake, Drop, PageMustStep, Open, Accept, Reject, Receive,
         ReceiveClose, Lose, testVars, connVars
<1>2. SpeaksWhileServed'
  BY <1>1 DEF ScreenInv, SpeaksWhileServed
<1>3. CASE Open(p)
  <2>1. PICK c \in Conn :
          /\ ~Held(c)
          /\ mine' = [mine EXCEPT ![p] = c]
          /\ obs' = [obs EXCEPT ![c] = "hello"]
          /\ writable' = [writable EXCEPT ![c] = TRUE]
    BY <1>3 DEF Open, Unused
  <2>2. \A q \in Page : mine[q] # c
    BY <2>1 DEF Held, Range
  <2>3. Registered'
    BY <1>1, <2>1 DEF ScreenInv, Registered
  <2>4. ASSUME NEW q \in Page,
               mine'[q] # NoConn,
               first'[mine'[q]] = "idle",
               ShowsRunning(inbox'[mine'[q]], screen'[q])
        PROVE  Pending(mine[q])'
    <3>1. CASE q = p
      BY <2>1, <3>1 DEF Pending
    <3>2. CASE q # p
      <4>1. mine'[q] = mine[q] /\ mine[q] \in Conn /\ mine[q] # c
        BY <2>1, <2>2, <2>4, <3>2
      <4>2. UNCHANGED <<inbox, screen>>
        BY <1>3 DEF Open
      <4>3. Pending(mine[q])
        BY <1>1, <2>4, <4>1, <4>2 DEF ScreenInv, LastWordToCome
      <4> QED
        BY <1>1, <2>1, <4>1, <4>3 DEF Pending
    <3> QED
      BY <3>1, <3>2
  <2>5. LastWordToCome'
    BY <2>4 DEF LastWordToCome, ShowsRunning, Pending
  <2> QED
    BY <1>2, <2>3, <2>5 DEF ScreenInv
<1>4. CASE ~Open(p)
  <2>1. UNCHANGED <<obs, writable>>
    BY <1>4 DEF Sleep, Wake, Drop, PageMustStep, Accept, Reject, Receive,
                ReceiveClose, Lose, connVars
  <2>2. Registered'
    BY <1>1, <2>1 DEF ScreenInv, Registered
  <2>3. ASSUME NEW q \in Page,
               mine'[q] # NoConn,
               ShowsRunning(inbox'[mine'[q]], screen'[q])
        PROVE  mine'[q] = mine[q] /\ ShowsRunning(inbox[mine[q]], screen[q])
    <3>1. CASE Sleep(p) \/ Wake(p)
      BY <2>3, <3>1 DEF Sleep, Wake
    <3>2. CASE Drop(p) \/ Reject(p) \/ ReceiveClose(p)
      <4>1. Lose(p) /\ mine[p] # NoConn
        BY <3>2 DEF Drop, Reject, ReceiveClose
      <4>2. q # p /\ mine'[q] = mine[q] /\ screen' = screen
        BY <2>3, <4>1 DEF Lose
      <4>3. mine[q] # mine[p]
        BY <2>3, <4>1, <4>2 DEF Casts
      <4>4. inbox'[mine[q]] = inbox[mine[q]]
        BY <4>1, <4>3 DEF Lose, InboxType
      <4> QED
        BY <2>3, <4>2, <4>4
    <3>3. CASE Accept(p) \/ Receive(p)
      <4>1. /\ mine[p] \in Conn /\ inbox[mine[p]] # <<>>
            /\ mine' = mine
            /\ inbox' = [inbox EXCEPT ![mine[p]] = Tail(inbox[mine[p]])]
        BY <3>3 DEF Accept, Receive, HasMail
      <4>2. CASE q = p
        <5>1. \/ /\ Head(inbox[mine[p]]) \in Event
                 /\ screen'[p] = Screen(screen[p], Head(inbox[mine[p]]))
              \/ Head(inbox[mine[p]]) = "ACK" /\ screen'[p] = screen[p]
          BY <3>3 DEF Accept, Receive, Unread
        <5>2. ShowsRunning(Tail(inbox[mine[p]]), screen'[p])
          BY <2>3, <4>1, <4>2 DEF InboxType
        <5>3. inbox[mine[p]] \in Seq(Message)
          BY <4>1 DEF InboxType
        <5>4. ShowsRunning(inbox[mine[p]], screen[p])
          BY <4>1, <5>1, <5>2, <5>3, ShowsAfterRead
        <5> QED
          BY <4>1, <4>2, <5>4
      <4>3. CASE q # p
        <5>1. mine[q] # mine[p] /\ mine[q] # NoConn
          BY <2>3, <4>1, <4>3 DEF Casts
        <5>2. inbox'[mine[q]] = inbox[mine[q]] /\ screen'[q] = screen[q]
          BY <3>3, <4>1, <4>3, <5>1 DEF Accept, Receive, InboxType
        <5> QED
          BY <2>3, <4>1, <5>2
      <4> QED
        BY <4>2, <4>3
    <3> QED
      BY <1>4, <3>1, <3>2, <3>3 DEF PageMustStep
  <2>4. ASSUME NEW q \in Page,
               mine'[q] # NoConn,
               first'[mine'[q]] = "idle",
               ShowsRunning(inbox'[mine'[q]], screen'[q])
        PROVE  Pending(mine[q])'
    <3>1. mine'[q] = mine[q] /\ ShowsRunning(inbox[mine[q]], screen[q])
      BY <2>3, <2>4
    <3>2. Pending(mine[q])
      BY <1>1, <2>4, <3>1 DEF ScreenInv, LastWordToCome
    <3> QED
      BY <1>1, <2>1, <3>1, <3>2 DEF Pending
  <2>5. LastWordToCome'
    BY <2>4 DEF LastWordToCome, ShowsRunning, Pending
  <2> QED
    BY <1>2, <2>2, <2>5 DEF ScreenInv
<1> QED
  BY <1>3, <1>4

\* What is to come for a page that ends up showing a test, over all steps.
LEMMA ScreenInvHolds == Spec => []ScreenInv
<1>1. Init => ScreenInv
  BY DEF Init, ScreenInv, Registered, SpeaksWhileServed, LastWordToCome, Live
<1>2. Typed /\ ScreenInv /\ [Next]_vars => ScreenInv'
  <2> SUFFICES ASSUME Typed, ScreenInv, [Next]_vars PROVE ScreenInv'
    OBVIOUS
  <2>1. CASE UNCHANGED vars
    BY <2>1
    DEF vars, testVars, connVars, pageVars, ScreenInv, Registered,
        SpeaksWhileServed, LastWordToCome, ShowsRunning, Pending
  <2> QED
    BY <2>1, TestKeepsScreen, ConnKeepsScreen, PageKeepsScreen DEF Next
<1> QED
  BY <1>1, <1>2, TypedHolds, PTL DEF Spec

\* A page whose observer registered while no test ran never goes on showing a
\* test that is over, however the broadcasts of the tests and the first state
\* overtake each other (server.go, broadcast, release and serveObserver;
\* app.js, handleObserve).
THEOREM NoStaleScreenHolds == Spec => []NoStaleScreen
<1>1. Typed /\ ScreenInv => NoStaleScreen
  <2> SUFFICES ASSUME Typed, ScreenInv, NEW p \in Page,
                      Settled(p), first[mine[p]] = "idle",
                      screen[p] = "running"
               PROVE  FALSE
    BY DEF NoStaleScreen
  <2>1. mine[p] # NoConn
    BY DEF Settled, Typed, PageType
  <2>2. ShowsRunning(inbox[mine[p]], screen[p])
    BY DEF Settled, ShowsRunning
  <2>3. Pending(mine[p])
    BY <2>1, <2>2 DEF ScreenInv, LastWordToCome
  <2> QED
    BY <2>3 DEF Settled, Pending
<1> QED
  BY <1>1, TypedHolds, ScreenInvHolds, PTL
=============================================================================
