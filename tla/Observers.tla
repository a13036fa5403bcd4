----------------------------- MODULE Observers -----------------------------
(***************************************************************************)
(* Pages that watch somebody else's test (src/server.go, serveObserver and *)
(* broadcast; src/web/app.js, startObserving and handleObserve).  A        *)
(* broadcast copies the set of observers under Server.mu and writes to one *)
(* after the other outside it, on the goroutine of the test; an observer's *)
(* own goroutine reads the lock when it registers and writes what it read  *)
(* later.  wsConn.mu keeps the writes on a connection apart, in an order   *)
(* nobody chooses.                                                         *)
(*                                                                         *)
(* A test is here what its control connection's goroutine does with the    *)
(* lock and the observers; Sessions has the rest.  A page runs no test of  *)
(* its own here; the lists of peers are left out but for the writes that   *)
(* fail.                                                                   *)
(***************************************************************************)
EXTENDS Naturals, Sequences, Functions

CONSTANTS Test,       \* tests, by the control connection that claims the lock
          Page,       \* pages that observe
          Conn,       \* observer connections, used again once they are closed
          Window,     \* messages a connection holds before a write blocks
          NoTest,     \* Server.active = nil
          NoConn      \* the page has no observer connection

ASSUME ObserversAssumption ==
  NoTest \notin Test /\ NoConn \notin Conn /\ Window \in Nat \ {0}

VARIABLES
  active,     \* Server.active
  stage,      \* where the goroutine of each test is
  cast,       \* the event it is broadcasting
  toWrite,    \* ... and the observers that are still to get it
  observers,  \* Server.observers
  obs,        \* where the goroutine of each observer connection is
  first,      \* what the lock said when it registered (serveObserver's active)
  writable,   \* the connection is open and no write on it has failed
  inbox,      \* what was written to it and the page has not read
  mine,       \* the connection the page holds or is opening
  watch,      \* the page has none, is opening one, watches, or is suspended
  screen      \* data-state of the page

testVars == <<active, stage, cast, toWrite>>
connVars == <<observers, obs, first, writable>>
pageVars == <<inbox, mine, watch, screen>>
vars     == <<testVars, connVars, pageVars>>

Event == {"running", "progress", "final", "idle"}
Stage == {"hello", "claimed", "serving", "reported", "releasing", "released",
          "over"}
Phase == {"none", "hello", "registered", "acked", "listening", "leaving",
          "closing"}

\* The page's end of c is there.
Held(c) == c \in Range(mine)

\* ... and nothing runs there: a phone that is locked.
Asleep(c) == \E p \in Page : mine[p] = c /\ watch[p] = "asleep"

Init ==
  /\ active = NoTest
  /\ stage = [t \in Test |-> "hello"]
  /\ cast = [t \in Test |-> "none"]
  /\ toWrite = [t \in Test |-> {}]
  /\ observers = {}
  /\ obs = [c \in Conn |-> "none"]
  /\ first = [c \in Conn |-> "idle"]
  /\ writable = [c \in Conn |-> FALSE]
  /\ inbox = [c \in Conn |-> <<>>]
  /\ mine = [p \in Page |-> NoConn]
  /\ watch = [p \in Page |-> "off"]
  /\ screen = [p \in Page |-> "waiting"]

\* A message written to c.  The write blocks while the page leaves too much
\* unread; it fails, or goes nowhere, after a failed one or without the page.
Full(c) == writable[c] /\ Held(c) /\ Len(inbox[c]) >= Window
Write(c, msg) ==
  /\ ~Full(c)
  /\ inbox' = IF writable[c] /\ Held(c)
              THEN [inbox EXCEPT ![c] = Append(@, msg)] ELSE inbox

\* broadcast up to its writes.
Broadcast(t, event) ==
  /\ cast[t] = "none"
  /\ cast' = [cast EXCEPT ![t] = event]
  /\ toWrite' = [toWrite EXCEPT ![t] = observers]

-----------------------------------------------------------------------------
(* Faulty variants of the actions below *)

\* A broadcast without a write timeout: a stalled observer blocks it.
WriteFailsNever(c) == FALSE

\* A release that forgets to broadcast.
SayIdleForgotten(t) ==
  /\ stage[t] = "released"
  /\ stage' = [stage EXCEPT ![t] = "over"]
  /\ UNCHANGED <<active, cast, toWrite, connVars, pageVars>>

\* A page that takes progress for a test it has seen the start of.
ScreenWithoutProgress(old, event) ==
  CASE event = "running" -> "running"
    [] event = "progress" -> old
    [] event = "final" -> "done"
    [] event = "idle" -> IF old = "running" THEN "waiting" ELSE old

\* A goroutine that returns without the deferred delete.
DeregisterForgotten(c) ==
  /\ obs[c] = "leaving"
  /\ obs' = [obs EXCEPT ![c] = "closing"]
  /\ UNCHANGED <<testVars, observers, first, writable, pageVars>>

\* A close handler that forgets observer = null: no new one is ever opened.
LoseKeepsObserver(p) ==
  /\ inbox' = [inbox EXCEPT ![mine[p]] = <<>>]
  /\ watch' = [watch EXCEPT ![p] = "off"]
  /\ UNCHANGED <<testVars, connVars, mine, screen>>

-----------------------------------------------------------------------------
(* The goroutine of a test *)

\* claim; a caller that finds the lock held changes nothing here.
Claim(t) ==
  /\ stage[t] = "hello"
  /\ active = NoTest
  /\ active' = t
  /\ stage' = [stage EXCEPT ![t] = "claimed"]
  /\ UNCHANGED <<cast, toWrite, connVars, pageVars>>

\* The broadcast that follows HELLO_ACK.
SayRunning(t) ==
  /\ stage[t] = "claimed"
  /\ Broadcast(t, "running")
  /\ stage' = [stage EXCEPT ![t] = "serving"]
  /\ UNCHANGED <<active, connVars, pageVars>>

\* One write of a broadcast.
WriteEvent(t, c) ==
  /\ c \in toWrite[t]
  /\ Write(c, cast[t])
  /\ toWrite' = [toWrite EXCEPT ![t] = @ \ {c}]
  /\ UNCHANGED <<active, stage, cast, connVars, mine, watch, screen>>

\* broadcast returns.
EndBroadcast(t) ==
  /\ cast[t] # "none"
  /\ toWrite[t] = {}
  /\ cast' = [cast EXCEPT ![t] = "none"]
  /\ UNCHANGED <<active, stage, toWrite, connVars, pageVars>>

\* MsgProgress is relayed.
Relay(t) ==
  /\ stage[t] = "serving"
  /\ Broadcast(t, "progress")
  /\ UNCHANGED <<active, stage, connVars, pageVars>>

\* MsgFinal: the run is stored and shown to the observers.
Report(t) ==
  /\ stage[t] = "serving"
  /\ Broadcast(t, "final")
  /\ stage' = [stage EXCEPT ![t] = "reported"]
  /\ UNCHANGED <<active, connVars, pageVars>>

\* serveControl's loop ends, whether or not there was a FINAL.
ControlReturns(t) ==
  /\ stage[t] \in {"serving", "reported"}
  /\ cast[t] = "none"
  /\ stage' = [stage EXCEPT ![t] = "releasing"]
  /\ UNCHANGED <<active, cast, toWrite, connVars, pageVars>>

\* release: the lock first, the broadcast after the streams are closed.
ReleaseLock(t) ==
  /\ stage[t] = "releasing"
  /\ active' = IF active = t THEN NoTest ELSE active
  /\ stage' = [stage EXCEPT ![t] = "released"]
  /\ UNCHANGED <<cast, toWrite, connVars, pageVars>>

SayIdle(t) ==
  /\ stage[t] = "released"
  /\ Broadcast(t, "idle")
  /\ stage' = [stage EXCEPT ![t] = "over"]
  /\ UNCHANGED <<active, connVars, pageVars>>

-----------------------------------------------------------------------------
(* The goroutine of an observer connection *)

\* Registered and the lock read in one critical section.
Register(c) ==
  /\ obs[c] = "hello"
  /\ observers' = observers \cup {c}
  /\ first' = [first EXCEPT ![c] =
                 IF active = NoTest THEN "idle" ELSE "running"]
  /\ obs' = [obs EXCEPT ![c] = "registered"]
  /\ UNCHANGED <<testVars, writable, pageVars>>

\* handleWS: the page left before its HELLO came.
NoHello(c) ==
  /\ obs[c] = "hello"
  /\ ~Held(c)
  /\ obs' = [obs EXCEPT ![c] = "closing"]
  /\ UNCHANGED <<testVars, observers, first, writable, pageVars>>

SendAck(c) ==
  /\ obs[c] = "registered"
  /\ Write(c, "ACK")
  /\ obs' = [obs EXCEPT ![c] = "acked"]
  /\ UNCHANGED <<testVars, observers, first, writable, mine, watch, screen>>

\* The state as it was when the observer registered.
SendFirst(c) ==
  /\ obs[c] = "acked"
  /\ Write(c, first[c])
  /\ obs' = [obs EXCEPT ![c] = "listening"]
  /\ UNCHANGED <<testVars, observers, first, writable, mine, watch, screen>>

\* A write that blocks fails at its deadline, and with it all that follow.
WriteFails(c) ==
  /\ Full(c)
  /\ \/ \E t \in Test : c \in toWrite[t]
     \/ obs[c] \in {"registered", "acked"}
  /\ writable' = [writable EXCEPT ![c] = FALSE]
  /\ UNCHANGED <<testVars, observers, obs, first, pageVars>>

\* The loop ends: the page is gone, a PONG could not be written, or no PING has
\* come for connIdleTimeout.
ObserverReturns(c) ==
  /\ obs[c] = "listening"
  /\ ~Held(c) \/ ~writable[c] \/ Asleep(c)
  /\ obs' = [obs EXCEPT ![c] = "leaving"]
  /\ UNCHANGED <<testVars, observers, first, writable, pageVars>>

\* The deferred delete.
Deregister(c) ==
  /\ obs[c] = "leaving"
  /\ observers' = observers \ {c}
  /\ obs' = [obs EXCEPT ![c] = "closing"]
  /\ UNCHANGED <<testVars, first, writable, pageVars>>

\* handleWS closes the connection: the page reads that after what was written.
CloseConn(c) ==
  /\ obs[c] = "closing"
  /\ inbox' = IF Held(c) THEN [inbox EXCEPT ![c] = Append(@, "CLOSE")]
              ELSE inbox
  /\ obs' = [obs EXCEPT ![c] = "none"]
  /\ writable' = [writable EXCEPT ![c] = FALSE]
  /\ first' = [first EXCEPT ![c] = "idle"]
  /\ UNCHANGED <<testVars, observers, mine, watch, screen>>

-----------------------------------------------------------------------------
(* The page *)

\* Nothing is left of the connection that used c before.
Unused(c) == obs[c] = "none" /\ ~Held(c) /\ \A t \in Test : c \notin toWrite[t]

\* startObserving, at first and each time the reconnection timer has run out.
\* The server may not have noticed the end of the last connection yet.
Open(p) ==
  /\ watch[p] = "off"
  /\ watch' = [watch EXCEPT ![p] = "opening"]
  /\ \E c \in Conn :
       /\ Unused(c)
       /\ mine' = [mine EXCEPT ![p] = c]
       /\ obs' = [obs EXCEPT ![c] = "hello"]
       /\ writable' = [writable EXCEPT ![c] = TRUE]
  /\ UNCHANGED <<testVars, observers, first, inbox, screen>>

\* handleObserve.
Screen(old, event) ==
  CASE event \in {"running", "progress"} -> "running"
    [] event = "final" -> "done"
    [] event = "idle" -> IF old = "running" THEN "waiting" ELSE old

\* The page has no observer any more, and a timer to open one; the screen stays.
Lose(p) ==
  /\ inbox' = [inbox EXCEPT ![mine[p]] = <<>>]
  /\ mine' = [mine EXCEPT ![p] = NoConn]
  /\ watch' = [watch EXCEPT ![p] = "off"]
  /\ UNCHANGED <<testVars, connVars, screen>>

\* The next message the page reads.
Unread(p) == Head(inbox[mine[p]])
HasMail(p) == mine[p] # NoConn /\ inbox[mine[p]] # <<>>

\* openConn takes HELLO_ACK only as the first message.
Accept(p) ==
  /\ watch[p] = "opening"
  /\ HasMail(p) /\ Unread(p) = "ACK"
  /\ watch' = [watch EXCEPT ![p] = "watching"]
  /\ inbox' = [inbox EXCEPT ![mine[p]] = Tail(@)]
  /\ UNCHANGED <<testVars, connVars, mine, screen>>

\* Anything else first makes it close the connection.
Reject(p) ==
  /\ watch[p] = "opening"
  /\ HasMail(p) /\ Unread(p) # "ACK"
  /\ Lose(p)

Receive(p) ==
  /\ watch[p] = "watching"
  /\ HasMail(p) /\ Unread(p) \in Event
  /\ screen' = [screen EXCEPT ![p] = Screen(@, Unread(p))]
  /\ inbox' = [inbox EXCEPT ![mine[p]] = Tail(@)]
  /\ UNCHANGED <<testVars, connVars, mine, watch>>

\* The connection was closed by the server.
ReceiveClose(p) ==
  /\ watch[p] = "watching"
  /\ HasMail(p) /\ Unread(p) = "CLOSE"
  /\ Lose(p)

\* The page is suspended, and woken again, with the connection still there.
Sleep(p) ==
  /\ watch[p] = "watching"
  /\ watch' = [watch EXCEPT ![p] = "asleep"]
  /\ UNCHANGED <<testVars, connVars, inbox, mine, screen>>

Wake(p) ==
  /\ watch[p] = "asleep"
  /\ watch' = [watch EXCEPT ![p] = "watching"]
  /\ UNCHANGED <<testVars, connVars, inbox, mine, screen>>

\* The connection drops, or HELLO_ACK does not come within ten seconds.
Drop(p) ==
  /\ watch[p] # "off"
  /\ Lose(p)

-----------------------------------------------------------------------------

TestMustStep(t) ==
  \/ SayRunning(t)
  \/ \E c \in Conn : WriteEvent(t, c)
  \/ EndBroadcast(t)
  \/ Relay(t)
  \/ Report(t)
  \/ ControlReturns(t)
  \/ ReleaseLock(t)
  \/ SayIdle(t)

ObserverMustStep(c) ==
  \/ Register(c)
  \/ NoHello(c)
  \/ SendAck(c)
  \/ SendFirst(c)
  \/ WriteFails(c)
  \/ ObserverReturns(c)
  \/ Deregister(c)
  \/ CloseConn(c)

PageMustStep(p) ==
  \/ Open(p)
  \/ Accept(p)
  \/ Reject(p)
  \/ Receive(p)
  \/ ReceiveClose(p)

Next ==
  \/ \E t \in Test : Claim(t) \/ TestMustStep(t)
  \/ \E c \in Conn : ObserverMustStep(c)
  \/ \E p \in Page : Sleep(p) \/ Wake(p) \/ Drop(p) \/ PageMustStep(p)

\* Goroutines and the page's event loop run, deadlines expire.  Nobody has to
\* start a test, no connection has to drop, no page has to wake up; a test that
\* has been claimed goes on reporting progress or ends.  A write gets its turn
\* on wsConn.mu however many others want it (strong fairness: Go's mutexes do
\* not starve a waiter).
Fairness ==
  /\ \A t \in Test : WF_vars(TestMustStep(t))
  /\ \A t \in Test : SF_vars(\E c \in Conn : WriteEvent(t, c))
  /\ \A c \in Conn : WF_vars(ObserverMustStep(c))
  /\ \A p \in Page : WF_vars(PageMustStep(p))

Spec == Init /\ [][Next]_vars /\ Fairness

-----------------------------------------------------------------------------
(* Properties *)

\* Types; a page that is not off holds a connection.
ObserversTypeOK ==
  /\ active \in Test \cup {NoTest}
  /\ stage \in [Test -> Stage]
  /\ cast \in [Test -> Event \cup {"none"}]
  /\ toWrite \in [Test -> SUBSET Conn]
  /\ observers \subseteq Conn
  /\ obs \in [Conn -> Phase]
  /\ first \in [Conn -> {"running", "idle"}]
  /\ writable \in [Conn -> BOOLEAN]
  /\ inbox \in [Conn -> Seq(Event \cup {"ACK", "CLOSE"})]
  /\ mine \in [Page -> Conn \cup {NoConn}]
  /\ watch \in [Page -> {"off", "opening", "watching", "asleep"}]
  /\ screen \in [Page -> {"waiting", "running", "done"}]
  /\ \A p \in Page : watch[p] = "off" <=> mine[p] = NoConn

\* Nothing is under way that could change p's screen: it watches on a
\* connection that works, has read all, and no test runs or speaks.
Settled(p) ==
  /\ watch[p] = "watching"
  /\ obs[mine[p]] = "listening"
  /\ writable[mine[p]]
  /\ inbox[mine[p]] = <<>>
  /\ \A t \in Test : stage[t] \in {"hello", "over"} /\ cast[t] = "none"

\* A page whose observer registered while no test held the lock never goes on
\* showing a test that is over: whatever overtakes what among the broadcasts of
\* two tests and the first state, the last word is "idle" (release's broadcast).
NoStaleScreen ==
  \A p \in Page :
    Settled(p) /\ first[mine[p]] = "idle" => screen[p] # "running"

\* A page mirrors a test while another device is testing (the comment above
\* setPhaseFromObserver), so not when none is.
MirrorsTestsOnly == \A p \in Page : Settled(p) => screen[p] # "running"

\* Observers never hold up a test for good: a broadcast ends although each of
\* them may stall (the write timeout in broadcast).
BroadcastEnds == \A t \in Test : cast[t] # "none" ~> cast[t] = "none"

\* A page that watches while a test goes on comes to show it, even when another
\* broadcast overtook the announcement: progress makes up for it
\* (handleObserve).
TestIsShown ==
  \A t \in Test, p \in Page :
    stage[t] = "serving" /\ watch[p] = "watching" ~>
      \/ screen[p] = "running"
      \/ stage[t] # "serving"
      \/ watch[p] # "watching" \/ ~writable[mine[p]]

\* An observer whose page has gone is taken off Server.observers, whatever its
\* goroutine was writing (serveObserver's deferred delete).
GoneIsForgotten ==
  \A c \in Conn : c \in observers /\ ~Held(c) ~> c \notin observers
=============================================================================
