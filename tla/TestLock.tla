------------------------------ MODULE TestLock ------------------------------
(***************************************************************************)
(* What the server promises about concurrent tests: one test at a time,    *)
(* a second caller is refused outright and not queued (src/server.go,      *)
(* claim and release).  Sessions.tla is shown to implement this module.    *)
(***************************************************************************)
CONSTANTS Control,    \* control connections: each asks for the lock once
          NoControl   \* the lock's owner when nobody runs a test

VARIABLES holder,     \* the control connection that owns the test
          outcome     \* what each caller was told so far

vars == <<holder, outcome>>

Init ==
  /\ holder = NoControl
  /\ outcome = [c \in Control |-> "waiting"]

\* The caller is answered HELLO_ACK and owns the test.
Grant(c) ==
  /\ outcome[c] = "waiting"
  /\ holder = NoControl
  /\ holder' = c
  /\ outcome' = [outcome EXCEPT ![c] = "granted"]

\* The caller is answered BUSY: only while somebody else owns the test.
Refuse(c) ==
  /\ outcome[c] = "waiting"
  /\ holder # NoControl
  /\ outcome' = [outcome EXCEPT ![c] = "refused"]
  /\ UNCHANGED holder

\* The test is over: only its owner gives the lock back, and for good.
Free(c) ==
  /\ holder = c
  /\ holder' = NoControl
  /\ outcome' = [outcome EXCEPT ![c] = "over"]

Next == \E c \in Control : Grant(c) \/ Refuse(c) \/ Free(c)

Spec == Init /\ [][Next]_vars
=============================================================================
