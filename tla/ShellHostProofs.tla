---------------------------- MODULE ShellHostProofs ----------------------------
(***************************************************************************)
(* Theorems about ShellHost, for any number of clients, any thresholds of  *)
(* the breaker and any number of restarts.                                 *)
(***************************************************************************)
EXTENDS ShellHost, TLAPS

(***************************************************************************)
(* Types.  The flags and the rest are kept apart: one is Zenon's and the   *)
(* other is SMT's.                                                         *)
(***************************************************************************)
Flags == /\ rested \in BOOLEAN /\ object \in BOOLEAN /\ running \in BOOLEAN /\ stopping \in BOOLEAN
         /\ orphans \in BOOLEAN /\ jobFailed \in BOOLEAN

Labels == {"idle", "elapsed", "attempts", "half1", "half2", "ensure", "start", "launch",
           "up", "submit", "send", "reply", "ok1", "ok2", "ok3", "close1", "close2",
           "close3", "fail1", "fail2", "fail3", "open1", "open2"}

Values ==
  /\ circuit \in {"closed", "open", "half"}
  /\ failures \in 0 .. FailureThreshold /\ successes \in Nat
  /\ state \in {"stopped", "starting", "ready", "busy", "stopping", "crashed"}
  /\ process \in {"none", "alive", "dead"}
  /\ watchdog \in {"none", "sleep", "look", "recover", "relaunch", "done"}
  /\ restarts \in 0 .. MaxRestarts
  /\ host \in {"up", "dead"}
  /\ pc \in [Clients -> Labels]

\* The flags stay Boolean.
LEMMA FlagsStep ==
  ASSUME Flags, [Next]_vars
  PROVE  Flags'
<1> USE DEF Flags
<1>1. ASSUME NEW c \in Clients, Ask(c) PROVE Flags'
  BY <1>1, Zenon DEF Ask, breaker, worker, job
<1>2. ASSUME NEW c \in Clients, Elapsed(c) PROVE Flags'
  BY <1>2, Zenon DEF Elapsed, breaker, worker, job
<1>3. ASSUME NEW c \in Clients, Attempts(c) PROVE Flags'
  BY <1>3, Zenon DEF Attempts, breaker, worker, job
<1>4. ASSUME NEW c \in Clients, HalfOpen(c) PROVE Flags'
  BY <1>4, Zenon DEF HalfOpen, worker, job
<1>5. ASSUME NEW c \in Clients, Ensure(c) PROVE Flags'
  BY <1>5, Zenon DEF Ensure, breaker, worker, job
<1>6. ASSUME NEW c \in Clients, Start(c) PROVE Flags'
  BY <1>6, Zenon DEF Start, breaker, job
<1>7. ASSUME NEW c \in Clients, Launch(c) PROVE Flags'
  <2>1. (orphans \/ process = "alive") \in BOOLEAN
    BY Zenon
  <2> QED
    BY <1>7, <2>1, Zenon DEF Launch, Launched, LaunchedLoose, breaker, job
<1>8. ASSUME NEW c \in Clients, Up(c) PROVE Flags'
  BY <1>8, Zenon DEF Up, breaker, job
<1>9. ASSUME NEW c \in Clients, Submit(c) PROVE Flags'
  BY <1>9, Zenon DEF Submit, breaker, worker, job
<1>10. ASSUME NEW c \in Clients, Send(c) \/ Reply(c) PROVE Flags'
  BY <1>10, Zenon DEF Send, Reply, breaker, job
<1>11. ASSUME NEW c \in Clients, Succeed(c) PROVE Flags'
  BY <1>11, Zenon DEF Succeed, breaker, worker, job
<1>12. ASSUME NEW c \in Clients, CloseCircuit(c) \/ OpenCircuit(c) PROVE Flags'
  BY <1>12, Zenon DEF CloseCircuit, OpenCircuit, worker, job
<1>13. ASSUME NEW c \in Clients, Fail(c) PROVE Flags'
  BY <1>13, Zenon DEF Fail, breaker, worker, job
<1>14. CASE WatchdogWake \/ WatchdogLook
  BY <1>14, Zenon DEF WatchdogWake, WatchdogLook, breaker, job
<1>15. CASE Recover \/ Relaunch
  BY <1>15, Zenon DEF Recover, Relaunch, breaker, job
<1>16. CASE Elapse \/ Crash
  BY <1>16, Zenon DEF Elapse, Crash, breaker, worker, job
<1>17. CASE Shutdown \/ Stopped
  BY <1>17, Zenon DEF Shutdown, Stopped, breaker, job
<1>18. CASE HostRestart
  <2>1. (jobFailed /\ (orphans \/ process = "alive")) \in BOOLEAN
    BY Zenon
  <2> QED
    BY <1>18, <2>1, Zenon DEF HostRestart
<1>19. CASE UNCHANGED vars
  BY <1>19, Zenon DEF vars, breaker, worker, job
<1>20. CASE Initialize
  BY <1>20, Zenon DEF Initialize, breaker
<1> QED
  BY <1>1, <1>2, <1>3, <1>4, <1>5, <1>6, <1>7, <1>8, <1>9, <1>10, <1>11, <1>12, <1>13,
     <1>14, <1>15, <1>16, <1>17, <1>18, <1>19, <1>20 DEF Next, Call, Watch

\* The other variables keep their types: a counter goes no further than its bound.
LEMMA ValuesStep ==
  ASSUME Values, [Next]_vars
  PROVE  Values'
<1>0. FailureThreshold \in Nat \ {0} /\ MaxRestarts \in Nat
  BY ShellHostAssumption
<1> USE <1>0 DEF Values, Labels, At, Goto
<1>1. ASSUME NEW c \in Clients, Ask(c) PROVE Values'
  BY <1>1 DEF Ask, breaker, worker
<1>2. ASSUME NEW c \in Clients, Elapsed(c) \/ Attempts(c) \/ HalfOpen(c) PROVE Values'
  BY <1>2 DEF Elapsed, Attempts, HalfOpen, breaker, worker
<1>3. ASSUME NEW c \in Clients, Ensure(c) \/ Submit(c) PROVE Values'
  BY <1>3 DEF Ensure, Submit, breaker, worker
<1>4. ASSUME NEW c \in Clients, Start(c) \/ Launch(c) PROVE Values'
  BY <1>4 DEF Start, Launch, Launched, LaunchedLoose, breaker
<1>5. ASSUME NEW c \in Clients, Up(c) PROVE Values'
  BY <1>5 DEF Up, breaker
<1>6. ASSUME NEW c \in Clients, Send(c) \/ Reply(c) PROVE Values'
  BY <1>6 DEF Send, Reply, breaker
<1>7. ASSUME NEW c \in Clients, Succeed(c) PROVE Values'
  BY <1>7 DEF Succeed, breaker, worker
<1>8. ASSUME NEW c \in Clients, CloseCircuit(c) \/ OpenCircuit(c) PROVE Values'
  BY <1>8 DEF CloseCircuit, OpenCircuit, worker
<1>9. ASSUME NEW c \in Clients, Fail(c) PROVE Values'
  <2>1. Counted(failures) \in 0 .. FailureThreshold
    BY DEF Counted
  <2> QED
    BY <1>9, <2>1 DEF Fail, breaker, worker
<1>10. CASE WatchdogWake \/ WatchdogLook
  BY <1>10 DEF WatchdogAt, WatchdogWake, WatchdogLook, breaker
<1>11. CASE Recover
  BY <1>11 DEF WatchdogAt, Recover, breaker
<1>12. CASE Relaunch
  BY <1>12 DEF WatchdogAt, Relaunch, breaker
<1>13. CASE Elapse \/ Crash
  BY <1>13 DEF Elapse, Crash, breaker, worker
<1>14. CASE Shutdown \/ Stopped
  BY <1>14 DEF Shutdown, Stopped, breaker
<1>15. CASE HostRestart
  BY <1>15 DEF HostRestart
<1>16. CASE UNCHANGED vars
  BY <1>16 DEF vars, breaker, worker
<1>17. CASE Initialize
  BY <1>17 DEF Initialize, breaker
<1> QED
  BY <1>1, <1>2, <1>3, <1>4, <1>5, <1>6, <1>7, <1>8, <1>9, <1>10, <1>11, <1>12, <1>13,
     <1>14, <1>15, <1>16, <1>17 DEF Next, Call, Watch

\* Every variable keeps its type: the breaker counts no further than it must, and the
\* watchdog restarts no more than maxRestarts times between a start and a stop.
THEOREM TypesCorrect == Spec => []TypeOK
<1>1. Init => Flags /\ Values
  <2>1. Init => Flags
    BY Zenon DEF Init, Flags
  <2>2. Init => Values
    BY ShellHostAssumption DEF Init, Values, Labels
  <2> QED
    BY <2>1, <2>2
<1>2. (Flags /\ Values) /\ [Next]_vars => (Flags /\ Values)'
  BY FlagsStep, ValuesStep
<1>3. Flags /\ Values => TypeOK
  BY DEF Flags, Values, Labels, TypeOK
<1> QED
  BY <1>1, <1>2, <1>3, PTL DEF Spec

(***************************************************************************)
(* The breaker.  NotStuck and Trips are inductive: the thread that brings  *)
(* a counter to its threshold is sent on to the transition, and only the   *)
(* transition itself takes it from there.                                  *)
(***************************************************************************)
\* A step that leaves the circuit, its counts and the threads in a transition alone leaves
\* both properties of the breaker true.
LEMMA BreakerUntouched ==
  ASSUME Values, NotStuck, Trips, UNCHANGED <<circuit, failures, successes>>,
         \A c \in Clients : pc[c] \in {"half2", "open1", "close1", "close2"} => pc'[c] = pc[c]
  PROVE  NotStuck' /\ Trips'
BY DEF NotStuck, Trips, Values

\* No step breaks them.
LEMMA BreakerStep ==
  ASSUME Values, NotStuck, Trips, [Next]_vars
  PROVE  NotStuck' /\ Trips'
<1>0. FailureThreshold \in Nat \ {0} /\ SuccessThreshold \in Nat \ {0}
  BY ShellHostAssumption
<1> USE DEF At, Goto
<1> DEFINE Still == UNCHANGED <<circuit, failures, successes>>
                    /\ \A c \in Clients : pc[c] \in {"half2", "open1", "close1", "close2"} => pc'[c] = pc[c]
<1>1. ASSUME NEW c \in Clients, Ask(c) \/ Elapsed(c) \/ Attempts(c) PROVE Still
  BY <1>1 DEF Ask, Elapsed, Attempts, breaker, Values
<1>2. ASSUME NEW c \in Clients, Ensure(c) \/ Start(c) \/ Launch(c) \/ Up(c) PROVE Still
  BY <1>2 DEF Ensure, Start, Launch, Up, breaker, Values
<1>3. ASSUME NEW c \in Clients, Submit(c) \/ Send(c) \/ Reply(c) PROVE Still
  BY <1>3 DEF Submit, Send, Reply, breaker, Values
<1>4. CASE Watch \/ Elapse \/ Crash \/ Initialize \/ Shutdown \/ Stopped \/ UNCHANGED vars
  <2>1. Still
    BY <1>4 DEF Watch, WatchdogWake, WatchdogLook, Recover, Relaunch, Elapse, Crash,
                Initialize, Shutdown, Stopped, vars, breaker
  <2> QED
    BY <2>1, BreakerUntouched
<1>5. CASE HostRestart
  BY <1>0, <1>5 DEF HostRestart, NotStuck, Trips
<1>6. ASSUME NEW c \in Clients, HalfOpen(c) PROVE NotStuck' /\ Trips'
  BY <1>0, <1>6 DEF HalfOpen, NotStuck, Trips, Values
<1>7. ASSUME NEW c \in Clients, Succeed(c) PROVE NotStuck' /\ Trips'
  BY <1>0, <1>7 DEF Succeed, breaker, NotStuck, Trips, Values
<1>8. ASSUME NEW c \in Clients, CloseCircuit(c) PROVE NotStuck' /\ Trips'
  BY <1>0, <1>8 DEF CloseCircuit, NotStuck, Trips, Values
<1>9. ASSUME NEW c \in Clients, Fail(c) PROVE NotStuck' /\ Trips'
  BY <1>0, <1>9 DEF Fail, Counted, breaker, NotStuck, Trips, Values
<1>10. ASSUME NEW c \in Clients, OpenCircuit(c) PROVE NotStuck' /\ Trips'
  BY <1>0, <1>10 DEF OpenCircuit, NotStuck, Trips, Values
<1>11. ASSUME Still PROVE NotStuck' /\ Trips'
  BY <1>11, BreakerUntouched
<1> QED
  BY <1>1, <1>2, <1>3, <1>4, <1>5, <1>6, <1>7, <1>8, <1>9, <1>10, <1>11 DEF Next, Call

\* Both hold together, since each step of a thread may touch both counts.
LEMMA BreakerInvariant == Spec => [](NotStuck /\ Trips)
<1>1. Init => Values /\ NotStuck /\ Trips
  BY ShellHostAssumption DEF Init, Values, Labels, NotStuck, Trips
<1>2. (Values /\ NotStuck /\ Trips) /\ [Next]_vars => (Values /\ NotStuck /\ Trips)'
  BY ValuesStep, BreakerStep
<1> QED
  BY <1>1, <1>2, PTL DEF Spec

\* A half-open breaker never keeps a count of successes at which it ought to be closed, however
\* the transitions of the threads interleave.
THEOREM BreakerMoves == Spec => []NotStuck
  BY BreakerInvariant, PTL

\* A closed breaker never keeps a count of failures at which it ought to be open.
THEOREM BreakerTrips == Spec => []Trips
  BY BreakerInvariant, PTL

(***************************************************************************)
(* Stopping.                                                               *)
(***************************************************************************)
\* As long as no job object has failed, a process that lives has a watchdog or a thread that is
\* about to make one, and a second launch over a live process has a thread that is about to
\* make one too many, which will end the host.
Held ==
  ~jobFailed /\ host = "up" =>
    /\ process = "alive" => watchdog # "none" \/ \E c \in Clients : pc[c] = "up"
    /\ orphans => \E c \in Clients :
                    pc[c] = "up" /\ (watchdog # "none" \/ \E d \in Clients \ {c} : pc[d] = "up")

\* While Stop waits for the watchdog no request is under way that could start a process; a
\* worker object that has stopped, or was never started, is not in the middle of a launch.
Stops ==
  /\ StoppedHasNoProcess
  /\ Held
  /\ host = "dead" => state # "stopped"
  /\ stopping => object /\ ~running /\ \A c \in Clients : pc[c] = "idle"
  /\ state = "stopped" => \A c \in Clients : pc[c] \notin {"launch", "up"}

\* No step breaks Stops.
LEMMA StopsStep ==
  ASSUME Values, Stops, [Next]_vars
  PROVE  Stops'
<1> USE DEF At, Goto, Stops, StoppedHasNoProcess, Held, Values
<1>1. ASSUME NEW c \in Clients, Ask(c) \/ Elapsed(c) \/ Attempts(c) \/ HalfOpen(c) PROVE Stops'
  BY <1>1 DEF Ask, Elapsed, Attempts, HalfOpen, breaker, worker, job
<1>2. ASSUME NEW c \in Clients, Ensure(c) \/ Submit(c) PROVE Stops'
  BY <1>2 DEF Ensure, Submit, worker, job
<1>3. ASSUME NEW c \in Clients, Start(c) PROVE Stops'
  BY <1>3 DEF Start, job
<1>4. ASSUME NEW c \in Clients, Launch(c) PROVE Stops'
  <2>1. pc[c] = "launch" /\ host = "up" /\ UNCHANGED <<running, watchdog, stopping, host>>
    BY <1>4 DEF Launch
  <2>2. state # "stopped" /\ ~stopping
    BY <2>1
  <2>3. CASE Launched /\ pc' = [pc EXCEPT ![c] = "up"] /\ UNCHANGED state
    <3>1. pc'[c] = "up" /\ \A d \in Clients \ {c} : pc'[d] = pc[d]
      BY <2>3
    <3>2. UNCHANGED jobFailed /\ orphans' = (orphans \/ process = "alive")
      BY <2>3, Zenon DEF Launched
    <3>3. ASSUME ~jobFailed, orphans'
          PROVE  \E d \in Clients : pc'[d] = "up"
                   /\ (watchdog' # "none" \/ \E e \in Clients \ {d} : pc'[e] = "up")
      <4>1. CASE orphans
        BY <2>1, <3>1, <3>3, <4>1
      <4>2. CASE process = "alive"
        BY <2>1, <3>1, <3>3, <4>2
      <4> QED
        BY <3>2, <3>3, <4>1, <4>2, Zenon
    <3> QED
      BY <2>1, <2>2, <2>3, <3>1, <3>2, <3>3
  <2>4. CASE UNCHANGED <<process, job>> /\ state' = "crashed" /\ pc' = [pc EXCEPT ![c] = "fail1"]
    BY <2>1, <2>2, <2>4 DEF job
  <2>5. CASE LaunchedLoose /\ state' = "crashed" /\ pc' = [pc EXCEPT ![c] = "fail1"]
    BY <2>1, <2>2, <2>5 DEF LaunchedLoose
  <2> QED
    BY <1>4, <2>3, <2>4, <2>5 DEF Launch
<1>5. ASSUME NEW c \in Clients, Up(c) PROVE Stops'
  BY <1>5 DEF Up, job
<1>6. ASSUME NEW c \in Clients, Send(c) \/ Reply(c) PROVE Stops'
  BY <1>6 DEF Send, Reply, job
<1>7. ASSUME NEW c \in Clients, Succeed(c) \/ CloseCircuit(c) PROVE Stops'
  BY <1>7 DEF Succeed, CloseCircuit, worker, job
<1>8. ASSUME NEW c \in Clients, Fail(c) \/ OpenCircuit(c) PROVE Stops'
  BY <1>8 DEF Fail, OpenCircuit, worker, job
<1>9. CASE Watch
  BY <1>9 DEF Watch, WatchdogAt, WatchdogWake, WatchdogLook, Recover, Relaunch, job
<1>10. CASE Elapse \/ Crash
  BY <1>10 DEF Elapse, Crash, worker, job
<1>11. CASE Shutdown
  BY <1>11 DEF Shutdown, job
<1>12. CASE Stopped
  BY <1>12 DEF Stopped, job
<1>13. CASE HostRestart
  BY <1>13 DEF HostRestart
<1>14. CASE UNCHANGED vars
  BY <1>14 DEF vars, worker, job
<1>15. CASE Initialize
  <2>1. host = "up" /\ UNCHANGED <<orphans, stopping, host, pc>>
    BY <1>15 DEF Initialize
  <2> QED
    BY <1>15, <2>1 DEF Initialize
<1> QED
  BY <1>1, <1>2, <1>3, <1>4, <1>5, <1>6, <1>7, <1>8, <1>9, <1>10, <1>11, <1>12, <1>13, <1>14, <1>15
     DEF Next, Call

\* After Stop there is neither a process under the handle nor a watchdog that could start one,
\* even when the watchdog was restarting the worker while it was stopped; and no process that
\* lost its handle is left, as long as no job object has failed.
THEOREM StopLeavesNothing == Spec => []StoppedHasNoProcess
<1>1. Init => Values /\ Stops
  BY ShellHostAssumption DEF Init, Values, Labels, Stops, StoppedHasNoProcess, Held
<1>2. (Values /\ Stops) /\ [Next]_vars => (Values /\ Stops)'
  BY ValuesStep, StopsStep
<1>3. Stops => StoppedHasNoProcess
  BY DEF Stops
<1> QED
  BY <1>1, <1>2, <1>3, PTL DEF Spec
===============================================================================
