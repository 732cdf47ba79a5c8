------------------------------- MODULE ShellHost -------------------------------
(***************************************************************************)
(* The isolated path: ShellHostClient (src/ShellHost/shellhost_client.cpp) *)
(* asks a worker process for thumbnails behind a circuit breaker, and      *)
(* WorkerProcess (src/Worker/worker_process.cpp) starts, watches, restarts *)
(* and stops that process.                                                 *)
(*                                                                         *)
(* The breaker's state, its counters and the worker's flags are atomics    *)
(* that are read and written one at a time; only the three transitions of  *)
(* the breaker hold m_circuitMutex.  A step is one such access, a call of  *)
(* the system, or a few of them that no other thread tells apart.  The     *)
(* statistics, the heartbeat (which only IsHealthy reads) and the pipe     *)
(* are left out: a request is answered if the process lives, or is not.    *)
(*                                                                         *)
(* The owner of the client calls Initialize before the first request, as   *)
(* ShellHostFactory::GetInstance does under call_once, and Shutdown when   *)
(* no request is under way.  A client used without it creates m_worker in  *)
(* EnsureWorkerRunning, with no lock: two threads that find it missing     *)
(* race for a std::unique_ptr (shellhost_client.cpp:190-192).  So do two   *)
(* threads in Start for m_processHandle and m_ipcClient; of these races    *)
(* only the handle and the end of the host by m_watchdogThread are here.   *)
(***************************************************************************)
EXTENDS Naturals, FiniteSets

CONSTANTS
  Clients,              \* threads of the host (Explorer)
  FailureThreshold,     \* m_circuitConfig
  SuccessThreshold,
  HalfOpenMaxAttempts,
  MaxRestarts,          \* m_config.maxRestarts
  JobFaults             \* whether SetupJobObject may fail

ASSUME ShellHostAssumption ==
  /\ FailureThreshold \in Nat \ {0} /\ SuccessThreshold \in Nat \ {0}
  /\ HalfOpenMaxAttempts \in Nat /\ SuccessThreshold <= HalfOpenMaxAttempts
  /\ MaxRestarts \in Nat /\ JobFaults \in BOOLEAN

VARIABLES
  object,     \* whether Initialize has made m_worker
  circuit,    \* m_circuitState: "closed", "open" or "half"
  failures,   \* m_consecutiveFailures; from FailureThreshold on it counts no further
  successes,  \* m_consecutiveSuccesses
  rested,     \* openDurationMs have passed since m_circuitOpenTime
  running,    \* m_running of the worker object
  state,      \* m_state: "stopped", "starting", "ready", "busy", "stopping" or "crashed"
  process,    \* the process of m_processHandle: "none", "alive" or "dead"
  orphans,    \* whether a process has lost its handle while it was alive
  jobFailed,  \* history: whether SetupJobObject has failed for a process that may still live
  watchdog,   \* where the thread of m_watchdogThread is; "none" if there is none
  restarts,   \* m_currentRestartCount
  stopping,   \* Shutdown is under way
  host,       \* "up", or "dead" after std::terminate
  pc          \* where each thread is in GetThumbnail

breaker == <<circuit, failures, successes, rested>>
job == <<orphans, jobFailed>>
worker == <<object, running, state, process, job, watchdog, restarts, stopping>>
vars == <<breaker, worker, host, pc>>

Init ==
  /\ circuit = "closed" /\ failures = 0 /\ successes = 0 /\ rested = TRUE
  /\ object = FALSE /\ running = FALSE /\ state = "stopped"
  /\ process = "none" /\ orphans = FALSE /\ jobFailed = FALSE
  /\ watchdog = "none" /\ restarts = 0 /\ stopping = FALSE
  /\ host = "up"
  /\ pc = [c \in Clients |-> "idle"]

At(c, l) == pc[c] = l /\ host = "up"
Goto(c, l) == pc' = [pc EXCEPT ![c] = l]

\* m_circuitMutex is held between the two halves of a transition.
MutexFree == \A c \in Clients : pc[c] \notin {"half2", "open2", "close2", "close3"}

(***************************************************************************)
(* ShouldAllowRequest: a refused request is answered by the fallback.      *)
(***************************************************************************)
Ask(c) ==
  /\ At(c, "idle") /\ object /\ ~stopping
  /\ Goto(c, CASE circuit = "closed" -> "ensure"
               [] circuit = "open" -> "elapsed"
               [] circuit = "half" -> "attempts")
  /\ UNCHANGED <<breaker, worker, host>>

Elapsed(c) ==
  /\ At(c, "elapsed")
  /\ Goto(c, IF rested THEN "half1" ELSE "idle")
  /\ UNCHANGED <<breaker, worker, host>>

\* Variant with a defect: one attempt too few.
AttemptsFew(c) ==
  /\ At(c, "attempts")
  /\ Goto(c, IF successes + 1 < HalfOpenMaxAttempts THEN "ensure" ELSE "idle")
  /\ UNCHANGED <<breaker, worker, host>>

Attempts(c) ==
  /\ At(c, "attempts")
  /\ Goto(c, IF successes < HalfOpenMaxAttempts THEN "ensure" ELSE "idle")
  /\ UNCHANGED <<breaker, worker, host>>

\* TransitionToHalfOpen.
HalfOpen(c) ==
  \/ /\ At(c, "half1") /\ MutexFree
     /\ circuit' = "half" /\ Goto(c, "half2")
     /\ UNCHANGED <<failures, successes, rested, worker, host>>
  \/ /\ At(c, "half2")
     /\ successes' = 0 /\ Goto(c, "ensure")
     /\ UNCHANGED <<circuit, failures, rested, worker, host>>

(***************************************************************************)
(* EnsureWorkerRunning and WorkerProcess::Start.                           *)
(***************************************************************************)
IsRunning == running /\ state \notin {"stopped", "crashed"}

Ensure(c) ==
  /\ At(c, "ensure")
  /\ Goto(c, IF IsRunning THEN "submit" ELSE "start")
  /\ UNCHANGED <<breaker, worker, host>>

Start(c) ==
  /\ At(c, "start")
  /\ \/ running /\ Goto(c, "submit") /\ UNCHANGED state
     \/ ~running /\ state' = "starting" /\ Goto(c, "launch")
  /\ UNCHANGED <<breaker, object, running, process, job, watchdog, restarts, stopping, host>>

\* LaunchWorkerProcess takes the handle of the new process over that of the old one.  It can
\* fail before there is a process, and after (SetupJobObject).
Launched ==
  process' = "alive" /\ orphans' = (orphans \/ process = "alive") /\ UNCHANGED jobFailed
LaunchedLoose ==
  /\ JobFaults
  /\ process' = "alive" /\ orphans' = (orphans \/ process = "alive") /\ jobFailed' = TRUE
Launch(c) ==
  /\ At(c, "launch")
  /\ \/ Launched /\ Goto(c, "up") /\ UNCHANGED state
     \/ UNCHANGED <<process, job>> /\ state' = "crashed" /\ Goto(c, "fail1")
     \/ LaunchedLoose /\ state' = "crashed" /\ Goto(c, "fail1")
  /\ UNCHANGED <<breaker, object, running, watchdog, restarts, stopping, host>>

\* The assignment to m_watchdogThread ends the host if a thread object is there that was
\* not joined, whether its loop still runs or not.
Up(c) ==
  /\ At(c, "up")
  /\ running' = TRUE /\ state' = "ready"
  /\ \/ watchdog = "none" /\ watchdog' = "sleep" /\ Goto(c, "submit") /\ UNCHANGED host
     \/ watchdog # "none" /\ host' = "dead" /\ UNCHANGED <<watchdog, pc>>
  /\ UNCHANGED <<breaker, object, process, job, restarts, stopping>>

(***************************************************************************)
(* SubmitRequest: only a live process answers, and it may not.             *)
(***************************************************************************)
Submit(c) ==
  /\ At(c, "submit")
  /\ Goto(c, IF IsRunning THEN "send" ELSE "fail1")
  /\ UNCHANGED <<breaker, worker, host>>

Send(c) ==
  /\ At(c, "send")
  /\ \/ process = "alive" /\ state' = "busy" /\ Goto(c, "reply")
     \/ Goto(c, "fail1") /\ UNCHANGED state
  /\ UNCHANGED <<breaker, object, running, process, job, watchdog, restarts, stopping, host>>

\* The response may be no bitmap.
Reply(c) ==
  /\ At(c, "reply")
  /\ state' = "ready"
  /\ Goto(c, "ok1") \/ Goto(c, "fail1")
  /\ UNCHANGED <<breaker, object, running, process, job, watchdog, restarts, stopping, host>>

(***************************************************************************)
(* RecordSuccess and CloseCircuit.                                         *)
(***************************************************************************)
\* Variant with a defect: one success more is asked for.
SucceedLate(c) ==
  \/ /\ At(c, "ok1")
     /\ failures' = 0 /\ Goto(c, "ok2")
     /\ UNCHANGED <<circuit, successes, rested, worker, host>>
  \/ /\ At(c, "ok2")
     /\ Goto(c, IF circuit = "half" THEN "ok3" ELSE "idle")
     /\ UNCHANGED <<breaker, worker, host>>
  \/ /\ At(c, "ok3")
     /\ successes' = successes + 1
     /\ Goto(c, IF successes + 1 > SuccessThreshold THEN "close1" ELSE "idle")
     /\ UNCHANGED <<circuit, failures, rested, worker, host>>

Succeed(c) ==
  \/ /\ At(c, "ok1")
     /\ failures' = 0 /\ Goto(c, "ok2")
     /\ UNCHANGED <<circuit, successes, rested, worker, host>>
  \/ /\ At(c, "ok2")
     /\ Goto(c, IF circuit = "half" THEN "ok3" ELSE "idle")
     /\ UNCHANGED <<breaker, worker, host>>
  \/ /\ At(c, "ok3")
     /\ successes' = successes + 1
     /\ Goto(c, IF successes + 1 >= SuccessThreshold THEN "close1" ELSE "idle")
     /\ UNCHANGED <<circuit, failures, rested, worker, host>>

CloseCircuit(c) ==
  \/ /\ At(c, "close1") /\ MutexFree
     /\ circuit' = "closed" /\ Goto(c, "close2")
     /\ UNCHANGED <<failures, successes, rested, worker, host>>
  \/ /\ At(c, "close2")
     /\ failures' = 0 /\ Goto(c, "close3")
     /\ UNCHANGED <<circuit, successes, rested, worker, host>>
  \/ /\ At(c, "close3")
     /\ successes' = 0 /\ Goto(c, "idle")
     /\ UNCHANGED <<circuit, failures, rested, worker, host>>

(***************************************************************************)
(* RecordFailure and OpenCircuit.                                          *)
(***************************************************************************)
Counted(n) == IF n < FailureThreshold THEN n + 1 ELSE n
\* Variant with a defect: the failures are compared before this one is counted.
FailLate(c) ==
  \/ /\ At(c, "fail1")
     /\ successes' = 0 /\ Goto(c, "fail2")
     /\ UNCHANGED <<circuit, failures, rested, worker, host>>
  \/ /\ At(c, "fail2")
     /\ failures' = Counted(failures)
     /\ Goto(c, IF failures >= FailureThreshold THEN "open1" ELSE "fail3")
     /\ UNCHANGED <<circuit, successes, rested, worker, host>>
  \/ /\ At(c, "fail3")
     /\ Goto(c, IF circuit = "half" THEN "open1" ELSE "idle")
     /\ UNCHANGED <<breaker, worker, host>>

Fail(c) ==
  \/ /\ At(c, "fail1")
     /\ successes' = 0 /\ Goto(c, "fail2")
     /\ UNCHANGED <<circuit, failures, rested, worker, host>>
  \/ /\ At(c, "fail2")
     /\ failures' = Counted(failures)
     /\ Goto(c, IF Counted(failures) >= FailureThreshold THEN "open1" ELSE "fail3")
     /\ UNCHANGED <<circuit, successes, rested, worker, host>>
  \/ /\ At(c, "fail3")
     /\ Goto(c, IF circuit = "half" THEN "open1" ELSE "idle")
     /\ UNCHANGED <<breaker, worker, host>>

OpenCircuit(c) ==
  \/ /\ At(c, "open1") /\ MutexFree
     /\ circuit' = "open" /\ Goto(c, "open2")
     /\ UNCHANGED <<failures, successes, rested, worker, host>>
  \/ /\ At(c, "open2")
     /\ rested' = FALSE /\ Goto(c, "idle")
     /\ UNCHANGED <<circuit, failures, successes, worker, host>>

Elapse == /\ ~rested /\ rested' = TRUE
          /\ UNCHANGED <<circuit, failures, successes, worker, host, pc>>

(***************************************************************************)
(* The watchdog thread: WatchdogLoop and RecoverFromCrash.                 *)
(***************************************************************************)
WatchdogAt(l) == watchdog = l /\ host = "up"
WatchdogWake ==
  /\ WatchdogAt("sleep")
  /\ watchdog' = IF running THEN "look" ELSE "done"
  /\ UNCHANGED <<breaker, object, running, state, process, job, restarts, stopping, host, pc>>

WatchdogLook ==
  /\ WatchdogAt("look")
  /\ \/ process = "dead" /\ state' = "crashed" /\ watchdog' = "recover"
     \/ process # "dead" /\ watchdog' = "sleep" /\ UNCHANGED state
  /\ UNCHANGED <<breaker, object, running, process, job, restarts, stopping, host, pc>>

\* Variants with a defect: one restart too many; giving up leaves m_running.
RecoverOnceMore ==
  /\ WatchdogAt("recover")
  /\ \/ /\ restarts > MaxRestarts
        /\ running' = FALSE /\ watchdog' = "done" /\ UNCHANGED restarts
     \/ /\ restarts <= MaxRestarts
        /\ restarts' = restarts + 1 /\ watchdog' = "relaunch" /\ UNCHANGED running
  /\ UNCHANGED <<breaker, object, state, process, job, stopping, host, pc>>

RecoverSilent ==
  /\ WatchdogAt("recover")
  /\ \/ restarts >= MaxRestarts /\ watchdog' = "done" /\ UNCHANGED restarts
     \/ restarts < MaxRestarts /\ restarts' = restarts + 1 /\ watchdog' = "relaunch"
  /\ UNCHANGED <<breaker, object, running, state, process, job, stopping, host, pc>>

Recover ==
  /\ WatchdogAt("recover")
  /\ \/ /\ restarts >= MaxRestarts
        /\ running' = FALSE /\ watchdog' = "done" /\ UNCHANGED restarts
     \/ /\ restarts < MaxRestarts
        /\ restarts' = restarts + 1 /\ watchdog' = "relaunch" /\ UNCHANGED running
  /\ UNCHANGED <<breaker, object, state, process, job, stopping, host, pc>>

\* TerminateWorkerProcess, then LaunchWorkerProcess.
Relaunch ==
  /\ WatchdogAt("relaunch")
  /\ \/ process' = "alive" /\ watchdog' = "sleep" /\ UNCHANGED <<running, jobFailed>>
     \/ process' = "none" /\ running' = FALSE /\ watchdog' = "done" /\ UNCHANGED jobFailed
     \/ /\ JobFaults
        /\ process' = "alive" /\ jobFailed' = TRUE /\ running' = FALSE /\ watchdog' = "done"
  /\ UNCHANGED <<breaker, object, state, orphans, restarts, stopping, host, pc>>

Watch == WatchdogWake \/ WatchdogLook \/ Recover \/ Relaunch

(***************************************************************************)
(* The rest of the world.                                                  *)
(***************************************************************************)
\* The worker process dies.
Crash ==
  /\ process = "alive" /\ process' = "dead"
  /\ UNCHANGED <<breaker, object, running, state, job, watchdog, restarts, stopping, host, pc>>

\* ShellHostClient::Initialize, with no request under way: a new worker object and its Start.
Initialize ==
  /\ host = "up" /\ ~object
  /\ object' = TRUE
  /\ \/ /\ process' = "alive" /\ running' = TRUE /\ state' = "ready" /\ watchdog' = "sleep"
        /\ UNCHANGED jobFailed
     \/ state' = "crashed" /\ UNCHANGED <<process, jobFailed, running, watchdog>>
     \/ /\ JobFaults
        /\ process' = "alive" /\ jobFailed' = TRUE /\ state' = "crashed"
        /\ UNCHANGED <<running, watchdog>>
  /\ UNCHANGED <<breaker, orphans, restarts, stopping, host, pc>>

\* ShellHostClient::Shutdown, with no request under way: WorkerProcess::Stop up to the join of the
\* watchdog; the rest of it, and the end of the worker object.
Shutdown ==
  /\ host = "up" /\ object /\ ~stopping /\ \A c \in Clients : pc[c] = "idle"
  /\ running' = FALSE /\ state' = "stopping" /\ stopping' = TRUE
  /\ UNCHANGED <<breaker, object, process, job, watchdog, restarts, host, pc>>

Joined == watchdog \in {"none", "done"}
\* Variant with a defect: Stop lets go of the watchdog instead of waiting for it.
StoppedDetached ==
  /\ host = "up" /\ stopping
  /\ process' = "none" /\ state' = "stopped" /\ stopping' = FALSE /\ object' = FALSE
  /\ restarts' = 0
  /\ UNCHANGED <<breaker, running, job, watchdog, host, pc>>

Stopped ==
  /\ host = "up" /\ stopping /\ Joined
  /\ process' = "none" /\ state' = "stopped" /\ stopping' = FALSE /\ object' = FALSE
  /\ watchdog' = "none" /\ restarts' = 0
  /\ UNCHANGED <<breaker, running, job, host, pc>>

\* The user's desktop starts again.  The job objects have ended the workers of the old host;
\* one whose SetupJobObject had failed may be left.
HostRestart ==
  /\ host = "dead"
  /\ circuit' = "closed" /\ failures' = 0 /\ successes' = 0 /\ rested' = TRUE
  /\ object' = FALSE /\ running' = FALSE /\ state' = "stopped" /\ process' = "none"
  /\ orphans' \in {FALSE, jobFailed /\ (orphans \/ process = "alive")} /\ jobFailed' = orphans'
  /\ watchdog' = "none" /\ restarts' = 0 /\ stopping' = FALSE
  /\ host' = "up"
  /\ pc' = [c \in Clients |-> "idle"]

Call(c) == \/ Elapsed(c) \/ Attempts(c) \/ HalfOpen(c)
           \/ Ensure(c) \/ Start(c) \/ Launch(c) \/ Up(c)
           \/ Submit(c) \/ Send(c) \/ Reply(c)
           \/ Succeed(c) \/ CloseCircuit(c) \/ Fail(c) \/ OpenCircuit(c)

Next == \/ \E c \in Clients : Ask(c) \/ Call(c)
        \/ Watch
        \/ Elapse \/ Crash \/ Initialize \/ Shutdown \/ Stopped \/ HostRestart

Spec == Init /\ [][Next]_vars

\* A thread that can run runs, the watchdog wakes up and time passes.
FairSpec == /\ Spec
            /\ \A c \in Clients : WF_vars(Call(c))
            /\ WF_vars(Watch) /\ WF_vars(Elapse)

(***************************************************************************)
(* Properties.                                                             *)
(***************************************************************************)
TypeOK ==
  /\ circuit \in {"closed", "open", "half"}
  /\ failures \in 0 .. FailureThreshold /\ successes \in Nat /\ rested \in BOOLEAN
  /\ object \in BOOLEAN /\ running \in BOOLEAN /\ stopping \in BOOLEAN
  /\ orphans \in BOOLEAN /\ jobFailed \in BOOLEAN
  /\ state \in {"stopped", "starting", "ready", "busy", "stopping", "crashed"}
  /\ process \in {"none", "alive", "dead"}
  /\ watchdog \in {"none", "sleep", "look", "recover", "relaunch", "done"}
  /\ restarts \in 0 .. MaxRestarts
  /\ host \in {"up", "dead"}
  /\ pc \in [Clients -> {"idle", "elapsed", "attempts", "half1", "half2", "ensure", "start", "launch",
                         "up", "submit", "send", "reply", "ok1", "ok2", "ok3", "close1", "close2",
                         "close3", "fail1", "fail2", "fail3", "open1", "open2"}]

\* A half-open breaker that has seen enough successes is about to close, or has just
\* become half-open and is about to forget them: it cannot refuse requests for good.
NotStuck ==
  circuit = "half" /\ successes >= SuccessThreshold
    => \E c \in Clients : pc[c] \in {"close1", "half2"}

\* A closed breaker that has counted enough failures is about to open, or about to
\* forget them because another thread has just closed it.
Trips ==
  circuit = "closed" /\ failures >= FailureThreshold
    => \E c \in Clients : pc[c] \in {"open1", "close2"}

\* When Stop has returned the process of the handle is ended and no watchdog is there to start
\* another, whatever it was doing; and no process is left that lost its handle to a later one,
\* however the starts of the threads interleaved, unless SetupJobObject failed: after that a
\* start takes the handle of a live process over, and Stop does not end what it cannot name.
StoppedHasNoProcess ==
  state = "stopped" => process = "none" /\ watchdog = "none" /\ ~running /\ (orphans => jobFailed)

\* While the host lives, requests that find the breaker open or half-open again and again get
\* through again and again.
NeverRefusesForEver ==
  []<>(host = "up" /\ \E c \in Clients : pc[c] \in {"elapsed", "attempts"})
    => []<>(\E c \in Clients : pc[c] = "ensure")

\* The watchdog replaces a dead worker or gives up.
CrashIsNoticed == (process = "dead" /\ running) ~> (process # "dead" \/ ~running \/ host = "dead")

\* Losing the worker again and again does not end the host.
HostSurvives == host = "up"

\* "Time circuit stays open" (CircuitBreakerConfig): once opened the breaker refuses
\* until openDurationMs have passed.
StaysOpen == [][circuit = "open" /\ circuit' # "open" => rested \/ host = "dead"]_vars
==============================================================================
