--------------------------- MODULE ServiceProcess ---------------------------
(***************************************************************************)
(* One service process: the worker goroutines of all its firms under one   *)
(* Run (service/internal/filing/worker.go), the web controller that starts *)
(* and stops them, the database pool they share, and the shutdown of       *)
(* main.go.  What the goroutines do to batches is FilingSystem; here a     *)
(* firm's pass is its steps between the contexts, channel and connections  *)
(* that tie the firms together.  SIGKILL is FilingSystem's Halt.           *)
(*                                                                         *)
(* A statement that starts after its context is cancelled fails, and one   *)
(* that is cut short has failed for its caller.                            *)
(***************************************************************************)
EXTENDS Integers, FiniteSets

CONSTANTS
    Firms,      \* --firm flags
    MaxRuns,    \* bound: how often workers are started in one process
    MaxConns,   \* pool_max_conns
    Commands    \* which of the two long-running commands

ASSUME FirmsGiven == IsFiniteSet(Firms) /\ Firms # {}
ASSUME BoundsAreNumbers == MaxRuns \in Nat \ {0} /\ MaxConns \in Nat \ {0}
ASSUME CommandsAreKnown == Commands \subseteq {"serve", "worker"}

Runs == 1..MaxRuns
NoRun == 0

VARIABLES
    command,     \* what main was asked to do
    phase,       \* where main is
    requests,    \* start and stop requests whose handlers have not run yet
    running,     \* WorkerController.running
    cancel,      \* the run that WorkerController.cancel belongs to, or NoRun
    run,         \* where each call of Run is
    cancelled,   \* runCtx.Done()
    errors,      \* length of errorsChannel
    at,          \* where each firm's goroutine of each run is
    conns        \* goroutines that hold a pooled connection between statements

mainVars == <<command, phase>>
controllerVars == <<requests, running, cancel>>
workerVars == <<run, cancelled, errors, at, conns>>
vars == <<mainVars, controllerVars, workerVars>>

Phases == {"up", "draining", "stopping", "closing", "exited"}
Places == {"none", "loop", "claimed", "waiting", "calling", "answered",
           "recording", "sleeping", "failed", "stale", "done"}

\* Every variable has its shape, and the pool its limit.
TypeOK ==
    /\ command \in Commands
    /\ phase \in Phases
    /\ requests \subseteq {"start", "stop"}
    /\ running \in BOOLEAN
    /\ cancel \in Runs \cup {NoRun}
    /\ run \in [Runs -> {"none", "active", "returned", "over"}]
    /\ cancelled \in [Runs -> BOOLEAN]
    /\ errors \in [Runs -> 0..Cardinality(Firms)]
    /\ at \in [Runs -> [Firms -> Places]]
    /\ conns \subseteq Runs \X Firms
    /\ Cardinality(conns) <= MaxConns

\* A served process waits for a start request; the worker command runs at once.
Init ==
    /\ command \in Commands
    /\ phase = "up"
    /\ requests = {}
    /\ running = FALSE
    /\ cancel = NoRun
    /\ run = [r \in Runs |-> IF command = "worker" /\ r = 1 THEN "active" ELSE "none"]
    /\ cancelled = [r \in Runs |-> FALSE]
    /\ errors = [r \in Runs |-> 0]
    /\ at = [r \in Runs |-> [f \in Firms |-> IF command = "worker" /\ r = 1 THEN "loop" ELSE "none"]]
    /\ conns = {}

Goto(r, f, place) == at' = [at EXCEPT ![r][f] = place]
PoolClosed == phase = "closing"

\* Mutant: one connection too many.
ConnFreeOffByOne == Cardinality(conns) <= MaxConns

\* pool.Acquire hands out a connection.
ConnFree == Cardinality(conns) < MaxConns

\* A statement with a connection of its own succeeds, or fails; it waits while
\* the pool is empty.
CanQuery(r) == ~cancelled[r] /\ ~PoolClosed /\ ConnFree
CanFail(r) == cancelled[r] \/ PoolClosed \/ ConnFree

-----------------------------------------------------------------------------
(* A firm's goroutine: Run's loop around ProcessOne *)

\* The next due batch is claimed, or there is none and the goroutine idles.
ClaimNextBatch(r, f) ==
    /\ at[r][f] = "loop"
    /\ CanQuery(r)
    /\ \E found \in BOOLEAN : Goto(r, f, IF found THEN "claimed" ELSE "sleeping")
    /\ UNCHANGED conns

\* The idle timer fires, or runCtx ends the goroutine without an error.
Sleep(r, f) ==
    /\ at[r][f] = "sleeping"
    /\ \/ Goto(r, f, "loop")
       \/ cancelled[r] /\ Goto(r, f, "done")
    /\ UNCHANGED conns

\* AcquireCallPermit takes a connection and keeps it while it waits for the
\* advisory lock and the gate.
TakeConnection(r, f) ==
    /\ at[r][f] = "claimed"
    /\ CanQuery(r)
    /\ conns' = conns \cup {<<r, f>>}
    /\ Goto(r, f, "waiting")

Permitted(r, f) ==
    /\ at[r][f] = "waiting"
    /\ ~cancelled[r]
    /\ Goto(r, f, "calling")
    /\ UNCHANGED conns

\* The receiver answers, or the HTTP timeout or the context ends the call.
Answered(r, f) ==
    /\ at[r][f] = "calling"
    /\ Goto(r, f, "answered")
    /\ UNCHANGED conns

\* Mutant: the connection is kept until ProcessOne's deferred Close.
FinishKeepsConnection(r, f) ==
    /\ at[r][f] = "answered"
    /\ ~cancelled[r]
    /\ Goto(r, f, "recording")
    /\ UNCHANGED conns

\* permit.Finish commits and gives lock and connection back.
Finish(r, f) ==
    /\ at[r][f] = "answered"
    /\ ~cancelled[r]
    /\ conns' = conns \ {<<r, f>>}
    /\ Goto(r, f, "recording")

\* The lifecycle call commits; ProcessOne returns and the loop continues.
Record(r, f) ==
    /\ at[r][f] = "recording"
    /\ CanQuery(r)
    /\ Goto(r, f, "loop")
    /\ UNCHANGED conns

\* The lifecycle call finds that the claim is not the worker's any more.
StaleClaim(r, f) ==
    /\ at[r][f] = "recording"
    /\ CanQuery(r)
    /\ Goto(r, f, "stale")
    /\ UNCHANGED conns

\* Mutant: an error return that leaks the permit's connection.
FailLeakingConnection(r, f) ==
    /\ \/ at[r][f] \in {"loop", "claimed", "recording"} /\ CanFail(r)
       \/ at[r][f] \in {"waiting", "answered"}
    /\ Goto(r, f, "failed")
    /\ UNCHANGED conns

\* Any statement fails and ProcessOne returns the error; a permit that was
\* held is closed on the way out.
Fail(r, f) ==
    /\ \/ at[r][f] \in {"loop", "claimed", "recording"} /\ CanFail(r)
       \/ at[r][f] \in {"waiting", "answered"}
    /\ conns' = conns \ {<<r, f>>}
    /\ Goto(r, f, "failed")

\* Mutant: an unbuffered channel, read only after all goroutines have ended.
ChannelHasRoomForNone(r) == errors[r] < 0

\* errorsChannel is as long as there are firms.
ChannelHasRoom(r) == errors[r] < Cardinality(Firms)

\* The error is sent and the whole Run cancelled.
Report(r, f) ==
    /\ at[r][f] \in {"failed", "stale"}
    /\ ChannelHasRoom(r)
    /\ errors' = [errors EXCEPT ![r] = @ + 1]
    /\ cancelled' = [cancelled EXCEPT ![r] = TRUE]
    /\ Goto(r, f, "done")
    /\ UNCHANGED conns

Goroutine(r, f) ==
    /\ phase # "exited"
    /\ \/ /\ \/ ClaimNextBatch(r, f)
             \/ Sleep(r, f)
             \/ TakeConnection(r, f)
             \/ Permitted(r, f)
             \/ Answered(r, f)
             \/ Finish(r, f)
             \/ Record(r, f)
             \/ StaleClaim(r, f)
             \/ Fail(r, f)
          /\ UNCHANGED <<cancelled, errors>>
       \/ Report(r, f)
    /\ UNCHANGED <<mainVars, controllerVars, run>>

\* Mutant: Run returns at the first error.
ReturnAtFirstError(r) ==
    /\ phase # "exited"
    /\ run[r] = "active"
    /\ errors[r] > 0 \/ \A f \in Firms : at[r][f] = "done"
    /\ run' = [run EXCEPT ![r] = "returned"]
    /\ UNCHANGED <<mainVars, controllerVars, cancelled, errors, at, conns>>

\* waitGroup.Wait is over and Run returns.
Return(r) ==
    /\ phase # "exited"
    /\ run[r] = "active"
    /\ \A f \in Firms : at[r][f] = "done"
    /\ run' = [run EXCEPT ![r] = "returned"]
    /\ UNCHANGED <<mainVars, controllerVars, cancelled, errors, at, conns>>

-----------------------------------------------------------------------------
(* WorkerController *)

\* A browser sends a form.
Request(kind) ==
    /\ command = "serve"
    /\ phase = "up"
    /\ requests' = requests \cup {kind}
    /\ UNCHANGED <<mainVars, running, cancel, workerVars>>

\* A new Run for all firms, unless one is listed as running.
Start(r) ==
    /\ phase # "exited"
    /\ "start" \in requests
    /\ requests' = requests \ {"start"}
    /\ run[r] = "none"
    /\ ~running
    /\ running' = TRUE
    /\ cancel' = r
    /\ run' = [run EXCEPT ![r] = "active"]
    /\ at' = [at EXCEPT ![r] = [f \in Firms |-> "loop"]]
    /\ UNCHANGED <<mainVars, cancelled, errors, conns>>

\* "workers already running"; also where MaxRuns ends the model's runs.
StartRefused ==
    /\ phase # "exited"
    /\ "start" \in requests
    /\ running \/ \A r \in Runs : run[r] # "none"
    /\ requests' = requests \ {"start"}
    /\ UNCHANGED <<mainVars, running, cancel, workerVars>>

\* Mutant: Stop takes the run off the books at once.
StopForgets ==
    /\ IF running /\ cancel # NoRun
         THEN cancelled' = [cancelled EXCEPT ![cancel] = TRUE]
         ELSE UNCHANGED cancelled
    /\ running' = FALSE
    /\ cancel' = NoRun

\* Stop cancels the run's context and leaves the rest to the run.
Stop ==
    /\ IF running /\ cancel # NoRun
         THEN cancelled' = [cancelled EXCEPT ![cancel] = TRUE]
         ELSE UNCHANGED cancelled
    /\ UNCHANGED <<running, cancel>>

StopRequested ==
    /\ phase # "exited"
    /\ "stop" \in requests
    /\ requests' = requests \ {"stop"}
    /\ Stop
    /\ UNCHANGED <<mainVars, run, errors, at, conns>>

\* Start's goroutine, after Run has returned.
Cleanup(r) ==
    /\ command = "serve"
    /\ phase # "exited"
    /\ run[r] = "returned"
    /\ run' = [run EXCEPT ![r] = "over"]
    /\ running' = FALSE
    /\ cancel' = NoRun
    /\ UNCHANGED <<mainVars, requests, cancelled, errors, at, conns>>

-----------------------------------------------------------------------------
(* main *)

\* Mutant: the worker command, too, runs under a context of its own.
SignalHTTPOnly ==
    /\ phase = "up"
    /\ phase' = "draining"
    /\ UNCHANGED <<command, controllerVars, workerVars>>

\* SIGINT or SIGTERM cancels the root context.  The worker command's Run is
\* under it; a Run that the controller started is under context.Background.
Signal ==
    /\ phase = "up"
    /\ phase' = "draining"
    /\ cancelled' = IF command = "worker" THEN [cancelled EXCEPT ![1] = TRUE] ELSE cancelled
    /\ UNCHANGED <<command, controllerVars, run, errors, at, conns>>

\* ListenAndServe returns: the server failed, or handlers have ended, or they
\* have not within SHUTDOWN_TIMEOUT.
HTTPEnds ==
    /\ command = "serve"
    /\ phase \in {"up", "draining"}
    /\ phase' = "stopping"
    /\ UNCHANGED <<command, controllerVars, workerVars>>

\* main's own controller.Stop; it does not wait.
StopAtExit ==
    /\ phase = "stopping"
    /\ phase' = "closing"
    /\ Stop
    /\ UNCHANGED <<command, requests, run, errors, at, conns>>

\* The worker command returns with its Run.
WorkerEnds ==
    /\ command = "worker"
    /\ phase \in {"up", "draining"}
    /\ run[1] = "returned"
    /\ phase' = "closing"
    /\ UNCHANGED <<command, controllerVars, workerVars>>

\* Mutant: the process ends without waiting for the pool.
ExitAtOnce ==
    /\ phase = "closing"
    /\ phase' = "exited"
    /\ UNCHANGED <<command, controllerVars, workerVars>>

\* pool.Close returns when every connection has come back.
Exit ==
    /\ phase = "closing"
    /\ conns = {}
    /\ phase' = "exited"
    /\ UNCHANGED <<command, controllerVars, workerVars>>

\* The process is gone.
Gone == phase = "exited" /\ UNCHANGED vars

Controller ==
    \/ \E kind \in {"start", "stop"} : Request(kind)
    \/ \E r \in Runs : Start(r)
    \/ StartRefused
    \/ StopRequested
    \/ \E r \in Runs : Cleanup(r)

Main == Signal \/ HTTPEnds \/ StopAtExit \/ WorkerEnds \/ Exit \/ Gone

Next ==
    \/ \E r \in Runs, f \in Firms : Goroutine(r, f)
    \/ \E r \in Runs : Return(r)
    \/ Controller
    \/ Main

Spec == Init /\ [][Next]_vars

-----------------------------------------------------------------------------
(* Safety *)

\* No run is out of reach: whoever started workers can stop them, the button
\* says so, and no second run of the same firms is under way (Start, Stop and
\* the cleanup of a run that ended, in any order).
EveryRunCanBeStopped ==
    command = "serve" =>
        \A r \in Runs : run[r] = "active" => running /\ cancel = r

\* A process that exits in order leaves no request to the receiver on the wire:
\* the permit's connection is out for as long as the call lasts, and pool.Close
\* waits for it.
NoCallAtExit ==
    phase = "exited" =>
        \A r \in Runs, f \in Firms : at[r][f] \notin {"waiting", "calling", "answered"}

NoClaimAfterSignal ==
    \A r \in Runs, f \in Firms :
        phase # "up" => ~(at[r][f] = "loop" /\ at'[r][f] = "claimed")

\* The worker command claims no batch any more once the signal has come: Run is
\* under the root context.
WorkerStopsClaims == [][command = "worker" => NoClaimAfterSignal]_vars

\* The worker command closes the pool when all its goroutines have ended, also
\* when one of them fails early: Run waits for them, main for Run.
WorkerClosesPoolLast ==
    command = "worker" /\ phase \in {"closing", "exited"} =>
        \A r \in Runs, f \in Firms : at[r][f] \in {"none", "done"}

(* Liveness *)

\* Goroutines are scheduled, statements, lock waits and HTTP calls end by their
\* timeouts, the pool serves its waiters in order, and main goes on.  Nobody has
\* to press a button, and no signal need come.
Fairness ==
    /\ \A r \in Runs : /\ \A f \in Firms : SF_vars(Goroutine(r, f))
                       /\ WF_vars(Return(r))
                       /\ WF_vars(Cleanup(r))
    /\ WF_vars(phase = "draining" /\ HTTPEnds)
    /\ WF_vars(StopAtExit)
    /\ WF_vars(WorkerEnds)
    /\ WF_vars(Exit)

FairSpec == Spec /\ Fairness

\* A run that is stopped, by a person or by the error of one firm, returns, and
\* workers can be started again: no goroutine hangs on the channel, on a
\* connection or on a timer.
CancelledRunEnds ==
    \A r \in Runs : cancelled[r] ~> (run[r] \in {"returned", "over"} \/ phase = "exited")

\* A claimed batch's pass comes to an end, however few connections all firms
\* share: no goroutine holds one while it waits for another.
EveryPassEnds ==
    \A r \in Runs, f \in Firms :
        at[r][f] = "claimed" ~> (at[r][f] \in {"loop", "done"} \/ phase = "exited")

\* After the signal the process exits.
SignalEndsProcess == phase = "draining" ~> phase = "exited"

(* Statements of the documentation that the code does not keep *)

\* service/README.md, Shutdown: "stop HTTP acceptance and new batch claims".
ClaimsStopAtSignal == [][NoClaimAfterSignal]_vars

\* service/README.md, Shutdown: "allow in-flight lifecycle persistence up to
\* SHUTDOWN_TIMEOUT": the signal cancels no call that records an outcome.
InFlightPersistenceAllowed ==
    [][\A r \in Runs, f \in Firms :
         phase = "up" /\ phase' = "draining" /\ at[r][f] = "recording" =>
             cancelled'[r] = cancelled[r]]_vars
=============================================================================
