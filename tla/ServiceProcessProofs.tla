------------------------ MODULE ServiceProcessProofs ------------------------
(***************************************************************************)
(* For any firms, any number of runs and any pool size: the controller     *)
(* never loses sight of a run, an orderly exit leaves no call on the wire, *)
(* and the worker command stops claiming at the signal and closes its pool *)
(* last.                                                                   *)
(***************************************************************************)
EXTENDS ServiceProcess, FiniteSetTheorems, TLAPS

InPermit == {"waiting", "calling", "answered"}

\* The controller's record lags a run's end, never its start.
ControllerInv ==
    command = "serve" =>
        \A r \in Runs : run[r] \in {"active", "returned"} => running /\ cancel = r

\* Whoever is between Acquire and Finish holds a connection.
ConnInv ==
    /\ \A r \in Runs, f \in Firms : at[r][f] \in InPermit => <<r, f>> \in conns
    /\ phase = "exited" => conns = {}

\* The worker command has one run, and main follows it.
WorkerInv ==
    command = "worker" =>
        /\ requests = {}
        /\ phase # "stopping"
        /\ \A r \in Runs \ {1} : run[r] = "none" /\ \A f \in Firms : at[r][f] = "none"
        /\ run[1] \in {"active", "returned"}
        /\ run[1] = "returned" => \A f \in Firms : at[1][f] = "done"
        /\ phase = "draining" => cancelled[1]
        /\ phase \in {"closing", "exited"} => run[1] = "returned"

Inv == TypeOK /\ ControllerInv /\ ConnInv /\ WorkerInv

\* The set of goroutines that may hold a connection is finite.
LEMMA HoldersAreFinite ==
    ASSUME NEW C \in SUBSET (Runs \X Firms) PROVE IsFiniteSet(C)
<1>1. IsFiniteSet(Runs)
  BY FS_Interval, BoundsAreNumbers DEF Runs
<1>2. IsFiniteSet(Runs \X Firms)
  BY <1>1, FS_Product, FirmsGiven
<1> QED
  BY <1>2, FS_Subset

\* Taking a connection that is free keeps within the pool, giving one back too.
LEMMA PoolKeepsLimit ==
    ASSUME NEW C \in SUBSET (Runs \X Firms), NEW g \in Runs \X Firms
    PROVE  /\ Cardinality(C) < MaxConns => Cardinality(C \cup {g}) <= MaxConns
           /\ Cardinality(C) <= MaxConns => Cardinality(C \ {g}) <= MaxConns
<1>1. IsFiniteSet(C) /\ Cardinality(C) \in Nat
  BY HoldersAreFinite, FS_CardinalityType
<1>2. Cardinality(C \cup {g}) = IF g \in C THEN Cardinality(C) ELSE Cardinality(C) + 1
  BY <1>1, FS_AddElement
<1>3. Cardinality(C \ {g}) = IF g \in C THEN Cardinality(C) - 1 ELSE Cardinality(C)
  BY <1>1, FS_RemoveElement
<1> QED
  BY <1>1, <1>2, <1>3, BoundsAreNumbers

\* A process that has just been started satisfies the invariant.
LEMMA InitInv == Init => Inv
<1> SUFFICES ASSUME Init PROVE Inv
  OBVIOUS
<1>1. Cardinality({}) = 0
  BY FS_EmptySet
<1>2. Cardinality(Firms) \in Nat
  BY FirmsGiven, FS_CardinalityType
<1>3. 1 \in Runs /\ NoRun \notin Runs
  BY BoundsAreNumbers DEF Runs, NoRun
<1>4. TypeOK
  <2>1. errors \in [Runs -> 0..Cardinality(Firms)]
    BY <1>2 DEF Init
  <2>2. at \in [Runs -> [Firms -> Places]]
    BY DEF Init, Places
  <2>3. conns \subseteq Runs \X Firms /\ Cardinality(conns) <= MaxConns
    BY <1>1, BoundsAreNumbers DEF Init
  <2> QED
    BY <2>1, <2>2, <2>3, <1>3 DEF Init, TypeOK, Phases
<1>5. ControllerInv /\ ConnInv /\ WorkerInv
  BY <1>3, CommandsAreKnown DEF Init, ControllerInv, ConnInv, WorkerInv, InPermit
<1> QED
  BY <1>4, <1>5 DEF Inv

\* A step of one goroutine keeps the invariant: it moves one place, touches one
\* connection, and cancels nothing but its own run.
LEMMA GoroutineInv ==
    ASSUME Inv, NEW r \in Runs, NEW f \in Firms, Goroutine(r, f)
    PROVE  Inv'
<1> USE DEF Inv
<1>1. PICK place \in Places :
        /\ at' = [at EXCEPT ![r][f] = place]
        /\ place \in InPermit =>
              \/ <<r, f>> \in conns'
              \/ at[r][f] \in InPermit /\ conns' = conns
        /\ at[r][f] \notin {"none", "done"}
  <2> USE DEF Goto, Places, InPermit
  <2>1. CASE ClaimNextBatch(r, f)
    BY <2>1 DEF ClaimNextBatch
  <2>2. CASE Sleep(r, f)
    BY <2>2 DEF Sleep
  <2>3. CASE TakeConnection(r, f)
    BY <2>3 DEF TakeConnection
  <2>4. CASE Permitted(r, f) \/ Answered(r, f)
    BY <2>4 DEF Permitted, Answered
  <2>5. CASE Finish(r, f)
    BY <2>5 DEF Finish
  <2>6. CASE Record(r, f) \/ StaleClaim(r, f)
    BY <2>6 DEF Record, StaleClaim
  <2>7. CASE Fail(r, f)
    BY <2>7 DEF Fail
  <2>8. CASE Report(r, f)
    BY <2>8 DEF Report
  <2> QED
    BY <2>1, <2>2, <2>3, <2>4, <2>5, <2>6, <2>7, <2>8 DEF Goroutine
<1>2. /\ conns' \in {conns, conns \cup {<<r, f>>}, conns \ {<<r, f>>}}
      /\ conns' = conns \cup {<<r, f>>} => conns' = conns \/ Cardinality(conns) < MaxConns
      /\ <<r, f>> \notin conns' => place \notin InPermit
  BY <1>1 DEF Goroutine, ClaimNextBatch, Sleep, TakeConnection, CanQuery, ConnFree,
         Permitted, Answered, Finish, Record, StaleClaim, Fail, Report, ConnInv, InPermit
<1>3. /\ UNCHANGED <<command, phase, requests, running, cancel, run>>
      /\ phase # "exited"
  BY DEF Goroutine, mainVars, controllerVars
<1>4. \/ UNCHANGED <<cancelled, errors>>
      \/ /\ cancelled' = [cancelled EXCEPT ![r] = TRUE]
         /\ errors' = [errors EXCEPT ![r] = @ + 1]
         /\ errors[r] < Cardinality(Firms)
  BY DEF Goroutine, Report, ChannelHasRoom
<1>5. conns' \subseteq Runs \X Firms /\ Cardinality(conns') <= MaxConns
  <2>1. <<r, f>> \in Runs \X Firms /\ conns \in SUBSET (Runs \X Firms)
    BY DEF TypeOK
  <2>2. CASE conns' = conns
    BY <2>2 DEF TypeOK
  <2>3. CASE conns' # conns /\ conns' = conns \cup {<<r, f>>}
    <3>1. Cardinality(conns) < MaxConns
      BY <1>2, <2>3
    <3> QED
      BY <2>1, <2>3, <3>1, PoolKeepsLimit
  <2>4. CASE conns' = conns \ {<<r, f>>}
    <3>1. Cardinality(conns) <= MaxConns
      BY DEF TypeOK
    <3> QED
      BY <2>1, <2>4, <3>1, PoolKeepsLimit
  <2> QED
    BY <1>2, <2>2, <2>3, <2>4
<1>6. Cardinality(Firms) \in Nat
  BY FirmsGiven, FS_CardinalityType
<1>7. TypeOK'
  <2>1. at' \in [Runs -> [Firms -> Places]]
    BY <1>1 DEF TypeOK
  <2>2. errors' \in [Runs -> 0..Cardinality(Firms)]
    BY <1>4, <1>6 DEF TypeOK
  <2>3. cancelled' \in [Runs -> BOOLEAN]
    BY <1>4 DEF TypeOK
  <2> QED
    BY <2>1, <2>2, <2>3, <1>3, <1>5 DEF TypeOK
<1>8. ControllerInv'
  BY <1>3 DEF ControllerInv
<1>9. ConnInv'
  BY <1>1, <1>2, <1>3 DEF ConnInv, TypeOK
<1>10. WorkerInv'
  <2> SUFFICES ASSUME command = "worker" PROVE WorkerInv'
    BY <1>3 DEF WorkerInv
  <2>1. r = 1 /\ run[1] # "returned"
    BY <1>1 DEF WorkerInv
  <2>2. cancelled[1] => cancelled'[1]
    BY <1>4, <2>1 DEF TypeOK
  <2>3. \A s \in Runs \ {1} : at'[s] = at[s]
    BY <1>1, <2>1 DEF TypeOK
  <2> QED
    BY <1>3, <2>1, <2>2, <2>3 DEF WorkerInv
<1> QED
  BY <1>7, <1>8, <1>9, <1>10

\* Every step keeps the invariant.
LEMMA NextInv == Inv /\ [Next]_vars => Inv'
<1> SUFFICES ASSUME Inv, [Next]_vars PROVE Inv'
  OBVIOUS
<1> USE DEF Inv, mainVars, controllerVars, workerVars
<1> USE DEF TypeOK, ControllerInv, ConnInv, WorkerInv
<1>0. 1 \in Runs /\ NoRun \notin Runs
  BY BoundsAreNumbers DEF Runs, NoRun
<1>1. ASSUME NEW r \in Runs, NEW f \in Firms, Goroutine(r, f) PROVE Inv'
  BY <1>1, GoroutineInv
<1>2. ASSUME NEW r \in Runs, Return(r) PROVE Inv'
  BY <1>0, <1>2 DEF Return
<1>3. ASSUME NEW kind \in {"start", "stop"}, Request(kind) PROVE Inv'
  BY <1>3 DEF Request
<1>4. ASSUME NEW r \in Runs, Start(r) PROVE Inv'
  BY <1>0, <1>4 DEF Start, Places, InPermit
<1>5. CASE StartRefused
  BY <1>5 DEF StartRefused
<1>6. CASE StopRequested
  BY <1>6 DEF StopRequested, Stop
<1>7. ASSUME NEW r \in Runs, Cleanup(r) PROVE Inv'
  <2>1. command = "serve" /\ command' = command
    BY <1>7 DEF Cleanup
  <2>2. run' = [run EXCEPT ![r] = "over"] /\ run[r] = "returned"
    BY <1>7 DEF Cleanup
  <2>3. cancel = r
    BY <2>1, <2>2
  <2>4. \A s \in Runs : run'[s] \notin {"active", "returned"}
    BY <2>1, <2>2, <2>3
  <2>5. ControllerInv'
    BY <2>4
  <2>6. TypeOK' /\ ConnInv' /\ WorkerInv'
    BY <1>7, <2>1 DEF Cleanup
  <2> QED
    BY <2>5, <2>6
<1>8. CASE Signal
  BY <1>0, <1>8 DEF Signal, Phases
<1>9. CASE HTTPEnds
  BY <1>9 DEF HTTPEnds, Phases
<1>10. CASE StopAtExit
  BY <1>10 DEF StopAtExit, Stop, Phases
<1>11. CASE WorkerEnds
  BY <1>11 DEF WorkerEnds, Phases
<1>12. CASE Exit
  BY <1>12 DEF Exit, Phases
<1>13. CASE UNCHANGED vars
  BY <1>13 DEF vars
<1> QED
  BY <1>1, <1>2, <1>3, <1>4, <1>5, <1>6, <1>7, <1>8, <1>9, <1>10, <1>11, <1>12, <1>13
     DEF Next, Controller, Main, Gone

\* The invariant holds in every reachable state of the process.
LEMMA Invariance == Spec => []Inv
BY InitInv, NextInv, PTL DEF Spec

\* Every variable keeps its type, and the pool its limit.
THEOREM TypeCorrect == Spec => []TypeOK
BY Invariance, PTL DEF Inv

\* Whatever the order of Start, Stop and a run's own end, the controller holds
\* the cancel function of the run that is active, and there is one such run.
THEOREM RunsStayInReach == Spec => []EveryRunCanBeStopped
<1>1. Inv => EveryRunCanBeStopped
  BY DEF Inv, ControllerInv, EveryRunCanBeStopped
<1> QED
  BY <1>1, Invariance, PTL

\* An orderly exit of either command leaves no request on the wire.
THEOREM ExitLeavesNoCall == Spec => []NoCallAtExit
<1>1. Inv => NoCallAtExit
  BY DEF Inv, ConnInv, NoCallAtExit, InPermit
<1> QED
  BY <1>1, Invariance, PTL

\* The worker command closes its pool after all goroutines have ended.
THEOREM PoolIsClosedLast == Spec => []WorkerClosesPoolLast
<1>1. Inv => WorkerClosesPoolLast
  BY DEF Inv, WorkerInv, WorkerClosesPoolLast
<1> QED
  BY <1>1, Invariance, PTL

\* After the signal, no goroutine of the worker command claims a batch.
THEOREM SignalStopsClaims == Spec => WorkerStopsClaims
<1>1. Inv /\ [Next]_vars => [command = "worker" => NoClaimAfterSignal]_vars
  <2> SUFFICES ASSUME Inv, [Next]_vars, command = "worker", NEW r \in Runs, NEW f \in Firms,
                      phase # "up", at[r][f] = "loop", at'[r][f] = "claimed"
               PROVE  FALSE
    BY DEF NoClaimAfterSignal
  <2>1. r = 1 /\ run[1] = "active" /\ cancelled[1]
    BY DEF Inv, TypeOK, WorkerInv, Phases
  <2>2. PICK s \in Runs, g \in Firms : Goroutine(s, g)
    BY <2>1 DEF Inv, WorkerInv, TypeOK, Next, Controller, Main, Gone, vars, workerVars, Return, Request,
          Start, StartRefused, StopRequested, Cleanup, Signal, HTTPEnds, StopAtExit,
          WorkerEnds, Exit
  <2>3. s = r /\ g = f
    BY <2>2 DEF Inv, TypeOK, Goroutine, Goto, ClaimNextBatch, Sleep, TakeConnection,
          Permitted, Answered, Finish, Record, StaleClaim, Fail, Report
  <2>4. ClaimNextBatch(r, f)
    BY <2>2, <2>3 DEF Inv, TypeOK, Goroutine, Goto, Sleep, TakeConnection,
          Permitted, Answered, Finish, Record, StaleClaim, Fail, Report
  <2> QED
    BY <2>1, <2>4 DEF ClaimNextBatch, CanQuery
<1> QED
  BY <1>1, Invariance, PTL DEF Spec, WorkerStopsClaims
=============================================================================
