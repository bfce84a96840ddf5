------------------------------ MODULE RateGate ------------------------------
(***************************************************************************)
(* The call permit of one firm (postgres/internal/store/rate.go) on a      *)
(* discrete clock: an advisory session lock that serialises the firm's     *)
(* callers, and the rate_gates row that outlives them.  A caller that      *)
(* finishes leaves a short spacing; one that vanishes, or finishes without *)
(* knowing the outcome, leaves the long crash fence.                       *)
(*                                                                         *)
(* One time unit stands for the largest common divisor of the code's       *)
(* durations (100 ms); configurations scale the durations down and keep    *)
(* the relations among them that the assumptions state.                    *)
(***************************************************************************)
EXTENDS Integers, FiniteSets

CONSTANTS
    Workers,      \* callers of the firm, in any process
    NoWorker,
    Spacing,      \* minimumCallSpacing, 3.1 s
    Fence,        \* crashFenceDuration, 60 s
    CallTime,     \* from permit to the last byte sent or received, 10 s
    LockTimeout,  \* lock_timeout of every connection, 10 s
    Margin,       \* persistence margin of the lease check, 5 s
    Lease,        \* WORKER_LEASE_DURATION
    Window,       \* the receiver's rolling window, 60 s
    Budget        \* calls it allows in one, 20

ASSUME WorkersAreNotNull == NoWorker \notin Workers

ASSUME Durations ==
    /\ Spacing \in Nat \ {0}
    /\ Fence \in Nat /\ CallTime \in Nat /\ LockTimeout \in Nat
    /\ Margin \in Nat /\ Lease \in Nat
    /\ Window \in Nat /\ Budget \in Nat
    /\ Spacing + CallTime <= Fence
    /\ Spacing <= Window

VARIABLES
    now,         \* clock_timestamp()
    nextCallAt,  \* rate_gates.next_call_at
    fenceUntil,  \* rate_gates.crash_fence_until, 0 for '-infinity'
    lock,        \* session holding pg_advisory_lock(firm), or NoWorker
    pc,          \* where each caller is
    since,       \* when it got there
    readyAt,     \* the allowedAt it read, for its local timer
    claimedAt,   \* when its batch claim began its lease
    sends        \* times at which recent requests left for the receiver

gateVars == <<nextCallAt, fenceUntil>>
callerVars == <<pc, since, readyAt, claimedAt>>
vars == <<now, gateVars, lock, callerVars, sends>>

Steps == {"idle", "queued", "waiting", "permitted", "sent", "recording"}

\* Every variable has its type; the clock never runs behind what it stamped.
TypeOK ==
    /\ now \in Nat
    /\ nextCallAt \in Nat
    /\ fenceUntil \in Nat
    /\ lock \in Workers \cup {NoWorker}
    /\ pc \in [Workers -> Steps]
    /\ since \in [Workers -> Nat]
    /\ readyAt \in [Workers -> Nat]
    /\ claimedAt \in [Workers -> Nat]
    /\ sends \subseteq 0..now

Init ==
    /\ now = 0
    /\ nextCallAt = 0
    /\ fenceUntil = 0
    /\ lock = NoWorker
    /\ pc = [w \in Workers |-> "idle"]
    /\ since = [w \in Workers |-> 0]
    /\ readyAt = [w \in Workers |-> 0]
    /\ claimedAt = [w \in Workers |-> 0]
    /\ sends = {}

Goto(w, step) ==
    /\ pc' = [pc EXCEPT ![w] = step]
    /\ since' = [since EXCEPT ![w] = now]

\* ProcessOne returns and its locals are gone.
Return(w) ==
    /\ pc' = [pc EXCEPT ![w] = "idle"]
    /\ since' = [since EXCEPT ![w] = 0]
    /\ readyAt' = [readyAt EXCEPT ![w] = 0]
    /\ claimedAt' = [claimedAt EXCEPT ![w] = 0]

Release(w) == lock' = IF lock = w THEN NoWorker ELSE lock

Later(s, t) == IF s < t THEN t ELSE s

\* Mutant: the crash fence is written but not read.
AllowedAtNoFence == nextCallAt

\* GREATEST(next_call_at, crash_fence_until, ...)
AllowedAt == Later(nextCallAt, fenceUntil)

-----------------------------------------------------------------------------
\* ClaimNextBatch starts the lease; AcquireCallPermit queues for the lock.
Claim(w) ==
    /\ pc[w] = "idle"
    /\ claimedAt' = [claimedAt EXCEPT ![w] = now]
    /\ Goto(w, "queued")
    /\ UNCHANGED <<now, gateVars, lock, readyAt, sends>>

\* The lock is granted; the first transaction reads the gate.
Lock(w) ==
    /\ pc[w] = "queued"
    /\ lock = NoWorker
    /\ lock' = w
    /\ readyAt' = [readyAt EXCEPT ![w] = AllowedAt]
    /\ Goto(w, "waiting")
    /\ UNCHANGED <<now, gateVars, claimedAt, sends>>

\* Mutant: no crash fence before I/O.
PermitWithoutFence(w) ==
    /\ pc[w] = "waiting"
    /\ now >= readyAt[w]
    /\ lock = w
    /\ Goto(w, "permitted")
    /\ UNCHANGED <<now, gateVars, lock, readyAt, claimedAt, sends>>

\* After the timer, the second transaction, on the session that holds the
\* lock: the logged intent and the crash fence commit together, before I/O.
Permit(w) ==
    /\ pc[w] = "waiting"
    /\ now >= readyAt[w]
    /\ lock = w
    /\ fenceUntil' = now + Fence
    /\ Goto(w, "permitted")
    /\ UNCHANGED <<now, nextCallAt, lock, readyAt, claimedAt, sends>>

\* The one HTTP request of this permit leaves.  The log of requests keeps the
\* ones that a rolling window ending now can still hold.  The time since
\* the permit is kept, as the call's deadline runs from there.
Send(w) ==
    /\ pc[w] = "permitted"
    /\ sends' = {t \in sends : now - t <= Window} \cup {now}
    /\ pc' = [pc EXCEPT ![w] = "sent"]
    /\ UNCHANGED <<now, gateVars, lock, since, readyAt, claimedAt>>

\* Mutants: no spacing after a call; an ambiguous outcome extends the fence
\* that stands instead of starting a new one.
FinishWithoutSpacing(w, ambiguous) ==
    /\ pc[w] = "sent"
    /\ lock = w
    /\ nextCallAt' = now
    /\ fenceUntil' = IF ambiguous THEN now + Fence ELSE 0
    /\ Release(w)
    /\ Goto(w, "recording")
    /\ UNCHANGED <<now, readyAt, claimedAt, sends>>

FinishExtendsFence(w, ambiguous) ==
    /\ pc[w] = "sent"
    /\ lock = w
    /\ nextCallAt' = now + Spacing
    /\ fenceUntil' = IF ambiguous THEN fenceUntil + Fence ELSE 0
    /\ Release(w)
    /\ Goto(w, "recording")
    /\ UNCHANGED <<now, readyAt, claimedAt, sends>>

\* Finish: completion, spacing and fence in one transaction on the permit's
\* session, then the lock is released.
Finish(w, ambiguous) ==
    /\ pc[w] = "sent"
    /\ lock = w
    /\ nextCallAt' = now + Spacing
    /\ fenceUntil' = IF ambiguous THEN now + Fence ELSE 0
    /\ Release(w)
    /\ Goto(w, "recording")
    /\ UNCHANGED <<now, readyAt, claimedAt, sends>>

\* The lifecycle call that needs the lease is made.
Record(w) ==
    /\ pc[w] = "recording"
    /\ Return(w)
    /\ UNCHANGED <<now, gateVars, lock, sends>>

\* Anything that ends ProcessOne early: lock timeout, cancellation, a crash, a
\* failed transaction, Close without Finish.  The gate row stays as it is.
Abandon(w) ==
    /\ pc[w] # "idle"
    /\ Release(w)
    /\ Return(w)
    /\ UNCHANGED <<now, gateVars, sends>>

\* The server ends the session of a live caller: its lock is gone, it does not
\* know, and its next statement on that session fails (Abandon).
SessionLost(w) ==
    /\ lock = w
    /\ lock' = NoWorker
    /\ UNCHANGED <<now, gateVars, callerVars, sends>>

\* Until when a caller can stay at its step.
Deadline(w) ==
    CASE pc[w] = "queued" -> since[w] + LockTimeout
      [] pc[w] = "waiting" -> Later(since[w], readyAt[w])
      [] pc[w] \in {"permitted", "sent"} -> since[w] + CallTime
      [] pc[w] = "recording" -> since[w] + Margin
      [] OTHER -> now + 1

Tick ==
    /\ \A w \in Workers : now < Deadline(w)
    /\ now' = now + 1
    /\ UNCHANGED <<gateVars, lock, callerVars, sends>>

Step(w) ==
    \/ Claim(w)
    \/ Lock(w)
    \/ Permit(w)
    \/ Send(w)
    \/ \E ambiguous \in BOOLEAN : Finish(w, ambiguous)
    \/ Record(w)
    \/ Abandon(w)
    \/ SessionLost(w)

Next == Tick \/ \E w \in Workers : Step(w)

Spec == Init /\ [][Next]_vars

-----------------------------------------------------------------------------
\* A caller that may have a request on the wire.
InCall(w) == pc[w] \in {"permitted", "sent"}

\* Two callers of a firm never have a call at the same time, even when the
\* first one's session, and so its lock, is lost under it: the fence it wrote
\* before I/O holds the second one back (AcquireCallPermit).
OneCallAtATime ==
    \A v, w \in Workers : InCall(v) /\ InCall(w) => v = w

\* A request leaves only when the spacing has passed since every earlier one,
\* of any process, finished, crashed or ambiguous (Finish, AcquireCallPermit).
SendsAreSpaced ==
    [][\A w \in Workers :
         pc[w] = "permitted" /\ pc'[w] = "sent" =>
            \A t \in sends : t + Spacing <= now]_vars

\* No rolling window holds more requests than the receiver's budget, windows
\* that span a crash included (20 calls in 60 s from 3.1 s spacing).
BudgetIsKept ==
    Window < Budget * Spacing =>
        Cardinality({t \in sends : now - t <= Window}) <= Budget

\* A lease that also covers the wait for the advisory lock lasts until the
\* worker has recorded its reply (config.Load's check, ClaimNextBatch).
LeaseOutlastsCall ==
    LockTimeout + Fence + CallTime + Margin <= Lease =>
        \A w \in Workers :
            pc[w] \in {"permitted", "sent", "recording"} =>
                now <= claimedAt[w] + Lease

\* service/README.md: a lease that exceeds the fence wait, the HTTP timeout and
\* the persistence margin is long enough.
LeaseCheckSuffices ==
    Fence + CallTime + Margin < Lease =>
        \A w \in Workers :
            pc[w] \in {"permitted", "sent", "recording"} =>
                now <= claimedAt[w] + Lease
=============================================================================
