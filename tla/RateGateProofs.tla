--------------------------- MODULE RateGateProofs ---------------------------
(***************************************************************************)
(* For any number of callers and any durations with Spacing + CallTime <=  *)
(* Fence: at most one call at a time, and requests at least Spacing apart. *)
(***************************************************************************)
EXTENDS RateGate, FiniteSetTheorems, TLAPS

\* The gate row and the callers agree.  A caller in a call is within its
\* deadline and its fence stands; a caller that waits with the lock has read
\* the row as it is; every earlier request is Spacing before the time the row
\* allows, and before the permit of a caller that has yet to send.
GateInv ==
    /\ \A w \in Workers : lock = w => pc[w] \in {"waiting", "permitted", "sent"}
    /\ \A w \in Workers : InCall(w) =>
          /\ since[w] <= now
          /\ now <= since[w] + CallTime
          /\ fenceUntil = since[w] + Fence
    /\ \A w \in Workers : pc[w] = "waiting" /\ lock = w => readyAt[w] = AllowedAt
    /\ \A t \in sends : t + Spacing <= AllowedAt
    /\ \A w \in Workers : pc[w] = "permitted" =>
          \A t \in sends : t + Spacing <= since[w]

Inv == TypeOK /\ OneCallAtATime /\ GateInv

\* The initial gate satisfies the invariant: no caller, no request.
LEMMA InitInv == Init => Inv
BY WorkersAreNotNull, Durations
   DEF Init, Inv, TypeOK, OneCallAtATime, GateInv, InCall, Steps, AllowedAt, Later

\* Every step of a caller, and the clock, keeps the invariant.
LEMMA NextInv == Inv /\ [Next]_vars => Inv'
<1> SUFFICES ASSUME Inv, [Next]_vars PROVE Inv'
  OBVIOUS
<1> USE Durations, WorkersAreNotNull
<1> USE DEF Inv, TypeOK, OneCallAtATime, GateInv, InCall, Steps, AllowedAt, Later
<1>1. ASSUME NEW w \in Workers, Claim(w) PROVE Inv'
  BY <1>1 DEF Claim, Goto, gateVars
<1>2. ASSUME NEW w \in Workers, Lock(w) PROVE Inv'
  BY <1>2 DEF Lock, Goto, gateVars
<1>3. ASSUME NEW w \in Workers, Permit(w) PROVE Inv'
  BY <1>3 DEF Permit, Goto
<1>4. ASSUME NEW w \in Workers, Send(w) PROVE Inv'
  <2> USE <1>4 DEF Send, gateVars
  <2>1. TypeOK'
    <3>1. now \in 0..now /\ now' = now
      OBVIOUS
    <3>2. sends' \subseteq 0..now'
      BY <3>1, Zenon
    <3>3. pc' \in [Workers -> Steps]
      OBVIOUS
    <3> QED
      BY <3>2, <3>3
  <2>2. \A v \in Workers : pc'[v] \in {"permitted", "sent"} => v = w
    OBVIOUS
  <2>3. \A t \in sends' : t + Spacing <= AllowedAt'
    <3>1. now + Spacing <= fenceUntil
      OBVIOUS
    <3>2. AllowedAt' = AllowedAt /\ fenceUntil <= AllowedAt
      OBVIOUS
    <3>3. sends' \subseteq sends \cup {now} /\ AllowedAt \in Nat /\ sends \subseteq Nat
      OBVIOUS
    <3> HIDE DEF AllowedAt, Later
    <3> QED
      BY <3>1, <3>2, <3>3
  <2>4. pc' = [pc EXCEPT ![w] = "sent"] /\ UNCHANGED <<lock, since, readyAt, now, fenceUntil, nextCallAt>>
    OBVIOUS
  <2>5. OneCallAtATime'
    BY <2>2
  <2>6. GateInv'
    BY <2>1, <2>2, <2>3, <2>4
  <2> QED
    BY <2>1, <2>5, <2>6
<1>5. ASSUME NEW w \in Workers, NEW a \in BOOLEAN, Finish(w, a) PROVE Inv'
  BY <1>5 DEF Finish, Goto, Release
<1>6. ASSUME NEW w \in Workers, Record(w) PROVE Inv'
  BY <1>6 DEF Record, Return, gateVars
<1>7. ASSUME NEW w \in Workers, Abandon(w) PROVE Inv'
  BY <1>7 DEF Abandon, Return, Release, gateVars
<1>8. ASSUME NEW w \in Workers, SessionLost(w) PROVE Inv'
  BY <1>8 DEF SessionLost, gateVars, callerVars
<1>9. CASE Tick
  BY <1>9 DEF Tick, Deadline, gateVars, callerVars
<1>10. CASE UNCHANGED vars
  BY <1>10 DEF vars, gateVars, callerVars
<1> QED
  BY <1>1, <1>2, <1>3, <1>4, <1>5, <1>6, <1>7, <1>8, <1>9, <1>10 DEF Next, Step

\* The invariant holds in every reachable state of the gate.
LEMMA Invariance == Spec => []Inv
BY InitInv, NextInv, PTL DEF Spec

\* Every variable of the gate keeps its type.
THEOREM TypeCorrect == Spec => []TypeOK
<1>1. Inv => TypeOK
  BY DEF Inv
<1> QED
  BY <1>1, Invariance, PTL

\* The firm's callers never overlap in a call, whatever sessions are lost.
THEOREM CallsAreSerial == Spec => []OneCallAtATime
<1>1. Inv => OneCallAtATime
  BY DEF Inv
<1> QED
  BY <1>1, Invariance, PTL

\* Every request leaves at least Spacing after every earlier one, whatever
\* crashes, ambiguous outcomes and lost sessions come between.
THEOREM CallsAreSpaced == Spec => SendsAreSpaced
<1>1. Inv => \A w \in Workers : pc[w] = "permitted" =>
                \A t \in sends : t + Spacing <= now
  <2> SUFFICES ASSUME Inv, NEW w \in Workers, pc[w] = "permitted", NEW t \in sends
               PROVE  t + Spacing <= now
    OBVIOUS
  <2>1. since[w] <= now /\ t + Spacing <= since[w]
    BY DEF Inv, GateInv, InCall
  <2>2. t \in Nat /\ since[w] \in Nat /\ now \in Nat /\ Spacing \in Nat
    BY Durations DEF Inv, TypeOK
  <2> QED
    BY <2>1, <2>2
<1>2. Inv /\ [Next]_vars =>
        [\A w \in Workers : pc[w] = "permitted" /\ pc'[w] = "sent" =>
            \A t \in sends : t + Spacing <= now]_vars
  BY <1>1
<1> QED
  BY <1>2, Invariance, PTL DEF Spec, SendsAreSpaced

-----------------------------------------------------------------------------
(* The lease.  The gate never asks for more than a fence of waiting, so the  *)
(* age of a claim is bounded at every step of its caller.                    *)

\* The latest age of the claim at the end of each step.
Waited == LockTimeout + Fence
LeaseInv ==
    /\ nextCallAt <= now + Fence /\ fenceUntil <= now + Fence
    /\ \A w \in Workers : pc[w] # "idle" => claimedAt[w] <= since[w] /\ since[w] <= now
    /\ \A w \in Workers : pc[w] = "queued" =>
          since[w] = claimedAt[w] /\ now <= claimedAt[w] + LockTimeout
    /\ \A w \in Workers : pc[w] = "waiting" =>
          /\ since[w] <= claimedAt[w] + LockTimeout
          /\ readyAt[w] <= since[w] + Fence
          /\ now <= claimedAt[w] + Waited
    /\ \A w \in Workers : InCall(w) =>
          /\ since[w] <= claimedAt[w] + Waited
          /\ now <= since[w] + CallTime
    /\ \A w \in Workers : pc[w] = "recording" =>
          /\ since[w] <= claimedAt[w] + Waited + CallTime
          /\ now <= since[w] + Margin

\* Nobody has a claim, and the gate is open.
LEMMA InitLease == Init => LeaseInv
BY Durations DEF Init, LeaseInv, InCall

\* Every step keeps the ages within their bounds.
LEMMA NextLease == Inv /\ LeaseInv /\ [Next]_vars => LeaseInv'
<1> SUFFICES ASSUME TypeOK, LeaseInv, [Next]_vars PROVE LeaseInv'
  BY DEF Inv
<1> USE Durations, WorkersAreNotNull
<1> USE DEF TypeOK, LeaseInv, InCall, Steps, AllowedAt, Later, Waited
<1>1. ASSUME NEW w \in Workers, Claim(w) PROVE LeaseInv'
  BY <1>1 DEF Claim, Goto, gateVars
<1>2. ASSUME NEW w \in Workers, Lock(w) PROVE LeaseInv'
  BY <1>2 DEF Lock, Goto, gateVars
<1>3. ASSUME NEW w \in Workers, Permit(w) PROVE LeaseInv'
  BY <1>3 DEF Permit, Goto
<1>4. ASSUME NEW w \in Workers, Send(w) PROVE LeaseInv'
  BY <1>4 DEF Send, gateVars
<1>5. ASSUME NEW w \in Workers, NEW a \in BOOLEAN, Finish(w, a) PROVE LeaseInv'
  BY <1>5 DEF Finish, Goto
<1>6. ASSUME NEW w \in Workers, Record(w) \/ Abandon(w) PROVE LeaseInv'
  BY <1>6 DEF Record, Abandon, Return, gateVars
<1>7. ASSUME NEW w \in Workers, SessionLost(w) PROVE LeaseInv'
  BY <1>7 DEF SessionLost, gateVars, callerVars
<1>8. CASE Tick
  BY <1>8 DEF Tick, Deadline, gateVars, callerVars
<1>9. CASE UNCHANGED vars
  BY <1>9 DEF vars, gateVars, callerVars
<1> QED
  BY <1>1, <1>2, <1>3, <1>4, <1>5, <1>6, <1>7, <1>8, <1>9 DEF Next, Step

\* A lease of lock wait, fence, call and margin outlasts every recording.
THEOREM LeasesOutlastCalls == Spec => []LeaseOutlastsCall
<1>1. TypeOK /\ LeaseInv => LeaseOutlastsCall
  BY Durations DEF TypeOK, LeaseInv, LeaseOutlastsCall, InCall, Waited, Steps
<1> QED
  BY <1>1, Invariance, InitLease, NextLease, PTL DEF Spec, Inv

-----------------------------------------------------------------------------
(* The budget.  Requests that are Spacing apart fall into different slots of *)
(* that length, counted back from the present, and a window of fewer than    *)
(* Budget * Spacing has at most Budget of them.                              *)

\* The number of the slot, counted back from now, that time t is in.
Slot(t) == (now - t) \div Spacing

\* A slot is a multiple of the spacing.
LEMMA SlotBounds ==
    ASSUME NEW d \in Nat
    PROVE  /\ d \div Spacing \in Nat
           /\ Spacing * (d \div Spacing) <= d
           /\ d < Spacing * (d \div Spacing) + Spacing
BY Durations

\* Earlier than the end of slot n is in a slot below n.
LEMMA SlotBelow ==
    ASSUME NEW k \in Nat, NEW n \in Nat, Spacing * k < n * Spacing
    PROVE  k < n
<1> SUFFICES ASSUME k >= n PROVE FALSE
  OBVIOUS
<1>1. PICK d \in Nat : k = n + d
  <2> k - n \in Nat /\ k = n + (k - n)
    OBVIOUS
  <2> QED
    OBVIOUS
<1>2. Spacing * k = n * Spacing + Spacing * d /\ Spacing * d >= 0
  BY <1>1, Durations
<1> QED
  BY <1>2, Durations

\* Points of time that are pairwise Spacing apart and in the window before now
\* are at most as many as the budget.
LEMMA SpacedAreFew ==
    ASSUME Window < Budget * Spacing, now \in Nat, NEW S \in SUBSET (0..now),
           \A t \in S : now - t <= Window,
           \A t, u \in S : t < u => t + Spacing <= u
    PROVE  Cardinality(S) <= Budget
<1> DEFINE slots == 0..(Budget - 1)
           slotOf == [t \in S |-> Slot(t)]
<1>1. \A t \in S : /\ now - t \in Nat /\ Slot(t) \in Nat /\ Spacing * Slot(t) <= now - t
                   /\ now - t < Spacing * Slot(t) + Spacing
  BY SlotBounds DEF Slot
<1>2. \A t \in S : Slot(t) \in slots
  <2> SUFFICES ASSUME NEW t \in S PROVE Slot(t) < Budget
    BY <1>1, Durations
  <2>1. Spacing * Slot(t) < Budget * Spacing
    <3>1. Spacing * Slot(t) \in Int /\ Budget * Spacing \in Int /\ now - t \in Int /\ Window \in Int
      BY <1>1, Durations
    <3>2. Spacing * Slot(t) <= now - t /\ now - t <= Window
      BY <1>1
    <3> QED
      BY <3>1, <3>2
  <2> QED
    BY <1>1, <2>1, SlotBelow, Durations
<1>3. \A t, u \in S : Slot(t) = Slot(u) => t = u
  <2> SUFFICES ASSUME NEW t \in S, NEW u \in S, Slot(t) = Slot(u), t < u PROVE FALSE
    BY DEF Slot
  <2> DEFINE end == Spacing * Slot(t)
  <2>1. end \in Int /\ now - t < end + Spacing /\ end <= now - u
    BY <1>1, Durations
  <2>2. t + Spacing <= u /\ t \in Int /\ u \in Int /\ Spacing \in Int
    BY Durations
  <2> HIDE DEF end
  <2> QED
    BY <2>1, <2>2
<1>4. slotOf \in Injection(S, slots)
  BY <1>2, <1>3 DEF Injection, IsInjective
<1>5. IsFiniteSet(slots) /\ Cardinality(slots) = Budget
  BY FS_Interval, Durations
<1>6. Cardinality(S) <= Cardinality(slots)
  BY <1>4, <1>5, FS_Injection
<1> QED
  BY <1>5, <1>6

\* The requests on record are pairwise Spacing apart.
SendsApart == \A t, u \in sends : t < u => t + Spacing <= u

\* A request leaves Spacing after every earlier one, so none comes too close.
LEMMA NextApart == Inv /\ SendsApart /\ [Next]_vars => SendsApart'
<1> SUFFICES ASSUME Inv, SendsApart, [Next]_vars PROVE SendsApart'
  OBVIOUS
<1>1. ASSUME NEW w \in Workers, Send(w) PROVE SendsApart'
  <2>1. \A t \in sends : t + Spacing <= now /\ t \in Nat
    <3>1. since[w] <= now /\ since[w] \in Nat /\ now \in Nat /\ Spacing \in Nat
      BY <1>1, Durations DEF Send, Inv, TypeOK, GateInv, InCall
    <3>2. \A t \in sends : t + Spacing <= since[w] /\ t \in Nat
      BY <1>1 DEF Send, Inv, TypeOK, GateInv
    <3> QED
      BY <3>1, <3>2
  <2>2. sends' \subseteq sends \cup {now}
    BY <1>1 DEF Send
  <2>3. now \in Nat /\ Spacing \in Nat
    BY Durations DEF Inv, TypeOK
  <2> QED
    BY <2>1, <2>2, <2>3 DEF SendsApart
<1>2. CASE UNCHANGED sends
  BY <1>2 DEF SendsApart
<1> QED
  BY <1>1, <1>2 DEF Next, Step, Tick, Claim, Lock, Permit, Finish, Record, Abandon, SessionLost, vars

\* No rolling window ever holds more requests than the receiver's budget, for
\* any spacing, window and budget with Window < Budget * Spacing.
THEOREM BudgetIsNeverExceeded == Spec => []BudgetIsKept
<1>1. Init => SendsApart
  BY DEF Init, SendsApart
<1>2. Inv /\ SendsApart => BudgetIsKept
  <2> SUFFICES ASSUME Inv, SendsApart, Window < Budget * Spacing
               PROVE  Cardinality({t \in sends : now - t <= Window}) <= Budget
    BY DEF BudgetIsKept
  <2> DEFINE S == {t \in sends : now - t <= Window}
  <2>1. S \in SUBSET (0..now) /\ now \in Nat
    BY DEF Inv, TypeOK
  <2>2. \A t, u \in S : t < u => t + Spacing <= u
    BY DEF SendsApart
  <2>3. \A t \in S : now - t <= Window
    OBVIOUS
  <2> HIDE DEF S
  <2>4. Cardinality(S) <= Budget
    BY <2>1, <2>2, <2>3, SpacedAreFew
  <2> QED
    BY <2>4 DEF S
<1> QED
  BY <1>1, <1>2, NextApart, Invariance, PTL DEF Spec
=============================================================================
