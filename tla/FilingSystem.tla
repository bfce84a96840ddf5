---------------------------- MODULE FilingSystem ----------------------------
(***************************************************************************)
(* The transmission path of one firm: worker goroutines                    *)
(* (service/internal/filing/worker.go) that claim batches from the store,  *)
(* call the receiver one at a time under the firm's call permit, and       *)
(* record what they learned; processes that stop anywhere; leases that     *)
(* expire under a worker that is merely slow; requests that reach the      *)
(* receiver after their sender gave up.                                    *)
(***************************************************************************)
EXTENDS IrsStub

CONSTANTS
    Faults,            \* which failures of a call the environment produces
    LeaseCoversCalls,  \* a lease expires only once its worker is gone
    FenceDrainsNetwork \* no request outlives the 60 s fence of its batch

ASSUME FaultsAreKnown == Faults \subseteq {"unavailable", "refused", "incomplete"}
ASSUME TimingIsBoolean ==
    LeaseCoversCalls \in BOOLEAN /\ FenceDrainsNetwork \in BOOLEAN

VARIABLES
    pc,       \* where each worker is in ProcessOne
    work,     \* its BatchWork
    reply,    \* the decoded result of its IRS call
    permit,   \* the holder of the firm's advisory lock, or NoWorker
    orphans   \* batches with a submit request nobody waits for any more

workerVars == <<pc, work, reply>>
vars == <<storeVars, stubVars, workerVars, permit, orphans>>

Actions == {"submit", "lookup_by_utid", "poll_status"}
Steps == {"idle", "claimed", "calling", "answered", "finished", "stopped"}

\* BatchWork as ClaimNextBatch returned it; its copy of the row grows stale.
BatchWork == [batch : Batches, action : Actions, attempt : 0..MaxAttempts,
              receipt : Receipts \cup {NoReceipt}]
NoWork == [batch |-> NoBatch, action |-> "submit", attempt |-> 0,
           receipt |-> NoReceipt]

\* Every variable has its declared shape (the enums and nullable columns of
\* submission_batches and filings, the stub's maps, a worker's locals).
TypeOK ==
    /\ StoreTypeOK
    /\ StubTypeOK
    /\ pc \in [Workers -> Steps]
    /\ work \in [Workers -> BatchWork \cup {NoWork}]
    /\ \A w \in Workers : pc[w] \in Steps \ {"idle", "stopped"} => work[w] # NoWork
    /\ reply \in [Workers -> Replies]
    /\ permit \in Workers \cup {NoWorker}
    /\ orphans \subseteq Batches

Init ==
    /\ StoreInit
    /\ StubInit
    /\ pc = [w \in Workers |-> "idle"]
    /\ work = [w \in Workers |-> NoWork]
    /\ reply = [w \in Workers |-> Bare("none")]
    /\ permit = NoWorker
    /\ orphans = {}

Goto(w, step) == pc' = [pc EXCEPT ![w] = step]
BatchOf(w) == work[w].batch
\* The worker's locals when ProcessOne has returned.
Forget(w) ==
    /\ work' = [work EXCEPT ![w] = NoWork]
    /\ reply' = [reply EXCEPT ![w] = Bare("none")]

-----------------------------------------------------------------------------
(* One pass of ProcessOne *)

Claim(w, b) ==
    /\ pc[w] = "idle"
    /\ ClaimNextBatch(w, b)
    /\ work' = [work EXCEPT ![w] =
            [batch |-> b, action |-> NextAction(state'[b]),
             attempt |-> attempts'[b], receipt |-> receipt[b]]]
    /\ Goto(w, "claimed")
    /\ UNCHANGED <<stubVars, reply, permit, orphans>>

\* The permit is granted once the advisory lock is free and the gate's wait is
\* over; the HTTP request is on its way from here on.  RateGate has the clock.
AcquireCallPermit(w) ==
    /\ pc[w] = "claimed"
    /\ permit = NoWorker
    /\ FenceDrainsNetwork => BatchOf(w) \notin orphans
    /\ permit' = w
    /\ Goto(w, "calling")
    /\ UNCHANGED <<storeVars, stubVars, work, reply, orphans>>

\* lock_timeout on the advisory lock: an error that ends Run.
AcquireTimesOut(w) ==
    /\ pc[w] = "claimed"
    /\ permit # NoWorker
    /\ Goto(w, "stopped")
    /\ Forget(w)
    /\ UNCHANGED <<storeVars, stubVars, permit, orphans>>

Answer(w, answer) ==
    /\ reply' = [reply EXCEPT ![w] = answer]
    /\ Goto(w, "answered")
    /\ UNCHANGED <<storeVars, work, permit>>

\* irs.Submit: the stub handles the request and its answer gets back.
Submit(w) ==
    /\ pc[w] = "calling"
    /\ work[w].action = "submit"
    /\ \E answer \in IntakeReplies :
         handleIntake(BatchOf(w), answer) /\ Answer(w, answer)
    /\ UNCHANGED orphans

\* A poll searches by ReceiptId; a lookup, or a poll without one, by UTID.
SearchesUTID(w) == work[w].action = "lookup_by_utid" \/ work[w].receipt = NoReceipt

\* irs.Status
Status(w) ==
    /\ pc[w] = "calling"
    /\ work[w].action # "submit"
    /\ \E answer \in handleStatus(IF SearchesUTID(w)
                                    THEN findByUTID(BatchOf(w))
                                    ELSE findByReceiptID(work[w].receipt)) :
         Answer(w, answer)
    /\ UNCHANGED <<stubVars, orphans>>

\* A completed status reply that lacks some of the batch's results.
StatusIncomplete(w) ==
    /\ "incomplete" \in Faults
    /\ pc[w] = "calling"
    /\ work[w].action # "submit"
    /\ \E s \in findByReceiptID(work[w].receipt), lost \in FilingsOf[BatchOf(w)] :
         /\ s.batch \in acked
         /\ Answer(w, [StatusOf(s) EXCEPT !.outcomes =
                [f \in DOMAIN s.results \ {lost} |-> s.results[f]]])
    /\ UNCHANGED <<stubVars, orphans>>

\* The call ends without the stub's answer: timeout, connection loss, a 429 or
\* 5xx on the way (unavailable); an undecodable body, 400, 401, 415 (refused).
\* A submit request may still reach the stub, or have reached it.
CallFails(w) ==
    /\ pc[w] = "calling"
    /\ \E kind \in Faults \ {"incomplete"} : Answer(w, Bare(kind))
    /\ orphans' \in {orphans} \cup
          (IF work[w].action = "submit" THEN {orphans \cup {BatchOf(w)}} ELSE {})
    /\ UNCHANGED stubVars

\* permit.Finish commits the call's completion and releases the lock before
\* the lifecycle call is made.
Finish(w) ==
    /\ pc[w] = "answered"
    /\ permit' = NoWorker
    /\ Goto(w, "finished")
    /\ UNCHANGED <<storeVars, stubVars, work, reply, orphans>>

\* Mutants: the budget ends one attempt early; it never ends.
ExhaustedEarly(w) == work[w].attempt + 1 >= MaxAttempts
NeverExhausted(w) == MaxAttempts = 0

\* backoff.Delay(attempt) reports that no retry is left.
Exhausted(w) == work[w].attempt >= MaxAttempts

\* result.UTID # work.UTID or the receipts differ
IdentityMismatch(w) ==
    \/ reply[w].utid # BatchOf(w)
    \/ work[w].receipt # NoReceipt /\ reply[w].receipt # work[w].receipt

\* The lifecycle call that worker.submit makes for its reply.
SubmitCall(w) ==
    CASE reply[w].kind = "receipt" -> "RecordSubmitAccepted"
      [] reply[w].kind \in {"duplicate_utid", "unavailable"} ->
            IF Exhausted(w) THEN "terminalTransition" ELSE "RecordSubmitUnknown"
      [] OTHER -> "terminalTransition"

\* The lifecycle call that worker.status makes for its reply.
StatusCall(w) ==
    CASE reply[w].kind = "unavailable" ->
            IF Exhausted(w) THEN "terminalTransition" ELSE "RecordStatusUnavailable"
      [] reply[w].kind = "not_found" ->
            IF SearchesUTID(w) THEN "RecordReferenceNotFound" ELSE "terminalTransition"
      [] reply[w].kind \in {"processing", "results"} /\ ~IdentityMismatch(w) ->
            IF SearchesUTID(w) THEN "RecordReferenceFound"
            ELSE IF reply[w].kind = "processing" THEN "RecordAcknowledgmentPending"
            ELSE "CompleteAcknowledgment"
      [] OTHER -> "terminalTransition"

LifecycleCall(w) ==
    IF work[w].action = "submit" THEN SubmitCall(w) ELSE StatusCall(w)

\* The store's part of the worker's lifecycle call.
Apply(w) ==
    LET b == BatchOf(w)
        call == LifecycleCall(w)
    IN  \/ call = "RecordSubmitAccepted" /\ RecordSubmitAccepted(w, b, reply[w].receipt)
        \/ call = "RecordSubmitUnknown" /\ RecordSubmitUnknown(w, b)
        \/ call = "RecordReferenceFound" /\ RecordReferenceFound(w, b, reply[w].receipt)
        \/ call = "RecordReferenceNotFound" /\ RecordReferenceNotFound(w, b)
        \/ call = "RecordAcknowledgmentPending" /\ RecordAcknowledgmentPending(w, b)
        \/ call = "RecordStatusUnavailable" /\ RecordStatusUnavailable(w, b)
        \/ call = "CompleteAcknowledgment" /\ CompleteAcknowledgment(w, b, reply[w].outcomes)
        \/ call = "terminalTransition" /\ terminalTransition(w, b)

\* The lifecycle call commits and Run's loop continues.
Record(w) ==
    /\ pc[w] = "finished"
    /\ Apply(w)
    /\ Goto(w, "idle")
    /\ Forget(w)
    /\ UNCHANGED <<stubVars, permit, orphans>>

\* The lifecycle call returns ErrStaleClaim, ErrInvalidTransition or
\* ErrInvariant: nothing is committed and the error ends Run.
Refused(w) ==
    \/ ~RowMatches(LifecycleCall(w), w, BatchOf(w))
    \/ /\ LifecycleCall(w) = "CompleteAcknowledgment"
       /\ ~OutcomesMatch(BatchOf(w), reply[w].outcomes)

RecordFails(w) ==
    /\ pc[w] = "finished"
    /\ Refused(w)
    /\ Goto(w, "stopped")
    /\ Forget(w)
    /\ UNCHANGED <<storeVars, stubVars, permit, orphans>>

-----------------------------------------------------------------------------
(* The environment *)

\* The process is killed, cancelled or loses its database: its session and
\* with it the advisory lock are gone, its request may not be.
Halt(w) ==
    /\ pc[w] # "stopped"
    /\ Goto(w, "stopped")
    /\ Forget(w)
    /\ permit' = IF permit = w THEN NoWorker ELSE permit
    /\ orphans' = IF pc[w] = "calling" /\ work[w].action = "submit"
                    THEN orphans \cup {BatchOf(w)} ELSE orphans
    /\ UNCHANGED <<storeVars, stubVars>>

Restart(w) ==
    /\ pc[w] = "stopped"
    /\ Goto(w, "idle")
    /\ UNCHANGED <<storeVars, stubVars, work, reply, permit, orphans>>

LeaseExpires(b) ==
    /\ LeaseCoversCalls =>
         \A w \in Workers : claim[b] = w => BatchOf(w) # b
    /\ ExpireLease(b)
    /\ UNCHANGED <<stubVars, workerVars, permit, orphans>>

\* A request without a waiting sender reaches the stub and nobody reads the
\* answer; failBeforeRecord also stands for a request that is lost.
DeliverOrphan(b) ==
    /\ b \in orphans
    /\ orphans' = orphans \ {b}
    /\ \E answer \in IntakeReplies : handleIntake(b, answer)
    /\ UNCHANGED <<storeVars, workerVars, permit>>

Acknowledge(b) ==
    /\ AcknowledgmentAvailable(b)
    /\ UNCHANGED <<storeVars, workerVars, permit, orphans>>

-----------------------------------------------------------------------------
Step(w) ==
    \/ \E b \in Batches : Claim(w, b)
    \/ AcquireCallPermit(w)
    \/ AcquireTimesOut(w)
    \/ Submit(w)
    \/ Status(w)
    \/ StatusIncomplete(w)
    \/ CallFails(w)
    \/ Finish(w)
    \/ Record(w)
    \/ RecordFails(w)
    \/ Halt(w)
    \/ Restart(w)

Environment(b) ==
    \/ LeaseExpires(b)
    \/ DeliverOrphan(b)
    \/ Acknowledge(b)

Next == (\E w \in Workers : Step(w)) \/ (\E b \in Batches : Environment(b))

Spec == Init /\ [][Next]_vars

-----------------------------------------------------------------------------
(* Safety *)

\* Zero duplicate filings: across crashes, retries, recorded-then-failed calls
\* and late requests, no filing is in two recorded submissions (stub record,
\* worker submit and lookup, INV-17).
NoFilingRecordedTwice ==
    \A s, t \in ledger :
        s # t => FilingsOf[s.batch] \cap FilingsOf[t.batch] = {}

\* A batch the books hold as submitted, awaiting or acknowledged is on file
\* under exactly the receipt the row keeps; an earlier state keeps none
\* (RecordSubmitAccepted, RecordReferenceFound, receipt_state_ck).
ReceiptIsOnFile ==
    \A b \in Batches :
        /\ receipt[b] # NoReceipt =>
              \E s \in ledger : s.batch = b /\ s.receipt = receipt[b]
        /\ state[b] \in {"submitted", "awaiting_ack", "acknowledged"} =>
              receipt[b] # NoReceipt
        /\ state[b] \in {"planned", "submitting", "submit_unknown"} =>
              receipt[b] = NoReceipt

\* A filing shown accepted or rejected has that result frozen at the receiver,
\* and the receiver has published it (CompleteAcknowledgment, resultFor).
SettledAsAcknowledged ==
    \A b \in Batches : \A f \in FilingsOf[b] :
        filing[f] # "batched" =>
            /\ b \in acked
            /\ \E s \in ledger : s.batch = b /\ s.results[f] = filing[f]

\* A batch is acknowledged exactly when all of its filings have results, and
\* no filing has one before (CompleteAcknowledgment is one transaction, also
\* when a result set is incomplete or the claim was lost).
AllOrNothing ==
    \A b \in Batches : \A f \in FilingsOf[b] :
        (state[b] = "acknowledged") <=> (filing[f] # "batched")

\* When leases cover calls and the fence outlasts stray requests, a submit is
\* only ever in progress for a batch the receiver does not hold: a submit with
\* unknown outcome is looked up first (INV-11), and the receiver's 409 is a
\* second line of defence, not the first.
SubmitOnlyUnfiled ==
    LeaseCoversCalls /\ FenceDrainsNetwork =>
        \A w \in Workers :
            pc[w] \in {"claimed", "calling"} /\ work[w].action = "submit" =>
                /\ findByUTID(BatchOf(w)) = {}
                /\ BatchOf(w) \notin orphans

\* Unless the receiver refuses a request, a batch is given up only after its
\* whole retry budget: an identity mismatch, a NOT_FOUND for a stored receipt
\* and a DUPLICATE_RECORD never happen (worker submit and status).
NoEarlyGiveUp ==
    "refused" \notin Faults =>
        \A b \in Batches : state[b] = "invariant_failed" => attempts[b] = MaxAttempts

(* What a step may never do *)

\* While a claim is live nobody but its holder moves the row, and the holder
\* moves it only when recording a reply: a worker that lost its claim changes
\* nothing (claim token and lease in every WHERE clause).
LiveClaimIsExclusive ==
    [][\A b \in Batches :
         leaseLive[b] /\ state'[b] # state[b] =>
            \E w \in Workers : /\ claim[b] = w
                               /\ pc[w] = "finished"
                               /\ BatchOf(w) = b
                               /\ pc'[w] = "idle"]_vars

\* The store and the receiver together keep FilingContract: every filing goes
\* on file at most once and is settled, with its batch, by what is on file.
Contract == INSTANCE FilingContract WITH
    onFile <- [f \in Filings |->
                 {<<s.receipt, s.results[f]>> :
                    s \in {t \in ledger : f \in FilingsOf[t.batch]}}],
    books <- filing,
    givenUp <- {b \in Batches : state[b] = "invariant_failed"}
ImplementsContract == Contract!Spec

(* Liveness *)

\* A worker that keeps running takes its next step: Run loops until an error,
\* HTTP and lock waits are bounded by timeouts, PostgreSQL queues waiters for
\* the advisory lock in order, and ORDER BY next_action_at lets no due batch
\* be overtaken for ever.  A stopped process is started again and an abandoned
\* lease expires.  Nothing is assumed about crashes, faults or the receiver's
\* acknowledgment.
Fairness ==
    /\ \A b \in Batches : /\ SF_vars(\E w \in Workers : Claim(w, b))
                          /\ WF_vars(LeaseExpires(b))
    /\ \A w \in Workers : /\ SF_vars(AcquireCallPermit(w))
                          /\ WF_vars(Submit(w) \/ Status(w) \/ CallFails(w))
                          /\ WF_vars(Finish(w))
                          /\ WF_vars(Record(w) \/ RecordFails(w))
                          /\ WF_vars(Restart(w))

FairSpec == Spec /\ Fairness

\* From some point on no process is stopped from outside.
EventuallyUndisturbed ==
    <>[][\A w \in Workers : ~(Halt(w) \/ AcquireTimesOut(w))]_vars

\* Once processes stop crashing no batch stays in limbo: each is eventually
\* known to be on file, or handed to a person (bounded retries, UTID lookup
\* of every ambiguous submit).
EveryBatchIsResolved ==
    EventuallyUndisturbed =>
        \A b \in Batches :
            <>[](state[b] \in {"submitted", "awaiting_ack"} \cup Terminal)

\* Once processes stop crashing every published acknowledgment reaches the
\* books, or the batch is handed to a person.
AcknowledgmentsArrive ==
    EventuallyUndisturbed =>
        \A b \in Batches : b \in acked ~> state[b] \in Terminal

(* A statement of the documentation that the code does not keep *)

\* docs/formal-draft-spec.md: a pending acknowledgment remains pollable; when
\* it never arrives, "Continue low-frequency polls".
PendingStaysPollable ==
    [][\A b \in Batches :
         state[b] = "awaiting_ack" /\ b \notin acked =>
            state'[b] # "invariant_failed"]_vars
=============================================================================
