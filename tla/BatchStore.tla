----------------------------- MODULE BatchStore -----------------------------
(***************************************************************************)
(* The durable half of the filing lifecycle: the submission_batches and    *)
(* filings rows of one firm and the store calls that change them           *)
(* (postgres/internal/store/filing.go).  Every operator below is one       *)
(* committed transaction; a call whose guarded UPDATE matches no row rolls *)
(* back and returns an error (the caller's module says what follows).      *)
(*                                                                         *)
(* Data abstractions.  A batch stands for its immutable identity (UTID,    *)
(* canonical XML, hash).  A claim token is random and a worker works on    *)
(* one claim at a time and forgets it when its process ends, so "the       *)
(* token in the row is the one w holds" is claim[b] = w for a worker that  *)
(* is working on b.  lease_expires_at > clock_timestamp() is the boolean   *)
(* leaseLive[b].  attempt_count is only ever compared with MaxAttempts     *)
(* and saturates there.  next_action_at is not kept: a batch that is not   *)
(* due yet is one that nobody has claimed yet.                             *)
(***************************************************************************)
EXTENDS Integers

CONSTANTS
    Workers,      \* worker goroutines of this firm, one per service process
    Batches,      \* planned batches
    Filings,      \* filings of those batches
    FilingsOf,    \* batch_filings: the immutable, disjoint membership
    Receipts,     \* opaque ReceiptIds the receiver can issue
    NoWorker,     \* claim_token IS NULL
    NoReceipt,    \* receipt_id IS NULL
    MaxAttempts   \* WORKER_MAX_ATTEMPTS

ASSUME BatchesPartitionFilings ==
    /\ FilingsOf \in [Batches -> SUBSET Filings]
    /\ \A b \in Batches : FilingsOf[b] # {}
    /\ \A b, c \in Batches : b # c => FilingsOf[b] \cap FilingsOf[c] = {}

ASSUME NullsAreDistinct ==
    /\ NoWorker \notin Workers
    /\ NoReceipt \notin Receipts

ASSUME MaxAttemptsPositive == MaxAttempts \in Nat \ {0}

VARIABLES
    state,      \* submission_batches.state
    receipt,    \* submission_batches.receipt_id
    claim,      \* holder of submission_batches.claim_token
    leaseLive,  \* lease_expires_at > clock_timestamp()
    attempts,   \* attempt_count, saturating at MaxAttempts
    filing      \* filings.state

storeVars == <<state, receipt, claim, leaseLive, attempts, filing>>

Terminal == {"acknowledged", "invariant_failed"}
Verdicts == {"accepted", "rejected"}
BatchStates == {"planned", "submitting", "submit_unknown", "submitted",
                "awaiting_ack"} \cup Terminal

\* A per-filing acknowledgment for some of the filings.
Outcomes == UNION {[S -> Verdicts] : S \in SUBSET Filings}

StoreTypeOK ==
    /\ state \in [Batches -> BatchStates]
    /\ receipt \in [Batches -> Receipts \cup {NoReceipt}]
    /\ claim \in [Batches -> Workers \cup {NoWorker}]
    /\ leaseLive \in [Batches -> BOOLEAN]
    /\ attempts \in [Batches -> 0..MaxAttempts]
    /\ filing \in [Filings -> {"batched"} \cup Verdicts]

\* What PlanBatches leaves behind: planned batches, their filings batched.
StoreInit ==
    /\ state = [b \in Batches |-> "planned"]
    /\ receipt = [b \in Batches |-> NoReceipt]
    /\ claim = [b \in Batches |-> NoWorker]
    /\ leaseLive = [b \in Batches |-> FALSE]
    /\ attempts = [b \in Batches |-> 0]
    /\ filing = [f \in Filings |-> "batched"]

-----------------------------------------------------------------------------
(* Claiming *)

\* The CASE of the claim's UPDATE: an expired submitting row is ambiguous.
ClaimedState(s) ==
    CASE s = "planned" -> "submitting"
      [] s = "submitting" -> "submit_unknown"
      [] s = "submitted" -> "awaiting_ack"
      [] OTHER -> s

\* The NextAction of a row in its claimed state.
NextAction(s) ==
    CASE s = "submitting" -> "submit"
      [] s = "submit_unknown" -> "lookup_by_utid"
      [] OTHER -> "poll_status"

\* Mutant: an expired lease does not free the row.
ClaimableUnleased(b) == state[b] \notin Terminal /\ claim[b] = NoWorker

Claimable(b) == state[b] \notin Terminal /\ ~leaseLive[b]

\* attempt_count + 1, as far as a comparison with MaxAttempts can tell.
NextAttempt(n) == IF n < MaxAttempts THEN n + 1 ELSE MaxAttempts

ClaimNextBatch(w, b) ==
    /\ Claimable(b)
    /\ state' = [state EXCEPT ![b] = ClaimedState(@)]
    /\ claim' = [claim EXCEPT ![b] = w]
    /\ leaseLive' = [leaseLive EXCEPT ![b] = TRUE]
    /\ attempts' = [attempts EXCEPT ![b] = NextAttempt(@)]
    /\ UNCHANGED <<receipt, filing>>

\* Database time passes lease_expires_at.
ExpireLease(b) ==
    /\ leaseLive[b]
    /\ leaseLive' = [leaseLive EXCEPT ![b] = FALSE]
    /\ UNCHANGED <<state, receipt, claim, attempts, filing>>

-----------------------------------------------------------------------------
(* Recording the outcome of a call *)

\* The batch states in which each store call's guarded UPDATE finds its row.
FromStates(call) ==
    CASE call = "RecordSubmitAccepted" -> {"submitting"}
      [] call = "RecordSubmitUnknown" -> {"submitting"}
      [] call = "RecordReferenceFound" -> {"submit_unknown"}
      [] call = "RecordReferenceNotFound" -> {"submit_unknown"}
      [] call = "RecordAcknowledgmentPending" -> {"submitted", "awaiting_ack"}
      [] call = "RecordStatusUnavailable" -> {"submit_unknown", "awaiting_ack"}
      [] call = "CompleteAcknowledgment" -> {"submitted", "awaiting_ack"}
      [] OTHER -> BatchStates \ Terminal

\* claim_token = $token AND lease_expires_at > clock_timestamp()
LiveClaim(w, b) == claim[b] = w /\ leaseLive[b]

\* Mutant: the lease is checked, the token is not.
RowMatchesAnyToken(call, w, b) == leaseLive[b] /\ state[b] \in FromStates(call)

\* The WHERE clause of every recording UPDATE.
RowMatches(call, w, b) == LiveClaim(w, b) /\ state[b] \in FromStates(call)

\* CompleteAcknowledgment's checks before its batch UPDATE: one outcome for
\* each filing of the batch, none for another, every filing still batched.
OutcomesMatch(b, outcomes) ==
    /\ DOMAIN outcomes = FilingsOf[b]
    /\ \A f \in FilingsOf[b] : filing[f] = "batched"

ReleaseClaim(b) ==
    /\ claim' = [claim EXCEPT ![b] = NoWorker]
    /\ leaseLive' = [leaseLive EXCEPT ![b] = FALSE]
    /\ UNCHANGED attempts

\* receipt_id = CASE WHEN $2 = '' THEN receipt_id ELSE $2 END
eventTransition(call, w, b, newState, r) ==
    /\ RowMatches(call, w, b)
    /\ state' = [state EXCEPT ![b] = newState]
    /\ receipt' = [receipt EXCEPT ![b] = IF r = NoReceipt THEN @ ELSE r]
    /\ ReleaseClaim(b)
    /\ UNCHANGED filing

\* An empty ReceiptId is refused before the transaction begins.
RecordSubmitAccepted(w, b, r) ==
    /\ r # NoReceipt
    /\ eventTransition("RecordSubmitAccepted", w, b, "submitted", r)

\* Mutant: a failed submit is simply planned again.
RecordSubmitUnknownAsPlanned(w, b) ==
    eventTransition("RecordSubmitUnknown", w, b, "planned", NoReceipt)

RecordSubmitUnknown(w, b) ==
    eventTransition("RecordSubmitUnknown", w, b, "submit_unknown", NoReceipt)

\* Mutant: the receipt that the lookup found is dropped.
RecordReferenceFoundNoReceipt(w, b, r) ==
    /\ r # NoReceipt
    /\ eventTransition("RecordReferenceFound", w, b, "submitted", NoReceipt)

RecordReferenceFound(w, b, r) ==
    /\ r # NoReceipt
    /\ eventTransition("RecordReferenceFound", w, b, "submitted", r)

RecordReferenceNotFound(w, b) ==
    eventTransition("RecordReferenceNotFound", w, b, "planned", NoReceipt)

RecordAcknowledgmentPending(w, b) ==
    eventTransition("RecordAcknowledgmentPending", w, b, "awaiting_ack", NoReceipt)

\* Mutant: stores the failure's name as the state.
RecordStatusUnavailableNamed(w, b) ==
    /\ RowMatches("RecordStatusUnavailable", w, b)
    /\ state' = [state EXCEPT ![b] = "status_unavailable"]
    /\ ReleaseClaim(b)
    /\ UNCHANGED <<receipt, filing>>

\* Keeps the state: a failed status call is retried as the same status call.
RecordStatusUnavailable(w, b) ==
    /\ RowMatches("RecordStatusUnavailable", w, b)
    /\ ReleaseClaim(b)
    /\ UNCHANGED <<state, receipt, filing>>

\* Mutants: every filing is marked accepted; only accepted filings are updated;
\* the filings are updated although the batch's claim is lost.
CompleteAllAccepted(w, b, outcomes) ==
    /\ OutcomesMatch(b, outcomes)
    /\ RowMatches("CompleteAcknowledgment", w, b)
    /\ filing' = [f \in Filings |->
                    IF f \in FilingsOf[b] THEN "accepted" ELSE filing[f]]
    /\ state' = [state EXCEPT ![b] = "acknowledged"]
    /\ ReleaseClaim(b)
    /\ UNCHANGED receipt

CompleteAcceptedOnly(w, b, outcomes) ==
    /\ OutcomesMatch(b, outcomes)
    /\ RowMatches("CompleteAcknowledgment", w, b)
    /\ filing' = [f \in Filings |->
                    IF f \in FilingsOf[b] /\ outcomes[f] = "accepted"
                      THEN "accepted" ELSE filing[f]]
    /\ state' = [state EXCEPT ![b] = "acknowledged"]
    /\ ReleaseClaim(b)
    /\ UNCHANGED receipt

CompleteWithoutRollback(w, b, outcomes) ==
    /\ OutcomesMatch(b, outcomes)
    /\ filing' = [f \in Filings |->
                    IF f \in FilingsOf[b] THEN outcomes[f] ELSE filing[f]]
    /\ \/ /\ RowMatches("CompleteAcknowledgment", w, b)
          /\ state' = [state EXCEPT ![b] = "acknowledged"]
          /\ ReleaseClaim(b)
       \/ /\ ~RowMatches("CompleteAcknowledgment", w, b)
          /\ UNCHANGED <<state, claim, leaseLive, attempts>>
    /\ UNCHANGED receipt

\* Every filing's result and the batch's last transition in one transaction.
CompleteAcknowledgment(w, b, outcomes) ==
    /\ OutcomesMatch(b, outcomes)
    /\ RowMatches("CompleteAcknowledgment", w, b)
    /\ filing' = [f \in Filings |->
                    IF f \in FilingsOf[b] THEN outcomes[f] ELSE filing[f]]
    /\ state' = [state EXCEPT ![b] = "acknowledged"]
    /\ ReleaseClaim(b)
    /\ UNCHANGED receipt

\* RecordRetryExhausted and FailBatchInvariant differ only in
\* retry_exhausted_at, which no operation reads.
terminalTransition(w, b) ==
    /\ RowMatches("terminalTransition", w, b)
    /\ state' = [state EXCEPT ![b] = "invariant_failed"]
    /\ ReleaseClaim(b)
    /\ UNCHANGED <<receipt, filing>>
=============================================================================
