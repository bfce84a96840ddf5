------------------------- MODULE FilingSystemProofs -------------------------
(***************************************************************************)
(* For any number of workers and batches, any faults and no assumption on  *)
(* timing: nothing is recorded twice, receipts are real, results are the   *)
(* receiver's, a batch settles as a whole, and the system implements       *)
(* FilingContract.  A batch is given up only after its whole retry budget; *)
(* and, once leases cover calls and the fence outlasts stray requests,     *)
(* only an unfiled batch is ever submitted.                                *)
(***************************************************************************)
EXTENDS FilingSystem, TLAPS

-----------------------------------------------------------------------------
(* Values *)

\* A reply without a body is a reply.
LEMMA BareIsReply == \A k \in ReplyKinds : Bare(k) \in Replies
<1>1. NoOutcomes \in [{} -> Verdicts]
  BY DEF NoOutcomes
<1>2. NoOutcomes \in Outcomes
  BY <1>1 DEF Outcomes
<1> QED
  BY <1>2 DEF Bare, Replies

\* The intake endpoint answers with replies.
LEMMA IntakeRepliesAreReplies == IntakeReplies \subseteq Replies
<1>1. \A k \in {"duplicate_utid", "refused", "unavailable"} : Bare(k) \in Replies
  BY BareIsReply DEF ReplyKinds
<1>2. \A r \in Receipts : ReceiptReply(r) \in Replies
  <2> SUFFICES ASSUME NEW r \in Receipts PROVE ReceiptReply(r) \in Replies
    OBVIOUS
  <2>1. NoOutcomes \in Outcomes
    BY BareIsReply DEF Bare, Replies, ReplyKinds
  <2> QED
    BY <2>1 DEF ReceiptReply, Replies, ReplyKinds
<1> QED
  BY <1>1, <1>2 DEF IntakeReplies

\* Part of an acknowledgment is an acknowledgment of fewer filings.
LEMMA PartOfOutcomes ==
    ASSUME NEW o \in Outcomes, NEW S \in SUBSET DOMAIN o
    PROVE  [f \in S |-> o[f]] \in Outcomes
<1>1. PICK D \in SUBSET Filings : o \in [D -> Verdicts]
  BY DEF Outcomes
<1>2. [f \in S |-> o[f]] \in [S -> Verdicts]
  BY <1>1
<1>3. S \in SUBSET Filings
  BY <1>1
<1> QED
  BY <1>2, <1>3 DEF Outcomes

\* The reply to a status request about a recorded submission.
LEMMA StatusIsReply == \A s \in Submissions : StatusOf(s) \in Replies
<1>1. NoOutcomes \in Outcomes
  BY BareIsReply DEF Bare, Replies, ReplyKinds
<1> QED
  BY <1>1 DEF StatusOf, Submissions, Replies, ReplyKinds

-----------------------------------------------------------------------------
(* Types *)

\* The initial rows, maps and locals are well typed.
LEMMA InitTypeOK == Init => TypeOK
<1> SUFFICES ASSUME Init PROVE TypeOK
  OBVIOUS
<1> USE DEF Init
<1>1. StoreTypeOK
  BY MaxAttemptsPositive DEF StoreInit, StoreTypeOK, BatchStates, Terminal, Verdicts
<1>2. StubTypeOK
  BY DEF StubInit, StubTypeOK
<1>3. reply \in [Workers -> Replies]
  BY BareIsReply DEF ReplyKinds
<1> QED
  BY <1>1, <1>2, <1>3 DEF TypeOK, Steps

\* What TypeOK says of the worker's own variables.
WorkerTypeOK ==
    /\ pc \in [Workers -> Steps]
    /\ work \in [Workers -> BatchWork \cup {NoWork}]
    /\ \A w \in Workers : pc[w] \in Steps \ {"idle", "stopped"} => work[w] # NoWork
    /\ reply \in [Workers -> Replies]
    /\ permit \in Workers \cup {NoWorker}
    /\ orphans \subseteq Batches

\* A worker between claim and record holds real work.
LEMMA BusyWorkerHasBatch ==
    ASSUME TypeOK, NEW w \in Workers, pc[w] \in Steps \ {"idle", "stopped"}
    PROVE  work[w] \in BatchWork /\ BatchOf(w) \in Batches
BY DEF TypeOK, BatchWork, BatchOf

\* Claiming a row keeps the store's types.
LEMMA ClaimNextBatchType ==
    ASSUME StoreTypeOK, NEW w \in Workers, NEW b \in Batches, ClaimNextBatch(w, b)
    PROVE  StoreTypeOK'
BY MaxAttemptsPositive
   DEF StoreTypeOK, ClaimNextBatch, ClaimedState, NextAttempt, BatchStates, Terminal

\* Each recorded outcome keeps the store's types.
LEMMA ApplyType ==
    ASSUME StoreTypeOK, NEW w \in Workers, BatchOf(w) \in Batches,
           reply[w] \in Replies, Apply(w)
    PROVE  StoreTypeOK'
<1> USE DEF StoreTypeOK, ReleaseClaim, eventTransition, BatchStates, Terminal
<1>1. reply[w].receipt \in Receipts \cup {NoReceipt}
  BY DEF Replies
<1>2. CASE RecordSubmitAccepted(w, BatchOf(w), reply[w].receipt)
  BY <1>1, <1>2 DEF RecordSubmitAccepted
<1>3. CASE RecordSubmitUnknown(w, BatchOf(w))
  BY <1>3 DEF RecordSubmitUnknown
<1>4. CASE RecordReferenceFound(w, BatchOf(w), reply[w].receipt)
  BY <1>1, <1>4 DEF RecordReferenceFound
<1>5. CASE RecordReferenceNotFound(w, BatchOf(w))
  BY <1>5 DEF RecordReferenceNotFound
<1>6. CASE RecordAcknowledgmentPending(w, BatchOf(w))
  BY <1>6 DEF RecordAcknowledgmentPending
<1>7. CASE RecordStatusUnavailable(w, BatchOf(w))
  BY <1>7 DEF RecordStatusUnavailable
<1>8. CASE CompleteAcknowledgment(w, BatchOf(w), reply[w].outcomes)
  <2>1. \A f \in FilingsOf[BatchOf(w)] : reply[w].outcomes[f] \in Verdicts
    BY <1>8 DEF CompleteAcknowledgment, OutcomesMatch, Replies, Outcomes
  <2> QED
    BY <1>8, <2>1 DEF CompleteAcknowledgment
<1>9. CASE terminalTransition(w, BatchOf(w))
  BY <1>9 DEF terminalTransition
<1> QED
  BY <1>2, <1>3, <1>4, <1>5, <1>6, <1>7, <1>8, <1>9 DEF Apply

\* An intake request keeps the stub's types.
LEMMA IntakeType ==
    ASSUME StubTypeOK, NEW b \in Batches, NEW answer, handleIntake(b, answer)
    PROVE  StubTypeOK'
<1>1. CASE RecordSubmission(b, answer)
  <2>1. PICK r \in FreshReceipts, results \in [FilingsOf[b] -> Verdicts] :
          ledger' = ledger \cup {[batch |-> b, receipt |-> r, results |-> results]}
    BY <1>1 DEF RecordSubmission
  <2>2. results \in Outcomes /\ r \in Receipts
    BY BatchesPartitionFilings DEF Outcomes, FreshReceipts
  <2>3. [batch |-> b, receipt |-> r, results |-> results] \in Submissions
    BY <2>2 DEF Submissions
  <2> QED
    BY <1>1, <2>1, <2>3 DEF RecordSubmission, StubTypeOK
<1> QED
  BY <1>1 DEF handleIntake, RefuseDuplicate, FailBeforeRecord, StubTypeOK, stubVars

\* Every action of the system keeps the types.
LEMMA NextTypeOK == TypeOK /\ [Next]_vars => TypeOK'
<1> SUFFICES ASSUME TypeOK, [Next]_vars PROVE TypeOK'
  OBVIOUS
<1> USE DEF Goto, Forget
<1>n. Bare("none") \in Replies /\ NoWork \in BatchWork \cup {NoWork}
  BY BareIsReply DEF ReplyKinds
<1>t. StoreTypeOK /\ StubTypeOK /\ WorkerTypeOK
  BY DEF TypeOK, WorkerTypeOK
<1>w. (UNCHANGED storeVars \/ StoreTypeOK') /\ (UNCHANGED stubVars \/ StubTypeOK') /\ WorkerTypeOK'
        => TypeOK'
  BY <1>t DEF TypeOK, WorkerTypeOK, StoreTypeOK, StubTypeOK, storeVars, stubVars
<1>1. ASSUME NEW w \in Workers, NEW b \in Batches, Claim(w, b) PROVE TypeOK'
  <2>1. StoreTypeOK'
    BY <1>1, <1>t, ClaimNextBatchType DEF Claim
  <2>2. [batch |-> b, action |-> NextAction(state'[b]), attempt |-> attempts'[b],
         receipt |-> receipt[b]] \in BatchWork
    BY <1>t, <2>1 DEF BatchWork, NextAction, Actions, StoreTypeOK
  <2>3. [batch |-> b, action |-> NextAction(state'[b]), attempt |-> attempts'[b],
         receipt |-> receipt[b]] # NoWork
    BY NoBatchIsDistinct DEF NoWork
  <2>4. WorkerTypeOK'
    BY <1>1, <1>t, <2>2, <2>3 DEF Claim, WorkerTypeOK, Steps
  <2> QED
    BY <1>1, <1>w, <2>1, <2>4 DEF Claim
<1>2. ASSUME NEW w \in Workers, AcquireCallPermit(w) PROVE TypeOK'
  BY <1>2, <1>t, <1>w DEF AcquireCallPermit, WorkerTypeOK, Steps
<1>3. ASSUME NEW w \in Workers, AcquireTimesOut(w) PROVE TypeOK'
  BY <1>3, <1>t, <1>w, <1>n DEF AcquireTimesOut, WorkerTypeOK, Steps
<1>a. ASSUME NEW w \in Workers, NEW answer \in Replies, pc[w] = "calling",
             Answer(w, answer), orphans' \subseteq Batches
      PROVE  UNCHANGED storeVars /\ WorkerTypeOK'
  BY <1>a, <1>t DEF Answer, WorkerTypeOK, Steps
<1>4. ASSUME NEW w \in Workers, Submit(w) PROVE TypeOK'
  <2>1. PICK answer \in IntakeReplies : handleIntake(BatchOf(w), answer) /\ Answer(w, answer)
    BY <1>4 DEF Submit
  <2>2. BatchOf(w) \in Batches /\ answer \in Replies
    BY <1>4, <1>t, BusyWorkerHasBatch, IntakeRepliesAreReplies DEF Submit, Steps
  <2>3. StubTypeOK'
    BY <1>t, <2>1, <2>2, IntakeType
  <2>4. UNCHANGED storeVars /\ WorkerTypeOK'
    BY <1>4, <1>t, <1>a, <2>1, <2>2 DEF Submit, WorkerTypeOK
  <2> QED
    BY <1>w, <2>3, <2>4
<1>5. ASSUME NEW w \in Workers, Status(w) PROVE TypeOK'
  <2>1. PICK answer \in handleStatus(IF SearchesUTID(w) THEN findByUTID(BatchOf(w))
                                      ELSE findByReceiptID(work[w].receipt)) :
          Answer(w, answer)
    BY <1>5 DEF Status
  <2>2. answer \in Replies
    <3>1. Bare("not_found") \in Replies
      BY BareIsReply DEF ReplyKinds
    <3>2. \A s \in ledger : StatusOf(s) \in Replies
      BY <1>t, StatusIsReply DEF StubTypeOK
    <3> QED
      BY <2>1, <3>1, <3>2 DEF handleStatus, findByUTID, findByReceiptID
  <2> QED
    BY <1>5, <1>t, <1>w, <1>a, <2>1, <2>2 DEF Status, WorkerTypeOK
<1>6. ASSUME NEW w \in Workers, StatusIncomplete(w) PROVE TypeOK'
  <2>1. PICK s \in ledger, lost \in FilingsOf[BatchOf(w)] :
          Answer(w, [StatusOf(s) EXCEPT !.outcomes =
                       [f \in DOMAIN s.results \ {lost} |-> s.results[f]]])
    BY <1>6 DEF StatusIncomplete, findByReceiptID
  <2>2. s \in Submissions /\ s.results \in Outcomes
    BY <1>t DEF StubTypeOK, Submissions
  <2>3. [f \in DOMAIN s.results \ {lost} |-> s.results[f]] \in Outcomes
    BY <2>2, PartOfOutcomes
  <2>4. [StatusOf(s) EXCEPT !.outcomes =
           [f \in DOMAIN s.results \ {lost} |-> s.results[f]]] \in Replies
    BY <2>2, <2>3, StatusIsReply DEF Replies
  <2> QED
    BY <1>6, <1>t, <1>w, <1>a, <2>1, <2>4 DEF StatusIncomplete, WorkerTypeOK
<1>7. ASSUME NEW w \in Workers, CallFails(w) PROVE TypeOK'
  <2>1. PICK kind \in Faults \ {"incomplete"} : Answer(w, Bare(kind))
    BY <1>7 DEF CallFails
  <2>2. Bare(kind) \in Replies
    BY FaultsAreKnown, BareIsReply DEF ReplyKinds
  <2>3. BatchOf(w) \in Batches
    BY <1>7, <1>t, BusyWorkerHasBatch DEF CallFails, Steps
  <2> QED
    BY <1>7, <1>t, <1>w, <1>a, <2>1, <2>2, <2>3 DEF CallFails, WorkerTypeOK
<1>8. ASSUME NEW w \in Workers, Finish(w) PROVE TypeOK'
  BY <1>8, <1>t, <1>w DEF Finish, WorkerTypeOK, Steps
<1>9. ASSUME NEW w \in Workers, Record(w) PROVE TypeOK'
  <2>1. BatchOf(w) \in Batches /\ reply[w] \in Replies
    BY <1>9, <1>t, BusyWorkerHasBatch DEF Record, Steps, WorkerTypeOK
  <2>2. StoreTypeOK'
    BY <1>9, <1>t, <2>1, ApplyType DEF Record
  <2>3. WorkerTypeOK'
    BY <1>9, <1>t, <1>n DEF Record, WorkerTypeOK, Steps
  <2> QED
    BY <1>9, <1>w, <2>2, <2>3 DEF Record
<1>10. ASSUME NEW w \in Workers, RecordFails(w) PROVE TypeOK'
  BY <1>10, <1>t, <1>w, <1>n DEF RecordFails, WorkerTypeOK, Steps
<1>11. ASSUME NEW w \in Workers, Halt(w) PROVE TypeOK'
  <2>1. pc[w] = "calling" => BatchOf(w) \in Batches
    BY <1>t, BusyWorkerHasBatch DEF Steps
  <2> QED
    BY <1>11, <1>t, <1>w, <1>n, <2>1 DEF Halt, WorkerTypeOK, Steps
<1>12. ASSUME NEW w \in Workers, Restart(w) PROVE TypeOK'
  BY <1>12, <1>t, <1>w DEF Restart, WorkerTypeOK, Steps
<1>13. ASSUME NEW b \in Batches, LeaseExpires(b) PROVE TypeOK'
  <2>1. StoreTypeOK'
    BY <1>13, <1>t DEF LeaseExpires, ExpireLease, StoreTypeOK
  <2> QED
    BY <1>13, <1>t, <1>w, <2>1 DEF LeaseExpires, WorkerTypeOK, workerVars
<1>14. ASSUME NEW b \in Batches, DeliverOrphan(b) PROVE TypeOK'
  <2>1. StubTypeOK'
    BY <1>14, <1>t, IntakeType DEF DeliverOrphan
  <2> QED
    BY <1>14, <1>t, <1>w, <2>1 DEF DeliverOrphan, WorkerTypeOK, workerVars
<1>15. ASSUME NEW b \in Batches, Acknowledge(b) PROVE TypeOK'
  <2>1. StubTypeOK'
    BY <1>15, <1>t DEF Acknowledge, AcknowledgmentAvailable, StubTypeOK
  <2> QED
    BY <1>15, <1>t, <1>w, <2>1 DEF Acknowledge, WorkerTypeOK, workerVars
<1>16. CASE UNCHANGED vars
  BY <1>16, <1>t, <1>w DEF vars, workerVars, WorkerTypeOK
<1> QED
  BY <1>1, <1>2, <1>3, <1>4, <1>5, <1>6, <1>7, <1>8, <1>9, <1>10, <1>11, <1>12,
     <1>13, <1>14, <1>15, <1>16 DEF Next, Step, Environment

\* Every reachable state of the filing system is well typed.
THEOREM TypeCorrect == Spec => []TypeOK
BY InitTypeOK, NextTypeOK, PTL DEF Spec

-----------------------------------------------------------------------------
(* Safety.  The invariants of the runs are inductive together with two      *)
(* facts: the stub's map has one submission per UTID, and what a worker     *)
(* was told by the stub, and has not yet recorded, is still true.           *)

LedgerUnique ==
    /\ \A s, t \in ledger : s.batch = t.batch => s = t
    /\ \A s \in ledger : s.results \in [FilingsOf[s.batch] -> Verdicts]

ReplyTrue(w) ==
    /\ reply[w].kind = "receipt" =>
         \E s \in ledger : s.batch = BatchOf(w) /\ s.receipt = reply[w].receipt
    /\ reply[w].kind \in {"processing", "results"} =>
         \E s \in ledger :
            /\ s.batch = reply[w].utid
            /\ s.receipt = reply[w].receipt
            /\ reply[w].kind = "results" =>
                 /\ s.batch \in acked
                 /\ \A f \in DOMAIN reply[w].outcomes : reply[w].outcomes[f] = s.results[f]

RepliesTrue == \A w \in Workers : pc[w] \in {"answered", "finished"} => ReplyTrue(w)

BooksInv == ReceiptIsOnFile /\ SettledAsAcknowledged /\ AllOrNothing

FiledInv == TypeOK /\ LedgerUnique /\ RepliesTrue /\ BooksInv

\* The receiver forgets nothing and frozen results stay.
ReceiverGrows == ledger \subseteq ledger' /\ acked \subseteq acked'

\* An intake request keeps one submission per UTID; if it is answered with a
\* receipt, that is the receipt of the batch it carried.
LEMMA IntakeKeepsLedger ==
    ASSUME StubTypeOK, LedgerUnique, NEW b \in Batches, NEW answer \in IntakeReplies,
           handleIntake(b, answer)
    PROVE  /\ LedgerUnique' /\ ReceiverGrows
           /\ answer.kind = "receipt" =>
                \E s \in ledger' : s.batch = b /\ s.receipt = answer.receipt
           /\ answer.kind \notin {"processing", "results"}
<1>1. answer.kind \notin {"processing", "results"}
  BY DEF IntakeReplies, ReceiptReply, Bare
<1>2. CASE RecordSubmission(b, answer)
  <2>1. PICK r \in FreshReceipts, results \in [FilingsOf[b] -> Verdicts] :
          /\ ledger' = ledger \cup {[batch |-> b, receipt |-> r, results |-> results]}
          /\ answer \in {ReceiptReply(r), Bare("unavailable")}
    BY <1>2 DEF RecordSubmission
  <2>2. \A s \in ledger : s.batch # b
    BY <1>2 DEF RecordSubmission, IsDuplicate, findByUTID
  <2>3. LedgerUnique'
    BY <2>1, <2>2 DEF LedgerUnique
  <2>4. answer.kind = "receipt" => answer.receipt = r
    BY <2>1 DEF ReceiptReply, Bare
  <2> DEFINE new == [batch |-> b, receipt |-> r, results |-> results]
  <2>5. new \in ledger' /\ new.batch = b /\ new.receipt = r
    BY <2>1
  <2>6. ReceiverGrows
    BY <1>2, <2>1 DEF RecordSubmission, ReceiverGrows
  <2> HIDE DEF new
  <2> QED
    BY <1>1, <2>3, <2>4, <2>5, <2>6
<1>3. CASE RefuseDuplicate(b, answer) \/ FailBeforeRecord(b, answer)
  <2>1. answer.kind # "receipt" /\ UNCHANGED stubVars
    BY <1>3 DEF RefuseDuplicate, FailBeforeRecord, DuplicateReply, Bare
  <2> QED
    BY <1>1, <2>1 DEF stubVars, LedgerUnique, ReceiverGrows
<1> QED
  BY <1>2, <1>3 DEF handleIntake

\* The books stay true while only the receiver's side grows.
LEMMA BooksKept ==
    ASSUME BooksInv, ReceiverGrows, UNCHANGED <<state, receipt, filing>>
    PROVE  BooksInv'
BY DEF BooksInv, ReceiverGrows, ReceiptIsOnFile, SettledAsAcknowledged, AllOrNothing

\* A pending reply stays true while the receiver's side grows.
LEMMA ReplyKept ==
    ASSUME NEW w \in Workers, ReplyTrue(w), ReceiverGrows,
           work'[w] = work[w], reply'[w] = reply[w]
    PROVE  ReplyTrue(w)'
BY DEF ReplyTrue, ReceiverGrows, BatchOf

\* So do those of all workers but one that is not about to record.
LEMMA RepliesKept ==
    ASSUME RepliesTrue, ReceiverGrows, NEW w \in Workers,
           pc'[w] \in {"answered", "finished"} => ReplyTrue(w)',
           \A v \in Workers \ {w} :
              pc'[v] = pc[v] /\ work'[v] = work[v] /\ reply'[v] = reply[v]
    PROVE  RepliesTrue'
BY ReplyKept DEF RepliesTrue

-----------------------------------------------------------------------------
(* Recording a reply *)

\* What a reply says of the batch its worker works on.
LEMMA RecordedReplyIsTrue ==
    ASSUME FiledInv, NEW w \in Workers, pc[w] = "finished"
    PROVE  /\ LifecycleCall(w) = "RecordSubmitAccepted" \/ LifecycleCall(w) = "RecordReferenceFound" =>
                \E s \in ledger : s.batch = BatchOf(w) /\ s.receipt = reply[w].receipt
           /\ LifecycleCall(w) = "CompleteAcknowledgment" =>
                /\ BatchOf(w) \in acked
                /\ \E s \in ledger : s.batch = BatchOf(w) /\
                     \A f \in DOMAIN reply[w].outcomes : reply[w].outcomes[f] = s.results[f]
<1>1. ReplyTrue(w)
  BY DEF FiledInv, RepliesTrue
<1>2. CASE work[w].action = "submit"
  <2>1. LifecycleCall(w) = SubmitCall(w)
    BY <1>2 DEF LifecycleCall
  <2>2. CASE reply[w].kind = "receipt"
    <3>1. SubmitCall(w) = "RecordSubmitAccepted"
      BY <2>2 DEF SubmitCall
    <3> QED
      BY <1>1, <2>1, <2>2, <3>1 DEF ReplyTrue
  <2>3. CASE reply[w].kind # "receipt"
    <3>1. SubmitCall(w) \in {"terminalTransition", "RecordSubmitUnknown"}
      BY <2>3 DEF SubmitCall
    <3> QED
      BY <2>1, <3>1
  <2> QED
    BY <2>2, <2>3
<1>3. CASE work[w].action # "submit"
  <2>1. LifecycleCall(w) = StatusCall(w)
    BY <1>3 DEF LifecycleCall
  <2>2. CASE reply[w].kind \in {"processing", "results"} /\ ~IdentityMismatch(w)
    <3>1. reply[w].utid = BatchOf(w)
      BY <2>2 DEF IdentityMismatch
    <3>2. StatusCall(w) = "CompleteAcknowledgment" => reply[w].kind = "results"
      BY <2>2 DEF StatusCall
    <3> QED
      BY <1>1, <2>1, <2>2, <3>1, <3>2 DEF ReplyTrue, StatusCall
  <2>3. CASE ~(reply[w].kind \in {"processing", "results"} /\ ~IdentityMismatch(w))
    <3>1. StatusCall(w) \in {"terminalTransition", "RecordStatusUnavailable",
                             "RecordReferenceNotFound"}
      BY <2>3 DEF StatusCall
    <3> QED
      BY <2>1, <3>1
  <2> QED
    BY <2>2, <2>3
<1> QED
  BY <1>2, <1>3

\* Whatever a worker records, the books stay true.
LEMMA RecordKeepsBooks ==
    ASSUME FiledInv, NEW w \in Workers, Record(w)
    PROVE  BooksInv'
<1> DEFINE b == BatchOf(w)
<1>0. /\ b \in Batches /\ reply[w] \in Replies /\ StoreTypeOK /\ BooksInv
      /\ UNCHANGED <<ledger, acked>> /\ Apply(w)
  BY BusyWorkerHasBatch DEF Record, Steps, FiledInv, TypeOK, stubVars
<1> HIDE DEF b
<1> USE DEF StoreTypeOK, BooksInv, ReceiptIsOnFile, SettledAsAcknowledged, AllOrNothing,
            eventTransition, RowMatches
<1>1. CASE /\ LifecycleCall(w) = "RecordSubmitAccepted" \/ LifecycleCall(w) = "RecordReferenceFound"
           /\ \/ RecordSubmitAccepted(w, b, reply[w].receipt)
              \/ RecordReferenceFound(w, b, reply[w].receipt)
  <2>1. PICK s \in ledger : s.batch = b /\ s.receipt = reply[w].receipt
    BY <1>1, RecordedReplyIsTrue DEF b, Record
  <2>2. /\ state' = [state EXCEPT ![b] = "submitted"]
        /\ receipt' = [receipt EXCEPT ![b] = reply[w].receipt]
        /\ reply[w].receipt # NoReceipt
        /\ state[b] \in {"submitting", "submit_unknown"} /\ UNCHANGED filing
    BY <1>0, <1>1 DEF RecordSubmitAccepted, RecordReferenceFound, FromStates
  <2>3. ReceiptIsOnFile'
    BY <1>0, <2>1, <2>2
  <2>4. SettledAsAcknowledged' /\ AllOrNothing'
    BY <1>0, <2>2
  <2> QED
    BY <2>3, <2>4
<1>2. CASE RecordSubmitUnknown(w, b)
  BY <1>0, <1>2 DEF RecordSubmitUnknown, FromStates
<1>3. CASE RecordReferenceNotFound(w, b)
  BY <1>0, <1>3 DEF RecordReferenceNotFound, FromStates
<1>4. CASE RecordAcknowledgmentPending(w, b)
  BY <1>0, <1>4 DEF RecordAcknowledgmentPending, FromStates
<1>5. CASE RecordStatusUnavailable(w, b)
  BY <1>0, <1>5 DEF RecordStatusUnavailable
<1>6. CASE LifecycleCall(w) = "CompleteAcknowledgment" /\ CompleteAcknowledgment(w, b, reply[w].outcomes)
  <2>1. PICK s \in ledger : /\ s.batch = b /\ b \in acked
                            /\ \A f \in DOMAIN reply[w].outcomes : reply[w].outcomes[f] = s.results[f]
    BY <1>6, RecordedReplyIsTrue DEF b, Record
  <2>2. /\ DOMAIN reply[w].outcomes = FilingsOf[b]
        /\ filing' = [f \in Filings |-> IF f \in FilingsOf[b] THEN reply[w].outcomes[f] ELSE filing[f]]
        /\ state' = [state EXCEPT ![b] = "acknowledged"]
        /\ UNCHANGED receipt /\ state[b] \in {"submitted", "awaiting_ack"}
    BY <1>6 DEF CompleteAcknowledgment, OutcomesMatch, FromStates
  <2>3. \A f \in FilingsOf[b] : f \in Filings /\ filing'[f] = s.results[f] /\ filing'[f] \in Verdicts
    BY <1>0, <2>1, <2>2, BatchesPartitionFilings DEF Replies, Outcomes
  <2>4. \A c \in Batches \ {b} : \A f \in FilingsOf[c] : filing'[f] = filing[f]
    BY <1>0, <2>2, BatchesPartitionFilings
  <2>5. ReceiptIsOnFile'
    BY <1>0, <2>2
  <2>6. SettledAsAcknowledged'
    BY <1>0, <2>1, <2>3, <2>4
  <2>7. AllOrNothing'
    <3>1. state'[b] = "acknowledged" /\ \A f \in FilingsOf[b] : filing'[f] # "batched"
      <4>1. state'[b] = "acknowledged"
        BY <1>0, <2>2
      <4>2. "batched" \notin Verdicts
        BY DEF Verdicts
      <4> QED
        BY <2>3, <4>1, <4>2
    <3>2. \A c \in Batches \ {b} : state'[c] = state[c]
      BY <1>0, <2>2
    <3>3. \A c \in Batches \ {b} : \A f \in FilingsOf[c] :
            (state'[c] = "acknowledged") <=> (filing'[f] # "batched")
      BY <1>0, <2>4, <3>2
    <3> QED
      BY <3>1, <3>3
  <2> QED
    BY <2>5, <2>6, <2>7
<1>7. CASE terminalTransition(w, b)
  BY <1>0, <1>7 DEF terminalTransition, FromStates, Terminal, BatchStates
<1> QED
  BY <1>0, <1>1, <1>2, <1>3, <1>4, <1>5, <1>6, <1>7 DEF Apply, b

-----------------------------------------------------------------------------
(* The invariant and its consequences *)

\* Nothing is on file, nothing is settled, nobody has a reply.
LEMMA InitFiled == Init => FiledInv
<1> SUFFICES ASSUME Init PROVE FiledInv
  OBVIOUS
<1>1. LedgerUnique /\ RepliesTrue
  BY DEF Init, StubInit, LedgerUnique, RepliesTrue
<1>2. BooksInv
  BY BatchesPartitionFilings
     DEF Init, StubInit, StoreInit, BooksInv, ReceiptIsOnFile, SettledAsAcknowledged, AllOrNothing
<1> QED
  BY <1>1, <1>2, InitTypeOK DEF FiledInv

\* Claiming a batch moves it, but never into or out of a class of states that
\* the books distinguish.
LEMMA ClaimKeepsBooks ==
    ASSUME FiledInv, NEW w \in Workers, NEW b \in Batches, Claim(w, b)
    PROVE  BooksInv'
BY DEF FiledInv, TypeOK, StoreTypeOK, Claim, ClaimNextBatch, Claimable, ClaimedState, Terminal,
       BooksInv, ReceiptIsOnFile, SettledAsAcknowledged, AllOrNothing, stubVars

\* Every action keeps the ledger one-per-UTID, the replies and the books true.
LEMMA NextFiled == FiledInv /\ [Next]_vars => FiledInv'
<1> SUFFICES ASSUME FiledInv, [Next]_vars PROVE FiledInv'
  OBVIOUS
<1>t. TypeOK'
  BY NextTypeOK DEF FiledInv
<1>i. TypeOK /\ StubTypeOK /\ LedgerUnique /\ RepliesTrue /\ BooksInv
  BY DEF FiledInv, TypeOK
<1>s. UNCHANGED stubVars => LedgerUnique' /\ ReceiverGrows
  BY <1>i DEF stubVars, LedgerUnique, ReceiverGrows
<1>b. UNCHANGED storeVars /\ ReceiverGrows => BooksInv'
  BY <1>i, BooksKept DEF storeVars
<1> USE DEF Goto, Forget
<1>o. ASSUME NEW w \in Workers, ReceiverGrows,
             pc' = [pc EXCEPT ![w] = pc'[w]], work' = [work EXCEPT ![w] = work'[w]],
             reply' = [reply EXCEPT ![w] = reply'[w]],
             pc'[w] \in {"answered", "finished"} => ReplyTrue(w)'
      PROVE  RepliesTrue'
  BY <1>i, <1>o, RepliesKept DEF TypeOK
<1>1. ASSUME NEW w \in Workers, NEW b \in Batches, Claim(w, b) PROVE FiledInv'
  <2>1. RepliesTrue'
    BY <1>1, <1>i, <1>s, <1>o DEF Claim, TypeOK
  <2> QED
    BY <1>1, <1>t, <1>s, <2>1, ClaimKeepsBooks DEF FiledInv, Claim
<1>2. ASSUME NEW w \in Workers, AcquireCallPermit(w) PROVE FiledInv'
  BY <1>2, <1>t, <1>i, <1>s, <1>b, <1>o DEF FiledInv, AcquireCallPermit, TypeOK
<1>3. ASSUME NEW w \in Workers, AcquireTimesOut(w) \/ RecordFails(w) PROVE FiledInv'
  BY <1>3, <1>t, <1>i, <1>s, <1>b, <1>o DEF FiledInv, AcquireTimesOut, RecordFails, TypeOK
<1>4. ASSUME NEW w \in Workers, Submit(w) PROVE FiledInv'
  <2>1. PICK answer \in IntakeReplies : handleIntake(BatchOf(w), answer) /\ Answer(w, answer)
    BY <1>4 DEF Submit
  <2>2. BatchOf(w) \in Batches
    BY <1>4, <1>i, BusyWorkerHasBatch DEF Submit, Steps
  <2>3. /\ LedgerUnique' /\ ReceiverGrows
        /\ answer.kind = "receipt" =>
             \E s \in ledger' : s.batch = BatchOf(w) /\ s.receipt = answer.receipt
        /\ answer.kind \notin {"processing", "results"}
    BY <1>i, <2>1, <2>2, IntakeKeepsLedger
  <2>4. reply'[w] = answer /\ work' = work
    BY <1>i, <2>1 DEF Answer, TypeOK
  <2>5. ReplyTrue(w)'
    BY <2>3, <2>4 DEF ReplyTrue, BatchOf
  <2>6. RepliesTrue'
    BY <1>i, <1>o, <2>1, <2>3, <2>5 DEF Answer, TypeOK
  <2>7. BooksInv'
    BY <1>b, <2>1, <2>3 DEF Answer
  <2> QED
    BY <1>t, <2>3, <2>6, <2>7 DEF FiledInv
<1>5. ASSUME NEW w \in Workers, NEW s \in ledger, NEW answer \in Replies, Answer(w, answer),
             answer.kind = StatusOf(s).kind, answer.utid = s.batch, answer.receipt = s.receipt,
             \A f \in DOMAIN answer.outcomes : answer.outcomes[f] = s.results[f],
             UNCHANGED stubVars
      PROVE  FiledInv'
  <2>1. reply'[w] = answer /\ ledger' = ledger /\ acked' = acked
    BY <1>5, <1>i DEF Answer, TypeOK, stubVars
  <2>2. ReplyTrue(w)'
    <3>1. answer.kind = "results" => s.batch \in acked
      BY <1>5 DEF StatusOf
    <3>2. answer.kind # "receipt"
      BY <1>5 DEF StatusOf
    <3> QED
      BY <1>5, <2>1, <3>1, <3>2 DEF ReplyTrue
  <2>3. RepliesTrue'
    BY <1>5, <1>i, <1>o, <1>s, <2>2 DEF Answer, TypeOK
  <2> QED
    BY <1>5, <1>t, <1>s, <1>b, <2>3 DEF FiledInv, Answer
<1>6. ASSUME NEW w \in Workers, NEW k \in ReplyKinds \ {"receipt", "processing", "results"},
             Answer(w, Bare(k)), UNCHANGED stubVars
      PROVE  FiledInv'
  <2>1. reply'[w].kind = k
    BY <1>6, <1>i DEF Answer, Bare, TypeOK
  <2>2. ReplyTrue(w)'
    BY <2>1 DEF ReplyTrue
  <2>3. RepliesTrue'
    BY <1>6, <1>i, <1>o, <1>s, <2>2 DEF Answer, TypeOK
  <2> QED
    BY <1>6, <1>t, <1>s, <1>b, <2>3 DEF FiledInv, Answer
<1>7. ASSUME NEW w \in Workers, Status(w) PROVE FiledInv'
  <2>1. PICK answer \in handleStatus(IF SearchesUTID(w) THEN findByUTID(BatchOf(w))
                                      ELSE findByReceiptID(work[w].receipt)) :
          Answer(w, answer)
    BY <1>7 DEF Status
  <2>2. answer = Bare("not_found") \/ \E s \in ledger : answer = StatusOf(s)
    BY <2>1 DEF handleStatus, findByUTID, findByReceiptID
  <2>3. CASE answer = Bare("not_found")
    BY <1>6, <1>7, <2>1, <2>3 DEF Status, ReplyKinds
  <2>4. ASSUME NEW s \in ledger, answer = StatusOf(s) PROVE FiledInv'
    <3>1. answer \in Replies
      BY <1>i, <2>4, StatusIsReply DEF StubTypeOK
    <3>2. /\ answer.utid = s.batch /\ answer.receipt = s.receipt
          /\ \A f \in DOMAIN answer.outcomes : answer.outcomes[f] = s.results[f]
      BY <2>4 DEF StatusOf, NoOutcomes
    <3> QED
      BY <1>5, <1>7, <2>1, <2>4, <3>1, <3>2 DEF Status
  <2> QED
    BY <2>2, <2>3, <2>4
<1>8. ASSUME NEW w \in Workers, StatusIncomplete(w) PROVE FiledInv'
  <2>1. PICK s \in ledger, lost \in FilingsOf[BatchOf(w)] :
          Answer(w, [StatusOf(s) EXCEPT !.outcomes =
                       [f \in DOMAIN s.results \ {lost} |-> s.results[f]]])
    BY <1>8 DEF StatusIncomplete, findByReceiptID
  <2> DEFINE part == [f \in DOMAIN s.results \ {lost} |-> s.results[f]]
             answer == [StatusOf(s) EXCEPT !.outcomes = part]
  <2>2. s.results \in Outcomes /\ StatusOf(s) \in Replies
    BY <1>i, StatusIsReply DEF StubTypeOK, Submissions
  <2>3. part \in Outcomes
    BY <2>2, PartOfOutcomes
  <2>4. /\ answer \in Replies /\ answer.outcomes = part /\ answer.kind = StatusOf(s).kind
        /\ answer.utid = s.batch /\ answer.receipt = s.receipt
    <3> HIDE DEF part
    <3> QED
      BY <2>2, <2>3 DEF Replies, StatusOf
  <2>5. \A f \in DOMAIN part : part[f] = s.results[f]
    OBVIOUS
  <2> HIDE DEF part, answer
  <2>6. Answer(w, answer)
    BY <2>1 DEF part, answer
  <2> QED
    BY <1>5, <1>8, <2>4, <2>5, <2>6 DEF StatusIncomplete
<1>9. ASSUME NEW w \in Workers, CallFails(w) PROVE FiledInv'
  BY <1>6, <1>9, FaultsAreKnown DEF CallFails, ReplyKinds
<1>10. ASSUME NEW w \in Workers, Finish(w) PROVE FiledInv'
  <2>1. ReplyTrue(w)'
    BY <1>10, <1>i, <1>s, ReplyKept DEF Finish, RepliesTrue
  <2> QED
    BY <1>10, <1>t, <1>i, <1>s, <1>b, <1>o, <2>1 DEF FiledInv, Finish, TypeOK
<1>11. ASSUME NEW w \in Workers, Record(w) PROVE FiledInv'
  <2>1. RepliesTrue'
    BY <1>11, <1>i, <1>s, <1>o DEF Record, TypeOK
  <2> QED
    BY <1>11, <1>t, <1>s, <2>1, RecordKeepsBooks DEF FiledInv, Record
<1>12. ASSUME NEW w \in Workers, Halt(w) \/ Restart(w) PROVE FiledInv'
  BY <1>12, <1>t, <1>i, <1>s, <1>b, <1>o DEF FiledInv, Halt, Restart, TypeOK
<1>e. UNCHANGED workerVars /\ ReceiverGrows => RepliesTrue'
  BY <1>i, ReplyKept DEF RepliesTrue, workerVars
<1>13. ASSUME NEW b \in Batches, LeaseExpires(b) PROVE FiledInv'
  <2>1. UNCHANGED <<state, receipt, filing>> /\ ReceiverGrows
    BY <1>13, <1>s DEF LeaseExpires, ExpireLease
  <2> QED
    BY <1>13, <1>t, <1>i, <1>s, <1>e, <2>1, BooksKept DEF FiledInv, LeaseExpires
<1>14. ASSUME NEW b \in Batches, DeliverOrphan(b) PROVE FiledInv'
  <2>1. LedgerUnique' /\ ReceiverGrows
    BY <1>14, <1>i, IntakeKeepsLedger DEF DeliverOrphan
  <2> QED
    BY <1>14, <1>t, <1>b, <1>e, <2>1 DEF FiledInv, DeliverOrphan
<1>15. ASSUME NEW b \in Batches, Acknowledge(b) PROVE FiledInv'
  <2>1. LedgerUnique' /\ ReceiverGrows
    BY <1>15, <1>i DEF Acknowledge, AcknowledgmentAvailable, LedgerUnique, ReceiverGrows
  <2> QED
    BY <1>15, <1>t, <1>b, <1>e, <2>1 DEF FiledInv, Acknowledge
<1>16. CASE UNCHANGED vars
  BY <1>16, <1>t, <1>s, <1>b, <1>e DEF FiledInv, vars
<1> QED
  BY <1>1, <1>2, <1>3, <1>4, <1>7, <1>8, <1>9, <1>10, <1>11, <1>12, <1>13, <1>14, <1>15,
     <1>16 DEF Next, Step, Environment

-----------------------------------------------------------------------------
(* Who moves a row *)

\* A recording call changes no state but that of the worker's own batch, and
\* that only under a live claim.
LEMMA ApplyNeedsLiveClaim ==
    ASSUME TypeOK, NEW w \in Workers, Apply(w), NEW b \in Batches, state'[b] # state[b]
    PROVE  b = BatchOf(w) /\ claim[b] = w
<1> USE DEF TypeOK, StoreTypeOK, RowMatches, LiveClaim, eventTransition
<1>1. CASE RecordSubmitAccepted(w, BatchOf(w), reply[w].receipt)
  BY <1>1 DEF RecordSubmitAccepted
<1>2. CASE RecordSubmitUnknown(w, BatchOf(w))
  BY <1>2 DEF RecordSubmitUnknown
<1>3. CASE RecordReferenceFound(w, BatchOf(w), reply[w].receipt)
  BY <1>3 DEF RecordReferenceFound
<1>4. CASE RecordReferenceNotFound(w, BatchOf(w))
  BY <1>4 DEF RecordReferenceNotFound
<1>5. CASE RecordAcknowledgmentPending(w, BatchOf(w))
  BY <1>5 DEF RecordAcknowledgmentPending
<1>6. CASE RecordStatusUnavailable(w, BatchOf(w))
  BY <1>6 DEF RecordStatusUnavailable
<1>7. CASE CompleteAcknowledgment(w, BatchOf(w), reply[w].outcomes)
  BY <1>7 DEF CompleteAcknowledgment
<1>8. CASE terminalTransition(w, BatchOf(w))
  BY <1>8 DEF terminalTransition
<1> QED
  BY <1>1, <1>2, <1>3, <1>4, <1>5, <1>6, <1>7, <1>8 DEF Apply

\* Every step that moves a row is a claim of a row without a live lease, or the
\* recording of a reply by the holder of a live claim.
LEMMA RowsMoveUnderClaim ==
    ASSUME TypeOK, Next, NEW b \in Batches, leaseLive[b], state'[b] # state[b]
    PROVE  \E w \in Workers : /\ claim[b] = w /\ pc[w] = "finished"
                              /\ BatchOf(w) = b /\ pc'[w] = "idle"
<1>1. ASSUME NEW w \in Workers, NEW c \in Batches, Claim(w, c) PROVE FALSE
  <2>1. c # b
    BY <1>1 DEF Claim, ClaimNextBatch, Claimable
  <2> QED
    BY <1>1, <2>1 DEF Claim, ClaimNextBatch, TypeOK, StoreTypeOK
<1>2. ASSUME NEW w \in Workers, Record(w)
      PROVE  claim[b] = w /\ pc[w] = "finished" /\ BatchOf(w) = b /\ pc'[w] = "idle"
  BY <1>2, ApplyNeedsLiveClaim DEF Record, Goto, TypeOK
<1>3. ASSUME NEW w \in Workers, Step(w), ~Record(w), \A c \in Batches : ~Claim(w, c)
      PROVE  UNCHANGED state
  BY <1>3 DEF Step, AcquireCallPermit, AcquireTimesOut, Submit, Status, StatusIncomplete,
              CallFails, Answer, Finish, RecordFails, Halt, Restart, storeVars
<1>4. ASSUME NEW c \in Batches, Environment(c) PROVE UNCHANGED state
  BY <1>4 DEF Environment, LeaseExpires, ExpireLease, DeliverOrphan, Acknowledge, storeVars
<1> QED
  BY <1>1, <1>2, <1>3, <1>4 DEF Next

-----------------------------------------------------------------------------
\* The inductive invariant holds in every reachable state.
LEMMA FiledInvariance == Spec => []FiledInv
BY InitFiled, NextFiled, PTL DEF Spec

\* Zero duplicate filings, for any number of workers, batches and faults and
\* whatever leases and the network do.
THEOREM ExactlyOnce == Spec => []NoFilingRecordedTwice
<1>1. FiledInv => NoFilingRecordedTwice
  BY BatchesPartitionFilings
     DEF FiledInv, TypeOK, StubTypeOK, Submissions, LedgerUnique, NoFilingRecordedTwice
<1> QED
  BY <1>1, FiledInvariance, PTL

\* A batch shown as submitted is on file under the receipt it keeps.
THEOREM ReceiptsAreReal == Spec => []ReceiptIsOnFile
<1>1. FiledInv => ReceiptIsOnFile
  BY DEF FiledInv, BooksInv
<1> QED
  BY <1>1, FiledInvariance, PTL

\* A filing shown accepted or rejected is so at the receiver.
THEOREM ResultsAreTheReceivers == Spec => []SettledAsAcknowledged
<1>1. FiledInv => SettledAsAcknowledged
  BY DEF FiledInv, BooksInv
<1> QED
  BY <1>1, FiledInvariance, PTL

\* A batch and all of its filings settle together.
THEOREM BatchesSettleWhole == Spec => []AllOrNothing
<1>1. FiledInv => AllOrNothing
  BY DEF FiledInv, BooksInv
<1> QED
  BY <1>1, FiledInvariance, PTL

\* A worker that lost its claim changes nothing, and nobody interferes with one
\* that holds it.
THEOREM ClaimsAreExclusive == Spec => LiveClaimIsExclusive
<1>1. TypeOK /\ [Next]_vars =>
        [\A b \in Batches :
           leaseLive[b] /\ state'[b] # state[b] =>
              \E w \in Workers : /\ claim[b] = w
                                 /\ pc[w] = "finished"
                                 /\ BatchOf(w) = b
                                 /\ pc'[w] = "idle"]_vars
  BY RowsMoveUnderClaim
<1> QED
  BY <1>1, TypeCorrect, PTL DEF Spec, LiveClaimIsExclusive

-----------------------------------------------------------------------------
(* The contract: every step files, settles or gives up one batch, or is invisible *)

\* The refinement mapping of FilingSystem, by name.
OnFile(f) == {<<s.receipt, s.results[f]>> : s \in {t \in ledger : f \in FilingsOf[t.batch]}}
GivenUp == {b \in Batches : state[b] = "invariant_failed"}
OnFileMap == [f \in Filings |-> OnFile(f)]

\* A filing of a batch is on file as the batch's submission has it.
LEMMA OnFileOfBatch ==
    ASSUME StubTypeOK, LedgerUnique, NEW s \in ledger, NEW f \in FilingsOf[s.batch]
    PROVE  OnFile(f) = {<<s.receipt, s.results[f]>>}
<1>1. \A t \in ledger : f \in FilingsOf[t.batch] => t = s
  BY BatchesPartitionFilings DEF StubTypeOK, Submissions, LedgerUnique
<1>2. {t \in ledger : f \in FilingsOf[t.batch]} = {s}
  BY <1>1
<1> QED
  BY <1>2 DEF OnFile

\* Recording a submission files the batch, or changes nothing.
LEMMA IntakeFiles ==
    ASSUME StubTypeOK, NEW b \in Batches, NEW answer, handleIntake(b, answer),
           UNCHANGED <<filing, GivenUp>>
    PROVE  Contract!File(b) \/ UNCHANGED <<OnFileMap, filing, GivenUp>>
<1>1. CASE RecordSubmission(b, answer)
  <2>1. PICK r \in FreshReceipts, results \in [FilingsOf[b] -> Verdicts] :
          ledger' = ledger \cup {[batch |-> b, receipt |-> r, results |-> results]}
    BY <1>1 DEF RecordSubmission
  <2>2. \A f \in FilingsOf[b] : \A t \in ledger : f \notin FilingsOf[t.batch]
    BY <1>1 DEF RecordSubmission, IsDuplicate, originalRecords
  <2>3. \A f \in FilingsOf[b] : OnFile(f) = {}
    BY <2>2 DEF OnFile
  <2> DEFINE new == [batch |-> b, receipt |-> r, results |-> results]
  <2>4. new.batch = b /\ new.receipt = r /\ new.results = results
    OBVIOUS
  <2>5. ledger' = ledger \cup {new}
    BY <2>1
  <2> HIDE DEF new
  <2>6. ASSUME NEW f \in FilingsOf[b] PROVE OnFile(f)' = {<<r, results[f]>>}
    <3>1. {t \in ledger' : f \in FilingsOf[t.batch]} = {new}
      BY <2>2, <2>4, <2>5
    <3> QED
      BY <2>4, <3>1 DEF OnFile
  <2>7. ASSUME NEW f \in Filings, f \notin FilingsOf[b] PROVE OnFile(f)' = OnFile(f)
    <3>1. {t \in ledger' : f \in FilingsOf[t.batch]} = {t \in ledger : f \in FilingsOf[t.batch]}
      BY <2>4, <2>5, <2>7
    <3> QED
      BY <3>1 DEF OnFile
  <2>8. OnFileMap' = [f \in Filings |-> IF f \in FilingsOf[b] THEN {<<r, results[f]>>}
                                                               ELSE OnFileMap[f]]
    BY <2>6, <2>7 DEF OnFileMap
  <2>9. \A f \in FilingsOf[b] : OnFileMap[f] = {}
    BY <2>3, BatchesPartitionFilings DEF OnFileMap
  <2>10. r \in Receipts
    BY DEF FreshReceipts
  <2> QED
    BY <2>8, <2>9, <2>10 DEF Contract!File, OnFileMap, OnFile, GivenUp
<1>2. CASE RefuseDuplicate(b, answer) \/ FailBeforeRecord(b, answer)
  BY <1>2 DEF RefuseDuplicate, FailBeforeRecord, stubVars, OnFileMap, OnFile
<1> QED
  BY <1>1, <1>2 DEF handleIntake

\* Recording a reply settles the batch, gives it up, or changes nothing that
\* the contract sees.
LEMMA RecordSettles ==
    ASSUME FiledInv, NEW w \in Workers, Record(w)
    PROVE  \/ \E b \in Batches : Contract!Settle(b) \/ Contract!GiveUp(b)
           \/ UNCHANGED <<OnFileMap, filing, GivenUp>>
<1>0. PICK b \in Batches : b = BatchOf(w)
  BY BusyWorkerHasBatch DEF Record, Steps, FiledInv, BooksInv, TypeOK
<1>1. /\ reply[w] \in Replies /\ StoreTypeOK /\ StubTypeOK /\ LedgerUnique
      /\ AllOrNothing /\ UNCHANGED ledger /\ Apply(w)
  BY DEF Record, FiledInv, BooksInv, TypeOK, stubVars
<1>2. UNCHANGED OnFileMap
  BY <1>1 DEF OnFileMap, OnFile
<1>3. ASSUME NEW call, NEW newState, NEW r, newState # "invariant_failed",
             eventTransition(call, w, b, newState, r), "invariant_failed" \notin FromStates(call)
      PROVE  UNCHANGED <<filing, GivenUp>>
  BY <1>1, <1>3 DEF eventTransition, RowMatches, GivenUp, StoreTypeOK
<1>4. CASE \/ RecordSubmitAccepted(w, b, reply[w].receipt) \/ RecordSubmitUnknown(w, b)
           \/ RecordReferenceFound(w, b, reply[w].receipt) \/ RecordReferenceNotFound(w, b)
           \/ RecordAcknowledgmentPending(w, b)
  <2>1. \A call \in {"RecordSubmitAccepted", "RecordSubmitUnknown", "RecordReferenceFound",
                     "RecordReferenceNotFound", "RecordAcknowledgmentPending"} :
          "invariant_failed" \notin FromStates(call)
    BY DEF FromStates
  <2>2. \E call, newState, r :
          /\ eventTransition(call, w, b, newState, r)
          /\ newState # "invariant_failed"
          /\ "invariant_failed" \notin FromStates(call)
    <3>1. CASE RecordSubmitAccepted(w, b, reply[w].receipt)
      BY <2>1, <3>1 DEF RecordSubmitAccepted
    <3>2. CASE RecordSubmitUnknown(w, b)
      BY <2>1, <3>2 DEF RecordSubmitUnknown
    <3>3. CASE RecordReferenceFound(w, b, reply[w].receipt)
      BY <2>1, <3>3 DEF RecordReferenceFound
    <3>4. CASE RecordReferenceNotFound(w, b)
      BY <2>1, <3>4 DEF RecordReferenceNotFound
    <3>5. CASE RecordAcknowledgmentPending(w, b)
      BY <2>1, <3>5 DEF RecordAcknowledgmentPending
    <3> QED
      BY <1>4, <3>1, <3>2, <3>3, <3>4, <3>5
  <2>3. UNCHANGED <<filing, GivenUp>>
    BY <1>3, <2>2
  <2> QED
    BY <1>2, <2>3
<1>5. CASE RecordStatusUnavailable(w, b)
  BY <1>2, <1>5 DEF RecordStatusUnavailable, GivenUp
<1>6. CASE /\ LifecycleCall(w) = "CompleteAcknowledgment"
           /\ CompleteAcknowledgment(w, b, reply[w].outcomes)
  <2> DEFINE outcomes == reply[w].outcomes
  <2>1. PICK s \in ledger : s.batch = b /\ \A f \in DOMAIN outcomes : outcomes[f] = s.results[f]
    BY <1>0, <1>6, RecordedReplyIsTrue DEF Record
  <2>2. /\ DOMAIN outcomes = FilingsOf[b]
        /\ \A f \in FilingsOf[b] : filing[f] = "batched"
        /\ filing' = [f \in Filings |-> IF f \in FilingsOf[b] THEN outcomes[f] ELSE filing[f]]
        /\ state' = [state EXCEPT ![b] = "acknowledged"]
        /\ state[b] \in {"submitted", "awaiting_ack"}
    BY <1>6 DEF CompleteAcknowledgment, OutcomesMatch, RowMatches, FromStates
  <2>3. outcomes \in [FilingsOf[b] -> Verdicts]
    BY <1>1, <2>2 DEF Replies, Outcomes
  <2>4. \A f \in FilingsOf[b] : OnFileMap[f] = {<<s.receipt, outcomes[f]>>}
    BY <1>1, <2>1, <2>2, OnFileOfBatch, BatchesPartitionFilings DEF OnFileMap
  <2>5. UNCHANGED GivenUp /\ b \notin GivenUp
    BY <1>1, <2>2 DEF GivenUp, StoreTypeOK
  <2>6. s.receipt \in Receipts
    BY <1>1 DEF StubTypeOK, Submissions
  <2> HIDE DEF outcomes
  <2>7. Contract!Settle(b)
    BY <1>2, <2>2, <2>3, <2>4, <2>5, <2>6 DEF Contract!Settle, OnFileMap, OnFile, GivenUp
  <2> QED
    BY <2>7
<1>7. CASE terminalTransition(w, b)
  <2>1. /\ state' = [state EXCEPT ![b] = "invariant_failed"] /\ UNCHANGED filing
        /\ state[b] \in BatchStates \ Terminal
    BY <1>7 DEF terminalTransition, RowMatches, FromStates
  <2>2. GivenUp' = GivenUp \cup {b} /\ b \notin GivenUp
    BY <1>1, <2>1 DEF GivenUp, StoreTypeOK, Terminal
  <2>3. \A f \in FilingsOf[b] : filing[f] = "batched"
    BY <1>1, <2>1 DEF AllOrNothing, Terminal
  <2>4. Contract!GiveUp(b)
    BY <1>2, <2>1, <2>2, <2>3 DEF Contract!GiveUp, OnFileMap, OnFile, GivenUp
  <2> QED
    BY <2>4
<1> QED
  BY <1>0, <1>1, <1>4, <1>5, <1>6, <1>7 DEF Apply

\* Every step of the system is a step of the contract or invisible to it.
LEMMA StepRefines == FiledInv /\ [Next]_vars => [Contract!Next]_(Contract!vars)
<1> SUFFICES ASSUME FiledInv, [Next]_vars
             PROVE  Contract!Next \/ UNCHANGED <<OnFileMap, filing, GivenUp>>
  BY DEF Contract!vars, OnFileMap, OnFile, GivenUp
<1>1. StubTypeOK /\ TypeOK
  BY DEF FiledInv, TypeOK
<1>2. ASSUME UNCHANGED <<ledger, filing, GivenUp>>
      PROVE  UNCHANGED <<OnFileMap, filing, GivenUp>>
  BY <1>2 DEF OnFileMap, OnFile
<1>3. ASSUME NEW b \in Batches, NEW answer, handleIntake(b, answer), UNCHANGED storeVars
      PROVE  Contract!Next \/ UNCHANGED <<OnFileMap, filing, GivenUp>>
  <2>1. UNCHANGED <<filing, GivenUp>>
    BY <1>3 DEF storeVars, GivenUp
  <2> QED
    BY <1>1, <1>3, <2>1, IntakeFiles DEF Contract!Next
<1>4. ASSUME NEW w \in Workers, NEW b \in Batches, Claim(w, b)
      PROVE  UNCHANGED <<OnFileMap, filing, GivenUp>>
  <2>1. UNCHANGED <<filing, GivenUp>>
    BY <1>1, <1>4 DEF Claim, ClaimNextBatch, Claimable, ClaimedState, Terminal, GivenUp,
                      TypeOK, StoreTypeOK
  <2> QED
    BY <1>2, <1>4, <2>1 DEF Claim, stubVars
<1>5. ASSUME NEW w \in Workers, Submit(w)
      PROVE  Contract!Next \/ UNCHANGED <<OnFileMap, filing, GivenUp>>
  <2>1. BatchOf(w) \in Batches
    BY <1>1, <1>5, BusyWorkerHasBatch DEF Submit, Steps
  <2> QED
    BY <1>3, <1>5, <2>1 DEF Submit, Answer
<1>6. ASSUME NEW w \in Workers, Record(w)
      PROVE  Contract!Next \/ UNCHANGED <<OnFileMap, filing, GivenUp>>
  BY <1>6, RecordSettles DEF Contract!Next
<1>7. ASSUME NEW b \in Batches, DeliverOrphan(b)
      PROVE  Contract!Next \/ UNCHANGED <<OnFileMap, filing, GivenUp>>
  BY <1>3, <1>7 DEF DeliverOrphan
<1>8. ASSUME NEW b \in Batches, LeaseExpires(b) \/ Acknowledge(b)
      PROVE  UNCHANGED <<ledger, filing, GivenUp>>
  BY <1>8 DEF LeaseExpires, ExpireLease, Acknowledge, AcknowledgmentAvailable, stubVars,
              storeVars, GivenUp
<1>9. ASSUME NEW w \in Workers,
             \/ AcquireCallPermit(w) \/ AcquireTimesOut(w) \/ Status(w) \/ StatusIncomplete(w)
             \/ CallFails(w) \/ Finish(w) \/ RecordFails(w) \/ Halt(w) \/ Restart(w)
      PROVE  UNCHANGED <<ledger, filing, GivenUp>>
  BY <1>9 DEF AcquireCallPermit, AcquireTimesOut, Status, StatusIncomplete, CallFails, Answer,
              Finish, RecordFails, Halt, Restart, stubVars, storeVars, GivenUp
<1>10. CASE UNCHANGED vars
  BY <1>2, <1>10 DEF vars, storeVars, stubVars, GivenUp
<1> QED
  BY <1>2, <1>4, <1>5, <1>6, <1>7, <1>8, <1>9, <1>10 DEF Next, Step, Environment

\* Nothing is on file, settled or given up at first.
LEMMA InitRefines == Init => Contract!Init
BY DEF Init, StubInit, StoreInit, Contract!Init

\* The store, the workers and the receiver together implement the contract, for
\* any constants, faults and timing.
THEOREM SystemImplementsContract == Spec => ImplementsContract
<1> QED
  BY InitRefines, StepRefines, FiledInvariance, PTL
     DEF Spec, ImplementsContract, Contract!Spec

-----------------------------------------------------------------------------
(* Retries: what a worker knows of its batch while it calls the receiver *)

Busy(w) == pc[w] \notin {"idle", "stopped"}

\* Without any assumption on timing:

\* While the claim is still the worker's, its copy of the row is current.
WorkIsRow(w) ==
    LET b == BatchOf(w)
    IN  claim[b] = w =>
          /\ state[b] \in {"submitting", "submit_unknown", "awaiting_ack"}
          /\ work[w].action = NextAction(state[b])
          /\ work[w].attempt = attempts[b]

\* A receipt that was read from the row is on file for the batch.
WorkReceiptOnFile(w) ==
    work[w].receipt # NoReceipt =>
       \E s \in ledger : s.batch = BatchOf(w) /\ s.receipt = work[w].receipt

\* The replies that do not end in giving the batch up before its budget ends.
ReplyJustified(w) ==
    IF work[w].action = "submit"
      THEN reply[w].kind \in {"receipt", "duplicate_utid", "unavailable"}
      ELSE /\ reply[w].kind \in {"not_found", "processing", "results", "unavailable"}
           /\ reply[w].kind = "not_found" => SearchesUTID(w)
           /\ reply[w].kind \in {"processing", "results"} => ~IdentityMismatch(w)

WorkerInv(w) ==
    /\ Busy(w) => WorkIsRow(w) /\ WorkReceiptOnFile(w)
    /\ pc[w] \in {"answered", "finished"} /\ "refused" \notin Faults => ReplyJustified(w)

ReceiptsUnique == \A s, t \in ledger : s.receipt = t.receipt => s = t

RetryInv ==
    /\ FiledInv
    /\ ReceiptsUnique
    /\ \A w \in Workers : WorkerInv(w)
    /\ NoEarlyGiveUp

-----------------------------------------------------------------------------
(* With leases that cover calls and a fence that outlasts stray requests *)

Unfiled(b) == findByUTID(b) = {} /\ b \notin orphans

\* A worker that works on a batch is the only one.
HoldsClaim(w) == claim[BatchOf(w)] = w /\ leaseLive[BatchOf(w)]

\* A lookup is made once no submit of its batch is under way, so what it does
\* not find is not on file.
LookupIsSettled(w) ==
    work[w].action = "lookup_by_utid" =>
       /\ pc[w] \in {"calling", "answered", "finished"} => BatchOf(w) \notin orphans
       /\ pc[w] \in {"answered", "finished"} /\ reply[w].kind = "not_found" =>
             findByUTID(BatchOf(w)) = {}

CallerInv(w) ==
    Busy(w) =>
       /\ HoldsClaim(w)
       /\ pc[w] \in {"claimed", "calling"} /\ work[w].action = "submit" =>
             Unfiled(BatchOf(w))
       /\ LookupIsSettled(w)

PlannedUnfiled(b) == state[b] = "planned" => Unfiled(b)

FenceInv ==
    /\ RetryInv
    /\ LeaseCoversCalls /\ FenceDrainsNetwork =>
         /\ \A w \in Workers : CallerInv(w)
         /\ \A b \in Batches : PlannedUnfiled(b)

-----------------------------------------------------------------------------
(* What the store's and the receiver's steps do to a row and to the ledger *)

\* Recording a reply releases the claim, leaves the attempts alone and moves
\* the worker's own batch only; the batch ends in a named way.
LEMMA ApplyReleases ==
    ASSUME StoreTypeOK, NEW w \in Workers, BatchOf(w) \in Batches, Apply(w)
    PROVE  /\ claim' = [claim EXCEPT ![BatchOf(w)] = NoWorker]
           /\ leaseLive' = [leaseLive EXCEPT ![BatchOf(w)] = FALSE]
           /\ attempts' = attempts
           /\ claim[BatchOf(w)] = w
           /\ \A b \in Batches \ {BatchOf(w)} : state'[b] = state[b]
           /\ state'[BatchOf(w)] = "planned" =>
                 LifecycleCall(w) = "RecordReferenceNotFound" /\ state[BatchOf(w)] = "submit_unknown"
           /\ state'[BatchOf(w)] = "invariant_failed" => LifecycleCall(w) = "terminalTransition"
<1> DEFINE b == BatchOf(w)
<1> USE DEF StoreTypeOK, eventTransition, ReleaseClaim, RowMatches, LiveClaim, FromStates
<1>1. CASE RecordSubmitAccepted(w, b, reply[w].receipt)
  BY <1>1 DEF RecordSubmitAccepted
<1>2. CASE RecordSubmitUnknown(w, b)
  BY <1>2 DEF RecordSubmitUnknown
<1>3. CASE RecordReferenceFound(w, b, reply[w].receipt)
  BY <1>3 DEF RecordReferenceFound
<1>4. CASE LifecycleCall(w) = "RecordReferenceNotFound" /\ RecordReferenceNotFound(w, b)
  BY <1>4 DEF RecordReferenceNotFound
<1>5. CASE RecordAcknowledgmentPending(w, b)
  BY <1>5 DEF RecordAcknowledgmentPending
<1>6. CASE RecordStatusUnavailable(w, b)
  BY <1>6 DEF RecordStatusUnavailable
<1>7. CASE CompleteAcknowledgment(w, b, reply[w].outcomes)
  BY <1>7 DEF CompleteAcknowledgment
<1>8. CASE LifecycleCall(w) = "terminalTransition" /\ terminalTransition(w, b)
  BY <1>8 DEF terminalTransition
<1> QED
  BY <1>1, <1>2, <1>3, <1>4, <1>5, <1>6, <1>7, <1>8 DEF Apply

\* An intake request records at most a submission of the batch it carries, under
\* a receipt that was never used; it is never refused as a duplicate record.
LEMMA IntakeRecords ==
    ASSUME StubTypeOK, ReceiptsUnique, NEW b \in Batches, NEW answer \in IntakeReplies,
           handleIntake(b, answer)
    PROVE  /\ ReceiptsUnique'
           /\ \A s \in ledger' : s \in ledger \/ s.batch = b
           /\ answer.kind \in {"receipt", "duplicate_utid", "unavailable"}
<1>1. CASE RefuseDuplicate(b, answer)
  <2>1. \A s \in ledger : FilingsOf[b] \cap FilingsOf[s.batch] # {} => s.batch = b
    BY BatchesPartitionFilings DEF StubTypeOK, Submissions
  <2>2. findByUTID(b) # {}
    BY <1>1, <2>1 DEF RefuseDuplicate, IsDuplicate, originalRecords, findByUTID
  <2>3. answer.kind = "duplicate_utid"
    BY <1>1, <2>2 DEF RefuseDuplicate, DuplicateReply, Bare
  <2> QED
    BY <1>1, <2>3 DEF RefuseDuplicate, stubVars, ReceiptsUnique
<1>2. CASE FailBeforeRecord(b, answer)
  BY <1>2 DEF FailBeforeRecord, stubVars, ReceiptsUnique, Bare
<1>3. CASE RecordSubmission(b, answer)
  <2>1. PICK r \in FreshReceipts, results \in [FilingsOf[b] -> Verdicts] :
          /\ ledger' = ledger \cup {[batch |-> b, receipt |-> r, results |-> results]}
          /\ answer \in {ReceiptReply(r), Bare("unavailable")}
    BY <1>3 DEF RecordSubmission
  <2>2. \A s \in ledger : s.receipt # r
    BY <2>1 DEF FreshReceipts, findByReceiptID
  <2>3. answer.kind \in {"receipt", "unavailable"}
    BY <2>1 DEF ReceiptReply, Bare
  <2>4. \A s \in ledger' : s \in ledger \/ s.batch = b
    BY <2>1
  <2>5. ReceiptsUnique'
    BY <2>1, <2>2 DEF ReceiptsUnique
  <2> QED
    BY <2>3, <2>4, <2>5
<1> QED
  BY <1>1, <1>2, <1>3 DEF handleIntake

-----------------------------------------------------------------------------
(* A worker between its own steps *)

\* Nothing that others do changes what a worker knows, unless its claim is gone.
LEMMA WaitingWorkerKept ==
    ASSUME NEW v \in Workers, WorkerInv(v), ReceiverGrows,
           pc'[v] = pc[v], work'[v] = work[v], reply'[v] = reply[v],
           Busy(v) /\ claim'[BatchOf(v)] = v =>
              /\ claim[BatchOf(v)] = v
              /\ state'[BatchOf(v)] = state[BatchOf(v)]
              /\ attempts'[BatchOf(v)] = attempts[BatchOf(v)]
    PROVE  WorkerInv(v)'
<1>1. BatchOf(v)' = BatchOf(v) /\ Busy(v)' = Busy(v)
  BY DEF BatchOf, Busy
<1>2. WorkIsRow(v) /\ Busy(v) => WorkIsRow(v)'
  BY <1>1 DEF WorkIsRow
<1>3. WorkReceiptOnFile(v) => WorkReceiptOnFile(v)'
  BY <1>1 DEF WorkReceiptOnFile, ReceiverGrows
<1>4. ReplyJustified(v) => ReplyJustified(v)'
  BY <1>1 DEF ReplyJustified, SearchesUTID, IdentityMismatch
<1> QED
  BY <1>1, <1>2, <1>3, <1>4 DEF WorkerInv

\* A worker that has stopped or has nothing to do knows nothing.
LEMMA RestingWorker ==
    ASSUME NEW w \in Workers, pc'[w] \in {"idle", "stopped"}
    PROVE  WorkerInv(w)'
BY DEF WorkerInv, Busy

\* The reply of a call is one that its action can get.
LEMMA AnswerKeepsWorker ==
    ASSUME TypeOK, NEW w \in Workers, pc[w] = "calling", WorkerInv(w), ReceiverGrows,
           NEW answer \in Replies, Answer(w, answer),
           "refused" \notin Faults =>
              IF work[w].action = "submit"
                THEN answer.kind \in {"receipt", "duplicate_utid", "unavailable"}
                ELSE /\ answer.kind \in {"not_found", "processing", "results", "unavailable"}
                     /\ answer.kind = "not_found" => SearchesUTID(w)
                     /\ answer.kind \in {"processing", "results"} =>
                          /\ answer.utid = BatchOf(w)
                          /\ work[w].receipt # NoReceipt => answer.receipt = work[w].receipt
    PROVE  WorkerInv(w)'
<1>1. /\ reply'[w] = answer /\ pc'[w] = "answered" /\ work' = work
      /\ claim' = claim /\ state' = state /\ attempts' = attempts
  BY DEF TypeOK, Answer, Goto, storeVars
<1>2. Busy(w) /\ WorkIsRow(w) /\ WorkReceiptOnFile(w)
  BY DEF Busy, WorkerInv
<1>3. WorkIsRow(w)' /\ WorkReceiptOnFile(w)'
  BY <1>1, <1>2 DEF WorkIsRow, WorkReceiptOnFile, BatchOf, ReceiverGrows
<1>4. "refused" \notin Faults => ReplyJustified(w)'
  BY <1>1 DEF ReplyJustified, SearchesUTID, IdentityMismatch, BatchOf
<1> QED
  BY <1>3, <1>4 DEF WorkerInv

\* A claim copies the row.
LEMMA ClaimKeepsWorker ==
    ASSUME RetryInv, NEW w \in Workers, NEW b \in Batches, Claim(w, b)
    PROVE  WorkerInv(w)'
<1>1. StoreTypeOK /\ ReceiptIsOnFile /\ TypeOK
  BY DEF RetryInv, FiledInv, TypeOK, BooksInv
<1>2. /\ work'[w] = [batch |-> b, action |-> NextAction(state'[b]), attempt |-> attempts'[b],
                     receipt |-> receipt[b]]
      /\ pc'[w] = "claimed" /\ ledger' = ledger
  BY <1>1 DEF Claim, TypeOK, Goto, stubVars
<1>3. state'[b] \in {"submitting", "submit_unknown", "awaiting_ack"}
  BY <1>1 DEF Claim, ClaimNextBatch, Claimable, ClaimedState, StoreTypeOK, BatchStates, Terminal
<1>4. BatchOf(w)' = b
  BY <1>2 DEF BatchOf
<1>5. WorkIsRow(w)'
  BY <1>2, <1>3, <1>4 DEF WorkIsRow
<1>6. WorkReceiptOnFile(w)'
  BY <1>1, <1>2, <1>4 DEF WorkReceiptOnFile, ReceiptIsOnFile
<1> QED
  BY <1>2, <1>5, <1>6 DEF WorkerInv

\* A status call answers a search by UTID or by receipt with the batch's own
\* submission: there is at most one, and it has the receipt the row keeps.
LEMMA StatusFindsOwn ==
    ASSUME RetryInv, NEW w \in Workers, Busy(w), NEW s \in ledger,
           s \in IF SearchesUTID(w) THEN findByUTID(BatchOf(w))
                                    ELSE findByReceiptID(work[w].receipt)
    PROVE  /\ s.batch = BatchOf(w)
           /\ work[w].receipt # NoReceipt => s.receipt = work[w].receipt
<1>1. WorkReceiptOnFile(w) /\ LedgerUnique /\ ReceiptsUnique
  BY DEF RetryInv, FiledInv, WorkerInv
<1>2. CASE SearchesUTID(w)
  BY <1>1, <1>2 DEF findByUTID, WorkReceiptOnFile, LedgerUnique
<1>3. CASE ~SearchesUTID(w)
  BY <1>1, <1>3 DEF findByReceiptID, SearchesUTID, WorkReceiptOnFile, ReceiptsUnique
<1> QED
  BY <1>2, <1>3

\* When a worker gives its batch up, its budget is spent.
LEMMA GivingUpIsLate ==
    ASSUME RetryInv, "refused" \notin Faults, NEW w \in Workers, pc[w] = "finished",
           LifecycleCall(w) = "terminalTransition"
    PROVE  Exhausted(w)
<1>1. ReplyJustified(w)
  BY DEF RetryInv, WorkerInv
<1>2. CASE work[w].action = "submit"
  <2>1. SubmitCall(w) = "terminalTransition"
    BY <1>2 DEF LifecycleCall
  <2> QED
    BY <1>1, <1>2, <2>1 DEF ReplyJustified, SubmitCall
<1>3. CASE work[w].action # "submit"
  <2>1. StatusCall(w) = "terminalTransition"
    BY <1>3 DEF LifecycleCall
  <2>2. CASE reply[w].kind = "unavailable"
    BY <2>1, <2>2 DEF StatusCall
  <2>3. CASE reply[w].kind = "not_found"
    BY <1>1, <1>3, <2>1, <2>3 DEF ReplyJustified, StatusCall
  <2>4. CASE reply[w].kind \in {"processing", "results"}
    <3>1. ~IdentityMismatch(w)
      BY <1>1, <1>3, <2>4 DEF ReplyJustified
    <3>2. StatusCall(w) \in {"RecordReferenceFound", "RecordAcknowledgmentPending",
                             "CompleteAcknowledgment"}
      BY <2>4, <3>1 DEF StatusCall
    <3> QED
      BY <2>1, <3>2
  <2> QED
    BY <1>1, <1>3, <2>2, <2>3, <2>4 DEF ReplyJustified
<1> QED
  BY <1>2, <1>3

-----------------------------------------------------------------------------
(* Every step *)

\* Nobody is busy and nothing is on file at first.
LEMMA InitRetry == Init => RetryInv
<1> SUFFICES ASSUME Init PROVE RetryInv
  OBVIOUS
<1>1. ReceiptsUnique /\ NoEarlyGiveUp /\ \A w \in Workers : WorkerInv(w)
  BY DEF Init, StubInit, StoreInit, ReceiptsUnique, NoEarlyGiveUp, WorkerInv, Busy
<1> QED
  BY <1>1, InitFiled DEF RetryInv

\* Every action keeps what busy workers know, and only spent batches given up.
LEMMA NextRetry == RetryInv /\ [Next]_vars => RetryInv'
<1> SUFFICES ASSUME RetryInv, [Next]_vars PROVE RetryInv'
  OBVIOUS
<1>f. FiledInv'
  BY NextFiled DEF RetryInv
<1>i. /\ TypeOK /\ StoreTypeOK /\ StubTypeOK /\ LedgerUnique /\ ReceiptsUnique /\ NoEarlyGiveUp
      /\ \A w \in Workers : WorkerInv(w)
  BY DEF RetryInv, FiledInv, TypeOK
<1>s. UNCHANGED stubVars => ReceiptsUnique' /\ ReceiverGrows
  BY <1>i DEF stubVars, ReceiptsUnique, ReceiverGrows
<1>g. UNCHANGED <<state, attempts>> => NoEarlyGiveUp'
  BY <1>i DEF NoEarlyGiveUp
<1> USE DEF Goto, Forget
<1>o. ASSUME NEW w \in Workers, ReceiverGrows, UNCHANGED <<state, attempts, claim>>,
             \A v \in Workers \ {w} : pc'[v] = pc[v] /\ work'[v] = work[v] /\ reply'[v] = reply[v],
             WorkerInv(w)'
      PROVE  \A v \in Workers : WorkerInv(v)'
  BY <1>i, <1>o, WaitingWorkerKept
<1>1. ASSUME NEW w \in Workers, NEW b \in Batches, Claim(w, b) PROVE RetryInv'
  <2>1. WorkerInv(w)'
    BY <1>1, ClaimKeepsWorker
  <2>2. ASSUME NEW v \in Workers \ {w} PROVE WorkerInv(v)'
    <3>1. pc'[v] = pc[v] /\ work'[v] = work[v] /\ reply'[v] = reply[v]
      BY <1>1, <1>i DEF Claim, TypeOK
    <3>2. Busy(v) => BatchOf(v) \in Batches
      BY <1>i, BusyWorkerHasBatch DEF Busy, TypeOK
    <3>3. Busy(v) /\ claim'[BatchOf(v)] = v =>
            /\ claim[BatchOf(v)] = v
            /\ state'[BatchOf(v)] = state[BatchOf(v)]
            /\ attempts'[BatchOf(v)] = attempts[BatchOf(v)]
      BY <1>1, <1>i, <3>2 DEF Claim, ClaimNextBatch, StoreTypeOK
    <3> QED
      BY <1>1, <1>i, <1>s, <3>1, <3>3, WaitingWorkerKept DEF Claim
  <2>3. NoEarlyGiveUp'
    <3>1. state'[b] # "invariant_failed"
      BY <1>1, <1>i DEF Claim, ClaimNextBatch, Claimable, ClaimedState, StoreTypeOK, Terminal
    <3>2. \A c \in Batches \ {b} : state'[c] = state[c] /\ attempts'[c] = attempts[c]
      BY <1>1, <1>i DEF Claim, ClaimNextBatch, StoreTypeOK
    <3> QED
      BY <1>i, <3>1, <3>2 DEF NoEarlyGiveUp
  <2> QED
    BY <1>1, <1>f, <1>s, <2>1, <2>2, <2>3 DEF RetryInv, Claim
<1>2. ASSUME NEW w \in Workers, AcquireCallPermit(w) \/ Finish(w) PROVE RetryInv'
  <2>1. /\ UNCHANGED storeVars /\ UNCHANGED stubVars /\ UNCHANGED <<work, reply>>
        /\ \A v \in Workers \ {w} : pc'[v] = pc[v]
        /\ pc[w] \in {"claimed", "answered"}
        /\ pc'[w] = IF pc[w] = "claimed" THEN "calling" ELSE "finished"
    BY <1>2, <1>i DEF AcquireCallPermit, Finish, TypeOK
  <2>2. Busy(w) /\ Busy(w)'
    BY <2>1 DEF Busy
  <2>3. WorkerInv(w)'
    <3>1. BatchOf(w)' = BatchOf(w)
      BY <2>1 DEF BatchOf
    <3>2. WorkIsRow(w)' /\ WorkReceiptOnFile(w)'
      BY <1>i, <2>1, <2>2, <3>1 DEF WorkerInv, WorkIsRow, WorkReceiptOnFile, storeVars, stubVars
    <3>3. pc'[w] \in {"answered", "finished"} => pc[w] = "answered"
      BY <2>1
    <3>4. ReplyJustified(w) => ReplyJustified(w)'
      BY <2>1, <3>1 DEF ReplyJustified, SearchesUTID, IdentityMismatch
    <3> QED
      BY <1>i, <3>2, <3>3, <3>4 DEF WorkerInv
  <2> QED
    BY <1>f, <1>s, <1>g, <1>o, <2>1, <2>3 DEF RetryInv, storeVars
<1>3. ASSUME NEW w \in Workers, AcquireTimesOut(w) \/ RecordFails(w) \/ Halt(w) \/ Restart(w)
      PROVE  RetryInv'
  <2>1. /\ UNCHANGED storeVars /\ UNCHANGED stubVars /\ pc'[w] \in {"idle", "stopped"}
        /\ \A v \in Workers \ {w} : pc'[v] = pc[v] /\ work'[v] = work[v] /\ reply'[v] = reply[v]
    BY <1>3, <1>i DEF AcquireTimesOut, RecordFails, Halt, Restart, TypeOK
  <2>2. WorkerInv(w)'
    BY <2>1, RestingWorker
  <2> QED
    BY <1>f, <1>s, <1>g, <1>o, <2>1, <2>2 DEF RetryInv, storeVars
<1>a. ASSUME NEW w \in Workers, NEW answer, Answer(w, answer), ReceiverGrows, ReceiptsUnique',
             WorkerInv(w)'
      PROVE  RetryInv'
  <2>1. /\ UNCHANGED storeVars
        /\ \A v \in Workers \ {w} : pc'[v] = pc[v] /\ work'[v] = work[v] /\ reply'[v] = reply[v]
    BY <1>a, <1>i DEF Answer, TypeOK
  <2> QED
    BY <1>f, <1>g, <1>o, <1>a, <2>1 DEF RetryInv, storeVars
<1>4. ASSUME NEW w \in Workers, Submit(w) PROVE RetryInv'
  <2>1. PICK answer \in IntakeReplies : handleIntake(BatchOf(w), answer) /\ Answer(w, answer)
    BY <1>4 DEF Submit
  <2>2. BatchOf(w) \in Batches /\ answer \in Replies
    BY <1>4, <1>i, BusyWorkerHasBatch, IntakeRepliesAreReplies DEF Submit, Steps
  <2>3. ReceiptsUnique' /\ ReceiverGrows /\ answer.kind \in {"receipt", "duplicate_utid", "unavailable"}
    BY <1>i, <2>1, <2>2, IntakeRecords, IntakeKeepsLedger
  <2>4. WorkerInv(w)'
    BY <1>4, <1>i, <2>1, <2>2, <2>3, AnswerKeepsWorker DEF Submit
  <2> QED
    BY <1>a, <2>1, <2>3, <2>4
<1>5. ASSUME NEW w \in Workers, Status(w) PROVE RetryInv'
  <2> DEFINE found == IF SearchesUTID(w) THEN findByUTID(BatchOf(w))
                                         ELSE findByReceiptID(work[w].receipt)
  <2>1. PICK answer \in handleStatus(found) : Answer(w, answer)
    BY <1>5 DEF Status
  <2>2. Busy(w) /\ pc[w] = "calling" /\ work[w].action # "submit" /\ UNCHANGED stubVars
    BY <1>5 DEF Status, Busy
  <2>3. CASE found = {}
    <3>1. answer = Bare("not_found")
      BY <2>1, <2>3 DEF handleStatus
    <3>2. answer \in Replies /\ answer.kind = "not_found"
      BY <3>1, BareIsReply DEF Bare, ReplyKinds
    <3>3. SearchesUTID(w)
      BY <1>i, <2>2, <2>3 DEF WorkerInv, WorkReceiptOnFile, SearchesUTID, findByReceiptID
    <3>4. WorkerInv(w)'
      BY <1>i, <1>s, <2>1, <2>2, <3>2, <3>3, AnswerKeepsWorker
    <3> QED
      BY <1>a, <1>s, <2>1, <2>2, <3>4
  <2>4. CASE found # {}
    <3>1. PICK s \in found : answer = StatusOf(s)
      BY <2>1, <2>4 DEF handleStatus
    <3>2. s \in ledger /\ s \in Submissions
      BY <1>i, <3>1 DEF findByUTID, findByReceiptID, StubTypeOK
    <3>3. s.batch = BatchOf(w) /\ (work[w].receipt # NoReceipt => s.receipt = work[w].receipt)
      BY <2>2, <3>1, <3>2, StatusFindsOwn
    <3>4. /\ answer \in Replies /\ answer.kind \in {"processing", "results"}
          /\ answer.utid = s.batch /\ answer.receipt = s.receipt
      BY <3>1, <3>2, StatusIsReply DEF StatusOf
    <3>5. WorkerInv(w)'
      BY <1>i, <1>s, <2>1, <2>2, <3>3, <3>4, AnswerKeepsWorker
    <3> QED
      BY <1>a, <1>s, <2>1, <2>2, <3>5
  <2> QED
    BY <2>3, <2>4
<1>6. ASSUME NEW w \in Workers, StatusIncomplete(w) PROVE RetryInv'
  <2>1. PICK s \in findByReceiptID(work[w].receipt), lost \in FilingsOf[BatchOf(w)] :
          /\ s.batch \in acked
          /\ Answer(w, [StatusOf(s) EXCEPT !.outcomes =
                          [f \in DOMAIN s.results \ {lost} |-> s.results[f]]])
    BY <1>6 DEF StatusIncomplete
  <2> DEFINE part == [f \in DOMAIN s.results \ {lost} |-> s.results[f]]
             answer == [StatusOf(s) EXCEPT !.outcomes = part]
  <2>2. /\ Busy(w) /\ pc[w] = "calling" /\ work[w].action # "submit" /\ UNCHANGED stubVars
        /\ s \in ledger /\ s.receipt = work[w].receipt /\ s \in Submissions
    BY <1>6, <1>i, <2>1 DEF StatusIncomplete, Busy, findByReceiptID, StubTypeOK
  <2>3. s.batch = BatchOf(w)
    <3>1. work[w].receipt # NoReceipt
      BY <2>2, NullsAreDistinct DEF Submissions
    <3> QED
      BY <1>i, <2>2, <3>1 DEF WorkerInv, WorkReceiptOnFile, ReceiptsUnique
  <2>4. part \in Outcomes /\ StatusOf(s) \in Replies
    BY <2>2, PartOfOutcomes, StatusIsReply DEF Submissions
  <2>5. /\ answer \in Replies /\ answer.kind \in {"processing", "results"}
        /\ answer.utid = s.batch /\ answer.receipt = s.receipt
    <3> HIDE DEF part
    <3> QED
      BY <2>4 DEF Replies, StatusOf
  <2> HIDE DEF part, answer
  <2>6. Answer(w, answer)
    BY <2>1 DEF part, answer
  <2>7. WorkerInv(w)'
    BY <1>i, <1>s, <2>2, <2>3, <2>5, <2>6, AnswerKeepsWorker
  <2> QED
    BY <1>a, <1>s, <2>2, <2>6, <2>7
<1>7. ASSUME NEW w \in Workers, CallFails(w) PROVE RetryInv'
  <2>1. PICK kind \in Faults \ {"incomplete"} : Answer(w, Bare(kind))
    BY <1>7 DEF CallFails
  <2>2. /\ Bare(kind) \in Replies /\ Bare(kind).kind = kind
        /\ kind \in {"unavailable", "refused"}
    BY FaultsAreKnown, BareIsReply DEF ReplyKinds, Bare
  <2>3. pc[w] = "calling" /\ UNCHANGED stubVars
    BY <1>7 DEF CallFails
  <2>4. "refused" \notin Faults => Bare(kind).kind = "unavailable"
    BY <2>1, <2>2
  <2>5. WorkerInv(w)'
    BY <1>i, <1>s, <2>1, <2>2, <2>3, <2>4, AnswerKeepsWorker
  <2> QED
    BY <1>a, <1>s, <2>1, <2>3, <2>5
<1>8. ASSUME NEW w \in Workers, Record(w) PROVE RetryInv'
  <2> DEFINE b == BatchOf(w)
  <2>1. /\ Apply(w) /\ b \in Batches /\ pc[w] = "finished" /\ UNCHANGED stubVars
        /\ pc'[w] = "idle"
        /\ \A v \in Workers \ {w} : pc'[v] = pc[v] /\ work'[v] = work[v] /\ reply'[v] = reply[v]
    BY <1>8, <1>i, BusyWorkerHasBatch DEF Record, Steps, TypeOK
  <2>2. /\ claim' = [claim EXCEPT ![b] = NoWorker] /\ attempts' = attempts /\ claim[b] = w
        /\ \A c \in Batches \ {b} : state'[c] = state[c]
        /\ state'[b] = "invariant_failed" => LifecycleCall(w) = "terminalTransition"
    BY <1>i, <2>1, ApplyReleases
  <2>3. ASSUME NEW v \in Workers \ {w} PROVE WorkerInv(v)'
    <3>1. Busy(v) => BatchOf(v) \in Batches
      BY <1>i, BusyWorkerHasBatch DEF Busy, TypeOK
    <3>2. Busy(v) /\ claim'[BatchOf(v)] = v => BatchOf(v) # b /\ claim[BatchOf(v)] = v
      BY <1>i, <2>2, <3>1, NullsAreDistinct DEF StoreTypeOK
    <3> QED
      BY <1>i, <1>s, <2>1, <2>2, <3>1, <3>2, WaitingWorkerKept
  <2>4. WorkerInv(w)'
    BY <2>1, RestingWorker
  <2>5. NoEarlyGiveUp'
    <3> SUFFICES ASSUME "refused" \notin Faults, state'[b] = "invariant_failed"
                 PROVE  attempts[b] = MaxAttempts
      BY <1>i, <2>2 DEF NoEarlyGiveUp
    <3>1. work[w].attempt >= MaxAttempts
      BY <2>1, <2>2, GivingUpIsLate DEF Exhausted
    <3>2. work[w].attempt = attempts[b]
      BY <1>i, <2>1, <2>2 DEF WorkerInv, WorkIsRow, Busy
    <3> QED
      BY <1>i, <2>1, <3>1, <3>2, MaxAttemptsPositive DEF StoreTypeOK
  <2> QED
    BY <1>f, <1>s, <2>1, <2>3, <2>4, <2>5 DEF RetryInv
<1>e. ASSUME UNCHANGED workerVars, UNCHANGED <<state, attempts, claim>>, ReceiverGrows
      PROVE  NoEarlyGiveUp' /\ \A v \in Workers : WorkerInv(v)'
  BY <1>e, <1>i, <1>g, WaitingWorkerKept DEF workerVars
<1>9. ASSUME NEW b \in Batches, LeaseExpires(b) PROVE RetryInv'
  BY <1>9, <1>e, <1>f, <1>s DEF LeaseExpires, ExpireLease, RetryInv
<1>10. ASSUME NEW b \in Batches, DeliverOrphan(b) PROVE RetryInv'
  <2>1. ReceiptsUnique' /\ ReceiverGrows
    BY <1>10, <1>i, IntakeRecords, IntakeKeepsLedger DEF DeliverOrphan
  <2> QED
    BY <1>10, <1>e, <1>f, <2>1 DEF DeliverOrphan, RetryInv, storeVars
<1>11. ASSUME NEW b \in Batches, Acknowledge(b) PROVE RetryInv'
  <2>1. ReceiptsUnique' /\ ReceiverGrows
    BY <1>11, <1>i DEF Acknowledge, AcknowledgmentAvailable, ReceiptsUnique, ReceiverGrows
  <2> QED
    BY <1>11, <1>e, <1>f, <2>1 DEF Acknowledge, RetryInv, storeVars
<1>12. CASE UNCHANGED vars
  BY <1>12, <1>e, <1>f, <1>s DEF vars, storeVars, RetryInv
<1> QED
  BY <1>1, <1>2, <1>3, <1>4, <1>5, <1>6, <1>7, <1>8, <1>9, <1>10, <1>11, <1>12
     DEF Next, Step, Environment

-----------------------------------------------------------------------------
(* Steps under the timing assumptions *)

\* No two workers work on one batch.
LEMMA OneWorkerPerBatch ==
    ASSUME NEW v \in Workers, NEW w \in Workers, CallerInv(v), CallerInv(w), Busy(v), Busy(w),
           BatchOf(v) = BatchOf(w)
    PROVE  v = w
BY DEF CallerInv, HoldsClaim

\* A step that concerns other batches leaves a worker's knowledge as it is.
LEMMA CallerKept ==
    ASSUME NEW v \in Workers, CallerInv(v),
           pc'[v] = pc[v], work'[v] = work[v], reply'[v] = reply[v],
           Busy(v) => /\ claim'[BatchOf(v)] = claim[BatchOf(v)]
                      /\ leaseLive'[BatchOf(v)] = leaseLive[BatchOf(v)]
                      /\ BatchOf(v) \in orphans' => BatchOf(v) \in orphans
                      /\ \A s \in ledger' : s.batch = BatchOf(v) => s \in ledger
    PROVE  CallerInv(v)'
BY DEF CallerInv, Busy, HoldsClaim, BatchOf, Unfiled, findByUTID, LookupIsSettled

\* So does it leave a planned row.
LEMMA PlannedKept ==
    ASSUME NEW b \in Batches, PlannedUnfiled(b), state'[b] = "planned" => state[b] = "planned",
           state[b] = "planned" =>
              /\ b \in orphans' => b \in orphans
              /\ \A s \in ledger' : s.batch = b => s \in ledger
    PROVE  PlannedUnfiled(b)'
BY DEF PlannedUnfiled, Unfiled, findByUTID

\* The conclusion of FenceInv, under its hypothesis.
Fenced == /\ \A w \in Workers : CallerInv(w)
          /\ \A b \in Batches : PlannedUnfiled(b)

\* A busy worker works on a batch of the system, which is not planned any more.
LEMMA BusyNotPlanned ==
    ASSUME RetryInv, Fenced, NEW w \in Workers, Busy(w)
    PROVE  BatchOf(w) \in Batches /\ state[BatchOf(w)] # "planned"
<1>1. BatchOf(w) \in Batches
  BY BusyWorkerHasBatch DEF RetryInv, FiledInv, Busy, TypeOK
<1>2. HoldsClaim(w) /\ WorkIsRow(w)
  BY DEF Fenced, CallerInv, RetryInv, WorkerInv
<1> QED
  BY <1>1, <1>2 DEF HoldsClaim, WorkIsRow

\* A call in which a worker's own submit, and nothing else, may reach the
\* receiver or stay under way.
LEMMA SubmittingKeepsFenced ==
    ASSUME RetryInv, Fenced, NEW w \in Workers, Busy(w), work[w].action = "submit",
           pc'[w] \notin {"claimed", "calling"}, work'[w] = work[w] \/ ~Busy(w)',
           \A v \in Workers \ {w} : pc'[v] = pc[v] /\ work'[v] = work[v] /\ reply'[v] = reply[v],
           UNCHANGED storeVars,
           \A s \in ledger' : s \in ledger \/ s.batch = BatchOf(w),
           orphans' \subseteq orphans \cup {BatchOf(w)}
    PROVE  Fenced'
<1>1. BatchOf(w) \in Batches /\ state[BatchOf(w)] # "planned"
  BY BusyNotPlanned
<1>2. ASSUME NEW v \in Workers \ {w} PROVE CallerInv(v)'
  <2>1. Busy(v) => BatchOf(v) # BatchOf(w)
    BY OneWorkerPerBatch DEF Fenced
  <2> QED
    BY <2>1, CallerKept DEF Fenced, storeVars
<1>3. CallerInv(w)'
  <2>1. CASE ~Busy(w)'
    BY <2>1 DEF CallerInv
  <2>2. CASE work'[w] = work[w]
    <3>1. HoldsClaim(w)'
      BY <2>2 DEF Fenced, CallerInv, HoldsClaim, BatchOf, storeVars
    <3> QED
      BY <2>2, <3>1 DEF CallerInv, LookupIsSettled
  <2> QED
    BY <2>1, <2>2
<1>4. \A b \in Batches : PlannedUnfiled(b)'
  BY <1>1, PlannedKept DEF Fenced, storeVars
<1> QED
  BY <1>2, <1>3, <1>4 DEF Fenced

\* A worker's other steps, between its claim and its recording, touch neither
\* the store nor the ledger nor the orphans.
LEMMA QuietKeepsFenced ==
    ASSUME Fenced, NEW w \in Workers, CallerInv(w)',
           \A v \in Workers \ {w} : pc'[v] = pc[v] /\ work'[v] = work[v] /\ reply'[v] = reply[v],
           UNCHANGED storeVars, UNCHANGED ledger, orphans' \subseteq orphans
    PROVE  Fenced'
<1>1. \A v \in Workers \ {w} : CallerInv(v)'
  BY CallerKept DEF Fenced, storeVars
<1>2. \A b \in Batches : PlannedUnfiled(b)'
  BY PlannedKept DEF Fenced, storeVars
<1> QED
  BY <1>1, <1>2 DEF Fenced

\* The fence holds through every step.
LEMMA NextFenced ==
    ASSUME LeaseCoversCalls, FenceDrainsNetwork, RetryInv, Fenced, [Next]_vars
    PROVE  Fenced'
<1>i. /\ TypeOK /\ StoreTypeOK /\ StubTypeOK /\ ReceiptsUnique
      /\ (\A w \in Workers : WorkerInv(w) /\ CallerInv(w)) /\ \A b \in Batches : PlannedUnfiled(b)
  BY DEF RetryInv, FiledInv, TypeOK, Fenced
<1>b. \A w \in Workers : Busy(w) => BatchOf(w) \in Batches
  BY <1>i, BusyWorkerHasBatch DEF Busy, TypeOK
<1> USE DEF Goto, Forget
<1>r. \A w \in Workers : pc'[w] \in {"idle", "stopped"} => CallerInv(w)'
  BY DEF CallerInv, Busy
<1>1. ASSUME NEW w \in Workers, NEW b \in Batches, Claim(w, b) PROVE Fenced'
  <2>1. /\ work'[w] = [batch |-> b, action |-> NextAction(state'[b]), attempt |-> attempts'[b],
                       receipt |-> receipt[b]]
        /\ pc'[w] = "claimed" /\ ledger' = ledger /\ orphans' = orphans
        /\ \A v \in Workers \ {w} : pc'[v] = pc[v] /\ work'[v] = work[v] /\ reply'[v] = reply[v]
    BY <1>1, <1>i DEF Claim, TypeOK, stubVars
  <2>2. /\ ~leaseLive[b] /\ claim'[b] = w /\ leaseLive'[b]
        /\ state'[b] = ClaimedState(state[b]) /\ state[b] \in BatchStates \ Terminal
        /\ \A c \in Batches \ {b} : /\ claim'[c] = claim[c] /\ leaseLive'[c] = leaseLive[c]
                                    /\ state'[c] = state[c]
    BY <1>1, <1>i DEF Claim, ClaimNextBatch, Claimable, StoreTypeOK
  <2>3. ASSUME NEW v \in Workers \ {w} PROVE CallerInv(v)'
    <3>1. Busy(v) => BatchOf(v) # b
      BY <1>i, <2>2 DEF CallerInv, HoldsClaim
    <3> QED
      BY <1>i, <1>b, <2>1, <2>2, <3>1, CallerKept
  <2>4. CallerInv(w)'
    <3>1. BatchOf(w)' = b
      BY <2>1 DEF BatchOf
    <3>2. work'[w].action = "submit" => state[b] = "planned"
      <4>1. state'[b] # "submitting" => NextAction(state'[b]) # "submit"
        BY DEF NextAction
      <4>2. state[b] # "planned" => state'[b] # "submitting"
        BY <2>2 DEF ClaimedState, BatchStates, Terminal
      <4> QED
        BY <2>1, <4>1, <4>2
    <3>3. work'[w].action = "submit" => Unfiled(b)'
      BY <1>i, <2>1, <3>2 DEF PlannedUnfiled, Unfiled, findByUTID
    <3> QED
      BY <2>1, <2>2, <3>1, <3>3 DEF CallerInv, HoldsClaim, LookupIsSettled
  <2>5. ASSUME NEW c \in Batches PROVE PlannedUnfiled(c)'
    <3>1. state'[c] = "planned" => state[c] = "planned"
      BY <2>2 DEF ClaimedState, BatchStates, Terminal
    <3> QED
      BY <1>i, <2>1, <3>1, PlannedKept
  <2> QED
    BY <2>3, <2>4, <2>5 DEF Fenced
<1>2. ASSUME NEW w \in Workers, AcquireCallPermit(w) PROVE Fenced'
  <2>1. /\ pc[w] = "claimed" /\ pc'[w] = "calling" /\ UNCHANGED <<storeVars, stubVars, work, reply, orphans>>
        /\ BatchOf(w) \notin orphans /\ \A v \in Workers \ {w} : pc'[v] = pc[v]
    BY <1>2, <1>i DEF AcquireCallPermit, TypeOK
  <2>2. CallerInv(w)'
    BY <1>i, <2>1 DEF CallerInv, Busy, HoldsClaim, BatchOf, Unfiled, findByUTID, LookupIsSettled,
                      storeVars, stubVars
  <2> QED
    BY <2>1, <2>2, QuietKeepsFenced DEF stubVars
<1>3. ASSUME NEW w \in Workers, AcquireTimesOut(w) \/ RecordFails(w) \/ Restart(w) PROVE Fenced'
  <2>1. /\ pc'[w] \in {"idle", "stopped"} /\ UNCHANGED <<storeVars, stubVars, orphans>>
        /\ \A v \in Workers \ {w} : pc'[v] = pc[v] /\ work'[v] = work[v] /\ reply'[v] = reply[v]
    BY <1>3, <1>i DEF AcquireTimesOut, RecordFails, Restart, TypeOK
  <2> QED
    BY <1>r, <2>1, QuietKeepsFenced DEF stubVars
<1>4. ASSUME NEW w \in Workers, Submit(w) PROVE Fenced'
  <2>1. PICK answer \in IntakeReplies : handleIntake(BatchOf(w), answer) /\ Answer(w, answer)
    BY <1>4 DEF Submit
  <2>2. /\ Busy(w) /\ work[w].action = "submit" /\ pc'[w] = "answered" /\ work' = work
        /\ \A v \in Workers \ {w} : pc'[v] = pc[v] /\ reply'[v] = reply[v]
        /\ UNCHANGED storeVars /\ orphans' = orphans
    BY <1>4, <1>i, <2>1 DEF Submit, Answer, Busy, TypeOK
  <2>3. \A s \in ledger' : s \in ledger \/ s.batch = BatchOf(w)
    BY <1>i, <1>b, <2>1, <2>2, IntakeRecords
  <2> QED
    BY <2>2, <2>3, SubmittingKeepsFenced
<1>5. ASSUME NEW w \in Workers, NEW answer \in Replies, pc[w] = "calling", Answer(w, answer),
             UNCHANGED <<ledger, orphans>>,
             work[w].action = "lookup_by_utid" /\ answer.kind = "not_found" =>
                findByUTID(BatchOf(w)) = {}
      PROVE  Fenced'
  <2>1. /\ reply'[w] = answer /\ pc'[w] = "answered" /\ UNCHANGED <<storeVars, work>>
        /\ \A v \in Workers \ {w} : pc'[v] = pc[v] /\ reply'[v] = reply[v]
    BY <1>5, <1>i DEF Answer, TypeOK
  <2>2. CallerInv(w) /\ Busy(w)
    BY <1>5, <1>i DEF Busy
  <2>3. CallerInv(w)'
    BY <1>5, <2>1, <2>2 DEF CallerInv, Busy, HoldsClaim, BatchOf, findByUTID, LookupIsSettled,
                            storeVars
  <2> QED
    BY <1>5, <2>1, <2>3, QuietKeepsFenced
<1>6. ASSUME NEW w \in Workers, Status(w) PROVE Fenced'
  <2> DEFINE found == IF SearchesUTID(w) THEN findByUTID(BatchOf(w))
                                         ELSE findByReceiptID(work[w].receipt)
  <2>1. PICK answer \in handleStatus(found) : Answer(w, answer)
    BY <1>6 DEF Status
  <2>2. work[w].action = "lookup_by_utid" => found = findByUTID(BatchOf(w))
    BY DEF SearchesUTID
  <2>3. found \subseteq ledger
    BY DEF findByUTID, findByReceiptID
  <2>4. answer \in Replies /\ (answer.kind = "not_found" => found = {})
    <3>1. CASE found = {}
      BY <2>1, <3>1, BareIsReply DEF handleStatus, ReplyKinds
    <3>2. CASE found # {}
      <4>1. PICK s \in found : answer = StatusOf(s)
        BY <2>1, <3>2 DEF handleStatus
      <4> QED
        BY <1>i, <2>3, <4>1, StatusIsReply DEF StatusOf, StubTypeOK
    <3> QED
      BY <3>1, <3>2
  <2> QED
    BY <1>5, <1>6, <2>1, <2>2, <2>4 DEF Status, stubVars
<1>7. ASSUME NEW w \in Workers, StatusIncomplete(w) PROVE Fenced'
  <2>1. PICK s \in findByReceiptID(work[w].receipt), lost \in FilingsOf[BatchOf(w)] :
          /\ s.batch \in acked
          /\ Answer(w, [StatusOf(s) EXCEPT !.outcomes =
                          [f \in DOMAIN s.results \ {lost} |-> s.results[f]]])
    BY <1>7 DEF StatusIncomplete
  <2> DEFINE part == [f \in DOMAIN s.results \ {lost} |-> s.results[f]]
             answer == [StatusOf(s) EXCEPT !.outcomes = part]
  <2>2. s \in Submissions /\ part \in Outcomes /\ StatusOf(s) \in Replies
    BY <1>i, <2>1, PartOfOutcomes, StatusIsReply DEF findByReceiptID, StubTypeOK, Submissions
  <2>3. answer \in Replies /\ answer.kind # "not_found"
    <3> HIDE DEF part
    <3> QED
      BY <2>2 DEF Replies, StatusOf
  <2> HIDE DEF part, answer
  <2>4. Answer(w, answer)
    BY <2>1 DEF part, answer
  <2> QED
    BY <1>5, <1>7, <2>3, <2>4 DEF StatusIncomplete, stubVars
<1>8. ASSUME NEW w \in Workers, CallFails(w) PROVE Fenced'
  <2>1. PICK kind \in Faults \ {"incomplete"} : Answer(w, Bare(kind))
    BY <1>8 DEF CallFails
  <2>2. Bare(kind) \in Replies /\ Bare(kind).kind # "not_found"
    BY FaultsAreKnown, BareIsReply DEF ReplyKinds, Bare
  <2>3. CASE work[w].action # "submit"
    BY <1>5, <1>8, <2>1, <2>2, <2>3 DEF CallFails, stubVars
  <2>4. CASE work[w].action = "submit"
    <3>1. /\ Busy(w) /\ pc'[w] = "answered" /\ work' = work /\ UNCHANGED <<storeVars, ledger>>
          /\ \A v \in Workers \ {w} : pc'[v] = pc[v] /\ reply'[v] = reply[v]
          /\ orphans' \subseteq orphans \cup {BatchOf(w)}
      BY <1>8, <1>i, <2>1, <2>4 DEF CallFails, Answer, Busy, TypeOK, stubVars
    <3> QED
      BY <2>4, <3>1, SubmittingKeepsFenced
  <2> QED
    BY <2>3, <2>4
<1>9. ASSUME NEW w \in Workers, Finish(w) PROVE Fenced'
  <2>1. /\ pc[w] = "answered" /\ pc'[w] = "finished" /\ UNCHANGED <<storeVars, stubVars, work, reply, orphans>>
        /\ \A v \in Workers \ {w} : pc'[v] = pc[v]
    BY <1>9, <1>i DEF Finish, TypeOK
  <2>2. CallerInv(w) /\ Busy(w)
    BY <1>i, <2>1 DEF Busy
  <2>3. CallerInv(w)'
    BY <2>1, <2>2 DEF CallerInv, Busy, HoldsClaim, BatchOf, findByUTID, LookupIsSettled,
                      storeVars, stubVars
  <2> QED
    BY <2>1, <2>3, QuietKeepsFenced DEF stubVars
<1>10. ASSUME NEW w \in Workers, Record(w) PROVE Fenced'
  <2>0. PICK b \in Batches : b = BatchOf(w)
    BY <1>10, <1>b DEF Record, Busy
  <2>1. /\ Apply(w) /\ pc[w] = "finished" /\ UNCHANGED <<ledger, orphans>>
        /\ pc'[w] = "idle"
        /\ \A v \in Workers \ {w} : pc'[v] = pc[v] /\ work'[v] = work[v] /\ reply'[v] = reply[v]
    BY <1>10, <1>i DEF Record, TypeOK, stubVars
  <2>2. /\ claim' = [claim EXCEPT ![b] = NoWorker] /\ leaseLive' = [leaseLive EXCEPT ![b] = FALSE]
        /\ \A c \in Batches \ {b} : state'[c] = state[c]
        /\ state'[b] = "planned" =>
              LifecycleCall(w) = "RecordReferenceNotFound" /\ state[b] = "submit_unknown"
    BY <1>i, <2>0, <2>1, ApplyReleases
  <2>3. ASSUME NEW v \in Workers \ {w} PROVE CallerInv(v)'
    <3>1. Busy(v) => BatchOf(v) # b /\ BatchOf(v) \in Batches
      BY <1>i, <1>b, <2>0, <2>1, OneWorkerPerBatch DEF Busy
    <3> QED
      BY <1>i, <2>1, <2>2, <3>1, CallerKept DEF StoreTypeOK
  <2>4. PlannedUnfiled(b)'
    <3> SUFFICES ASSUME state'[b] = "planned" PROVE Unfiled(b)
      BY <2>1 DEF PlannedUnfiled, Unfiled, findByUTID
    <3>1. work[w].action = "lookup_by_utid"
      <4>1. work[w].action = NextAction(state[b])
        BY <1>i, <2>0, <2>1 DEF WorkerInv, CallerInv, Busy, HoldsClaim, WorkIsRow
      <4> QED
        BY <2>2, <4>1 DEF NextAction
    <3>2. reply[w].kind = "not_found"
      <4>1. StatusCall(w) = "RecordReferenceNotFound"
        BY <2>2, <3>1 DEF LifecycleCall
      <4> QED
        BY <4>1 DEF StatusCall
    <3>3. LookupIsSettled(w)
      BY <1>i, <2>1 DEF CallerInv, Busy
    <3> QED
      BY <2>0, <2>1, <3>1, <3>2, <3>3 DEF LookupIsSettled, Unfiled
  <2>5. \A c \in Batches \ {b} : PlannedUnfiled(c)'
    BY <1>i, <2>1, <2>2, PlannedKept
  <2> QED
    BY <1>r, <2>1, <2>3, <2>4, <2>5 DEF Fenced
<1>11. ASSUME NEW w \in Workers, Halt(w) PROVE Fenced'
  <2>1. /\ pc'[w] = "stopped" /\ UNCHANGED <<storeVars, ledger>>
        /\ \A v \in Workers \ {w} : pc'[v] = pc[v] /\ work'[v] = work[v] /\ reply'[v] = reply[v]
    BY <1>11, <1>i DEF Halt, TypeOK, stubVars
  <2>2. CASE pc[w] = "calling" /\ work[w].action = "submit"
    <3>1. Busy(w) /\ ~Busy(w)' /\ orphans' = orphans \cup {BatchOf(w)}
      BY <1>11, <2>1, <2>2 DEF Halt, Busy
    <3> QED
      BY <2>1, <2>2, <3>1, SubmittingKeepsFenced
  <2>3. CASE ~(pc[w] = "calling" /\ work[w].action = "submit")
    BY <1>11, <1>r, <2>1, <2>3, QuietKeepsFenced DEF Halt
  <2> QED
    BY <2>2, <2>3
<1>12. ASSUME NEW b \in Batches, LeaseExpires(b) PROVE Fenced'
  <2>1. /\ UNCHANGED <<state, claim, ledger, orphans, pc, work, reply>>
        /\ \A c \in Batches \ {b} : leaseLive'[c] = leaseLive[c]
        /\ \A w \in Workers : claim[b] = w => BatchOf(w) # b
    BY <1>12, <1>i DEF LeaseExpires, ExpireLease, workerVars, stubVars, StoreTypeOK
  <2>2. \A v \in Workers : Busy(v) => BatchOf(v) # b
    BY <1>i, <2>1 DEF CallerInv, HoldsClaim
  <2>3. \A v \in Workers : CallerInv(v)'
    BY <1>i, <1>b, <2>1, <2>2, CallerKept
  <2> QED
    BY <1>i, <2>1, <2>3, PlannedKept DEF Fenced
<1>13. ASSUME NEW b \in Batches, DeliverOrphan(b) PROVE Fenced'
  <2>1. PICK answer \in IntakeReplies : handleIntake(b, answer)
    BY <1>13 DEF DeliverOrphan
  <2>2. /\ \A s \in ledger' : s \in ledger \/ s.batch = b
        /\ b \in orphans /\ orphans' = orphans \ {b} /\ UNCHANGED <<storeVars, workerVars>>
    BY <1>13, <1>i, <2>1, IntakeRecords DEF DeliverOrphan
  <2>3. ASSUME NEW v \in Workers PROVE CallerInv(v)'
    <3>1. CASE BatchOf(v) # b
      BY <1>i, <2>2, <3>1, CallerKept DEF storeVars, workerVars
    <3>2. CASE BatchOf(v) = b
      <4>1. UNCHANGED <<pc, work, reply, claim, leaseLive>>
        BY <2>2 DEF storeVars, workerVars
      <4>2. Busy(v) => HoldsClaim(v) /\ ~(pc[v] \in {"claimed", "calling"} /\ work[v].action = "submit")
        BY <1>i, <2>2, <3>2 DEF CallerInv, Unfiled
      <4>3. Busy(v) /\ work[v].action = "lookup_by_utid" => pc[v] \notin {"calling", "answered", "finished"}
        BY <1>i, <2>2, <3>2 DEF CallerInv, LookupIsSettled
      <4> QED
        BY <4>1, <4>2, <4>3 DEF CallerInv, Busy, HoldsClaim, BatchOf, LookupIsSettled
    <3> QED
      BY <3>1, <3>2
  <2>4. \A c \in Batches : PlannedUnfiled(c)'
    BY <1>i, <2>2 DEF PlannedUnfiled, Unfiled, findByUTID, storeVars
  <2> QED
    BY <2>3, <2>4 DEF Fenced
<1>14. CASE UNCHANGED vars \/ \E b \in Batches : Acknowledge(b)
  <2>1. UNCHANGED <<storeVars, workerVars, ledger, orphans>>
    BY <1>14 DEF vars, stubVars, Acknowledge, AcknowledgmentAvailable
  <2>2. \A v \in Workers : CallerInv(v)'
    BY <1>i, <2>1, CallerKept DEF storeVars, workerVars
  <2> QED
    BY <1>i, <2>1, <2>2, PlannedKept DEF Fenced, storeVars
<1> QED
  BY <1>1, <1>2, <1>3, <1>4, <1>6, <1>7, <1>8, <1>9, <1>10, <1>11, <1>12, <1>13, <1>14
     DEF Next, Step, Environment

-----------------------------------------------------------------------------
\* What workers know holds in every reachable state, whatever the timing.
LEMMA RetryInvariance == Spec => []RetryInv
BY InitRetry, NextRetry, PTL DEF Spec

\* Unless the receiver refuses a request, a batch is handed to a person only
\* after its whole retry budget, whatever crashes, late requests and expiring
\* leases do.
THEOREM NothingIsGivenUpEarly == Spec => []NoEarlyGiveUp
<1>1. RetryInv => NoEarlyGiveUp
  BY DEF RetryInv
<1> QED
  BY <1>1, RetryInvariance, PTL

\* Under the timing assumptions, everything a caller knows holds.
LEMMA FenceInvariance == Spec => []FenceInv
<1>0. FenceInv <=> RetryInv /\ (LeaseCoversCalls /\ FenceDrainsNetwork => Fenced)
  BY DEF FenceInv, Fenced
<1>1. Init => Fenced
  BY DEF Init, StubInit, Fenced, CallerInv, Busy, PlannedUnfiled, Unfiled, findByUTID
<1>2. FenceInv /\ [Next]_vars => FenceInv'
  BY <1>0, NextRetry, NextFenced DEF FenceInv, Fenced
<1>3. Init => FenceInv
  BY <1>0, <1>1, InitRetry
<1> QED
  BY <1>2, <1>3, PTL DEF Spec

\* When leases cover calls and the fence outlasts stray requests, no submit is
\* ever in progress for a batch that is or may yet come on file.
THEOREM SubmitsAreOfUnfiled == Spec => []SubmitOnlyUnfiled
<1>1. FenceInv => SubmitOnlyUnfiled
  BY DEF FenceInv, CallerInv, Busy, Unfiled, SubmitOnlyUnfiled
<1> QED
  BY <1>1, FenceInvariance, PTL
=============================================================================
