------------------------------ MODULE IrsStub -------------------------------
(***************************************************************************)
(* The receiver (irs/internal/stub): the submissions it has recorded, with *)
(* the per-filing results frozen when they were recorded, and which of     *)
(* them have passed acknowledgmentAvailableAt.  record runs under the      *)
(* stub's mutex, so one intake request is one step.                        *)
(*                                                                         *)
(* Extended by the module of the system that calls it; Batches, FilingsOf, *)
(* Receipts and the null values come from BatchStore.  The stub's verdict  *)
(* on a filing is a choice, as the receiver is not the filer's to predict. *)
(***************************************************************************)
EXTENDS BatchStore

CONSTANT NoBatch   \* a reply that names no UTID

ASSUME NoBatchIsDistinct == NoBatch \notin Batches

VARIABLES
    ledger,   \* recorded submissions: submissionsByFirmAndUTID, ...ByReceiptID
    acked     \* batches whose acknowledgment is available

stubVars == <<ledger, acked>>

\* A recorded submission: its UTID's batch, its receipt, its frozen results.
Submissions == [batch : Batches, receipt : Receipts, results : Outcomes]

\* What an HTTP call brings back: the class of its status code and error
\* code, and the parsed fields of its body.
ReplyKinds == {"none", "receipt", "duplicate_utid", "not_found", "processing",
               "results", "unavailable", "refused"}
Replies == [kind : ReplyKinds, utid : Batches \cup {NoBatch},
            receipt : Receipts \cup {NoReceipt}, outcomes : Outcomes]

NoOutcomes == [f \in {} |-> "accepted"]
Bare(k) == [kind |-> k, utid |-> NoBatch, receipt |-> NoReceipt,
            outcomes |-> NoOutcomes]
ReceiptReply(r) == [kind |-> "receipt", utid |-> NoBatch, receipt |-> r,
                    outcomes |-> NoOutcomes]

\* Everything the intake endpoint can answer.
IntakeReplies ==
    {Bare(k) : k \in {"duplicate_utid", "refused", "unavailable"}}
    \cup {ReceiptReply(r) : r \in Receipts}

StubTypeOK ==
    /\ ledger \subseteq Submissions
    /\ acked \subseteq Batches

StubInit == ledger = {} /\ acked = {}

findByUTID(b) == {s \in ledger : s.batch = b}
findByReceiptID(r) == {s \in ledger : s.receipt = r}
originalRecords == UNION {FilingsOf[s.batch] : s \in ledger}

\* newOpaqueID draws until the identifier is one it never generated.
FreshReceipts == {r \in Receipts : findByReceiptID(r) = {}}

\* record's two uniqueness checks, in its order; 409 DUPLICATE_RECORD is one
\* of the refusals that the client treats as terminal.
DuplicateReply(b) ==
    IF findByUTID(b) # {} THEN Bare("duplicate_utid") ELSE Bare("refused")

\* Mutant: only acknowledged submissions count as recorded.
IsDuplicateOnceAcked(b) == findByUTID(b) # {} /\ b \in acked

IsDuplicate(b) == findByUTID(b) # {} \/ FilingsOf[b] \cap originalRecords # {}

\* 409: nothing is recorded.
RefuseDuplicate(b, answer) ==
    /\ IsDuplicate(b)
    /\ answer = DuplicateReply(b)
    /\ UNCHANGED stubVars

\* 503 failBeforeRecord: nothing is recorded.
FailBeforeRecord(b, answer) ==
    /\ ~IsDuplicate(b)
    /\ answer = Bare("unavailable")
    /\ UNCHANGED stubVars

\* The submission is recorded with frozen results; the caller learns the
\* receipt, or 503 when the draw is failAfterRecord.
RecordSubmission(b, answer) ==
    /\ ~IsDuplicate(b)
    /\ \E r \in FreshReceipts, results \in [FilingsOf[b] -> Verdicts] :
         /\ ledger' = ledger \cup
                {[batch |-> b, receipt |-> r, results |-> results]}
         /\ answer \in {ReceiptReply(r), Bare("unavailable")}
    /\ UNCHANGED acked

handleIntake(b, answer) ==
    \/ RefuseDuplicate(b, answer)
    \/ FailBeforeRecord(b, answer)
    \/ RecordSubmission(b, answer)

\* The reply to a status request that found submission s.
StatusOf(s) ==
    [kind |-> IF s.batch \in acked THEN "results" ELSE "processing",
     utid |-> s.batch, receipt |-> s.receipt,
     outcomes |-> IF s.batch \in acked THEN s.results ELSE NoOutcomes]

\* The replies a status request can get, given the submissions it matches.
handleStatus(found) ==
    IF found = {} THEN {Bare("not_found")} ELSE {StatusOf(s) : s \in found}

\* now passes acknowledgmentAvailableAt; for a submission that drew
\* neverAcknowledges this never happens, so no fairness is assumed.
AcknowledgmentAvailable(b) ==
    /\ findByUTID(b) # {}
    /\ b \notin acked
    /\ acked' = acked \cup {b}
    /\ UNCHANGED ledger
=============================================================================
