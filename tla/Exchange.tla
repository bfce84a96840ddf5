------------------------------ MODULE Exchange -------------------------------
(***************************************************************************)
(* The calls of FilingSystem as they are on the wire: the requests that    *)
(* the client sends (service/internal/irsclient), what the receiver's two  *)
(* handlers make of them (irs/internal/stub/server.go), the responses,     *)
(* the ones that a gateway puts in their place, what the client reads in   *)
(* them and what the worker concludes.  Claims, permits, crashes and the   *)
(* store are FilingSystem's, taken through the refinement mapping; other   *)
(* firms file with the same receiver.                                      *)
(*                                                                         *)
(* Data abstractions.  A response body is its root element and the fields  *)
(* below it; "strict" says that it is one well-formed tree of known        *)
(* elements within the size limit.  Whether an IRSRecordId is given is a   *)
(* boolean.  Durations are whole numbers below Word.                       *)
(***************************************************************************)
EXTENDS Wire, FiniteSets, SequencesExt

CONSTANTS
    Workers, NoWorker, Batches, NoBatch, Receipts, NoReceipt, MaxAttempts,
    Firm,        \* the firm of these workers
    Plan,        \* client and filings of each batch
    Initial, Maximum,   \* the Backoff
    GatewayResponses,   \* what something on the way may answer
    OtherRequests       \* intake requests of other firms

ASSUME BackoffLimits ==
    /\ MaxAttempts \in Nat \ {0}
    /\ Initial \in 1 .. Word - 1 /\ Maximum \in 1 .. Word - 1

VARIABLES
    state, receipt, claim, leaseLive, attempts, filing,  \* BatchStore's rows
    pc, work, permit, orphans,                           \* FilingSystem's
    submissions,  \* the receiver's maps: what it has recorded
    published,    \* receipts whose acknowledgment is available
    response      \* what each worker's call brought back

-----------------------------------------------------------------------------
(* What FilingSystem calls these things *)

Document == [b \in Batches |-> DocumentOf(Firm, Plan[b].client, Plan[b].filings)]
UTID == [b \in Batches |-> Document[b].utid]
BatchOfUTID(utid) ==
    IF \E b \in Batches : UTID[b] = utid THEN CHOOSE b \in Batches : UTID[b] = utid
    ELSE NoBatch

KeysOf == [b \in Batches |-> {f.key : f \in ToSet(Plan[b].filings)}]
Keys == UNION {KeysOf[b] : b \in Batches}

\* A plan as Intake leaves it: a filing is in one place of one batch, and its sums
\* are ones that formatCents can print.
PlannedRow(b) ==
    [key : KeysOf[b], tin : {f.tin : f \in ToSet(Plan[b].filings)},
     reportable : Int64 \ {-Word}, withheld : Int64 \ {-Word}]
ASSUME PlanIsPartition ==
    \A b \in Batches :
        /\ Plan[b].filings \in Seq(PlannedRow(b))
        /\ Len(Plan[b].filings) \in 1..MaxRecords
        /\ \A i, j \in DOMAIN Plan[b].filings :
              Plan[b].filings[i].key = Plan[b].filings[j].key => i = j
        /\ \A c \in Batches : b # c => KeysOf[b] \cap KeysOf[c] = {}

ASSUME NullsAreDistinct ==
    /\ NoReceipt \notin Receipts /\ NoWorker \notin Workers
    /\ NoBatch \notin Batches /\ \A b \in Batches : NoBatch # UTID[b]

\* Mutant: a result is taken for its opposite.
VerdictSwapped(result) == IF result.status = "Rejected" THEN "accepted" ELSE "rejected"

Verdict(result) == IF result.status = "Accepted" THEN "accepted" ELSE "rejected"
\* Verdicts by filing key of a sequence of results.
VerdictsIn(results) ==
    [k \in {r.key : r \in ToSet(results)} |->
        Verdict(CHOOSE r \in ToSet(results) : r.key = k)]

OurSubmissions == {s \in submissions : s.firm = Firm}
LedgerSeen ==
    {[batch |-> BatchOfUTID(s.utid), receipt |-> s.receipt, results |-> VerdictsIn(s.results)] :
        s \in OurSubmissions}
AckedSeen == {BatchOfUTID(s.utid) : s \in {t \in OurSubmissions : t.receipt \in published}}

-----------------------------------------------------------------------------
(* Responses *)

XML == "application/xml"

\* Before a call, and when the transport failed.
NoResponse == [status |-> 0, contentType |-> "none"]
TransportFailed == [status |-> 0, contentType |-> "failed"]

Response(status, body) ==
    [status |-> status, contentType |-> XML, cut |-> FALSE, body |-> body]
ErrorBody(code) == [root |-> "ErrorResponse", strict |-> TRUE, code |-> code]
ReceiptBody(r) == [root |-> "ReceiptId", strict |-> TRUE, receipt |-> r]
StatusBody(s, status, results) ==
    [root |-> "TransStatusOrAckResponse", strict |-> TRUE, receipt |-> s.receipt,
     utid |-> s.utid, status |-> status, results |-> results]

-----------------------------------------------------------------------------
(* The receiver *)

\* The client sends the token that it is configured with, taken to be right.
SubmitRequest(b) ==
    [authorized |-> TRUE, accept |-> XML, contentType |-> "multipart/form-data",
     parts |-> << [file |-> TRUE, contentType |-> XML, document |-> Document[b]] >>]
StatusRequest(type, value) ==
    [authorized |-> TRUE, accept |-> XML, contentType |-> XML,
     firm |-> Firm, type |-> type, value |-> value]

\* The checks of handleIntake and readMultipartXML, in their order.
IntakeRefusal(request) ==
    IF ~request.authorized THEN Response(401, ErrorBody("UNAUTHORIZED"))
    ELSE IF request.accept # XML \/ request.contentType # "multipart/form-data"
      THEN Response(415, ErrorBody("UNSUPPORTED_MEDIA_TYPE"))
    ELSE IF request.parts = <<>> \/ ~Head(request.parts).file
      THEN Response(400, ErrorBody("INVALID_REQUEST"))
    ELSE IF Head(request.parts).contentType \notin {XML, "text/xml"}
      THEN Response(415, ErrorBody("UNSUPPORTED_MEDIA_TYPE"))
    ELSE IF Len(request.parts) > 1 \/ ~Readable(Head(request.parts).document)
      THEN Response(400, ErrorBody("INVALID_REQUEST"))
    ELSE NoResponse

\* Other firms file in their own name.
ASSUME OthersAreOthers ==
    \A request \in OtherRequests :
        IntakeRefusal(request) = NoResponse => Head(request.parts).document.transmitter # Firm

\* Mutants: an original record is one per client; repeated records pass.
DuplicatesAcrossFirms(transmission) ==
    IF \E s \in submissions : s.firm = transmission.firm /\ s.utid = transmission.utid
      THEN "DUPLICATE_UTID"
    ELSE IF \E s \in submissions :
              /\ s.client = transmission.client
              /\ \E i \in DOMAIN s.results, j \in DOMAIN transmission.records :
                    s.results[i].key = transmission.records[j].key
      THEN "DUPLICATE_RECORD" ELSE "none"
DuplicatesByUTID(transmission) ==
    IF \E s \in submissions : s.firm = transmission.firm /\ s.utid = transmission.utid
      THEN "DUPLICATE_UTID" ELSE "none"

\* record's uniqueness checks: one UTID per firm, one original record per firm,
\* client and year.
Duplicate(transmission) ==
    IF \E s \in submissions : s.firm = transmission.firm /\ s.utid = transmission.utid
      THEN "DUPLICATE_UTID"
    ELSE IF \E s \in submissions :
              /\ s.firm = transmission.firm /\ s.client = transmission.client
              /\ \E i \in DOMAIN s.results, j \in DOMAIN transmission.records :
                    s.results[i].key = transmission.records[j].key
      THEN "DUPLICATE_RECORD" ELSE "none"

FrozenResult(r) ==
    LET reason == resultFor(r)
    IN  [key |-> r.key, status |-> IF reason = "none" THEN "Accepted" ELSE "Rejected",
         irsRecord |-> reason = "none", reason |-> reason]

Unavailable == Response(503, ErrorBody("SERVICE_UNAVAILABLE"))

\* The outcomes of handleIntake and record, each an answer and what it adds to
\* the maps: refused, a duplicate, or recorded under a new receipt; a drawn
\* fault answers 503 before or after recording.
handleIntake(request) ==
    LET refusal == IntakeRefusal(request)
        transmission == decodeTransmission(Head(request.parts).document)
        duplicate == Duplicate(transmission)
        recorded(r) ==
            [firm |-> transmission.firm, client |-> transmission.client,
             utid |-> transmission.utid, receipt |-> r,
             results |-> [i \in DOMAIN transmission.records |->
                             FrozenResult(transmission.records[i])]]
    IN  IF refusal # NoResponse THEN {[answer |-> refusal, adds |-> {}]}
        ELSE IF duplicate # "none"
          THEN {[answer |-> Response(409, ErrorBody(duplicate)), adds |-> {}]}
        ELSE {[answer |-> Unavailable, adds |-> {}]} \cup
             UNION {{[answer |-> Unavailable, adds |-> {recorded(r)}],
                     [answer |-> Response(200, ReceiptBody(r)), adds |-> {recorded(r)}]} :
                       r \in Receipts \ {s.receipt : s \in submissions}}

\* Mutant: the results are there as soon as the submission is.
StatusAnswerAtOnce(s) == Response(200, StatusBody(s, "Accepted", s.results))

\* What handleStatus says of a submission it found.
StatusAnswer(s) ==
    LET accepted == {i \in DOMAIN s.results : s.results[i].status = "Accepted"}
    IN  IF s.receipt \notin published
          THEN Response(200, StatusBody(s, "Processing", <<>>))
        ELSE Response(200, StatusBody(s,
                 CASE accepted = DOMAIN s.results -> "Accepted"
                   [] accepted = {} -> "Rejected"
                   [] OTHER -> "PartiallyAccepted", s.results))

Matches(s, request) ==
    /\ s.firm = request.firm
    /\ request.value = IF request.type = "RECEIPTID" THEN s.receipt ELSE s.utid

handleStatus(request) ==
    LET found == {s \in submissions : Matches(s, request)}
    IN  IF ~request.authorized THEN Response(401, ErrorBody("UNAUTHORIZED"))
        ELSE IF found = {} THEN Response(404, ErrorBody("NOT_FOUND"))
        ELSE StatusAnswer(CHOOSE s \in found : TRUE)

-----------------------------------------------------------------------------
(* The client: what Submit and Status return *)

Reasons == {"TIN_MISSING", "TIN_MALFORMED", "TIN_INVALID", "AMOUNT_INVALID"}

Result == [error |-> "none", status |-> 0, code |-> "", receipt |-> NoReceipt,
           utid |-> NoBatch, transmission |-> "none", results |-> <<>>]
Failed(error) == [Result EXCEPT !.error = error]

\* http.Do, readResponse and decodeStrict: the error, if any, before a field is
\* looked at.  The media type is judged before the status code.
ReadError(r, root) ==
    CASE r.contentType = "failed" -> "transport"
      [] r.contentType \notin {"failed", XML} -> "protocol"
      [] r.contentType = XML /\ r.cut -> "transport"
      [] r.contentType = XML /\ ~r.cut /\ (~r.body.strict \/ r.body.root # root) -> "protocol"
      [] OTHER -> "none"

decodeError(r) ==
    LET error == ReadError(r, "ErrorResponse")
    IN  IF error # "none" THEN Failed(error)
        ELSE IF r.body.code = "" THEN Failed("protocol")
        ELSE [Result EXCEPT !.status = r.status, !.code = r.body.code]

irsSubmit(r) ==
    LET error == ReadError(r, "ReceiptId")
    IN  IF r.status # 200 THEN decodeError(r)
        ELSE IF error # "none" THEN Failed(error)
        ELSE IF r.body.receipt = NoReceipt THEN Failed("protocol")
        ELSE [Result EXCEPT !.status = 200, !.receipt = r.body.receipt]

ValidResult(result) ==
    \/ result.status = "Accepted" /\ result.irsRecord /\ result.reason = "none"
    \/ result.status = "Rejected" /\ ~result.irsRecord /\ result.reason \in Reasons

Completed == {"Accepted", "PartiallyAccepted", "Rejected"}

\* Results come with a completed transmission and only with one.
irsStatus(r) ==
    LET error == ReadError(r, "TransStatusOrAckResponse")
        complete == /\ r.body.receipt # NoReceipt /\ r.body.utid # NoBatch
                    /\ r.body.status \in {"Processing"} \cup Completed
                    /\ r.body.status = "Processing" <=> r.body.results = <<>>
                    /\ \A i \in DOMAIN r.body.results : ValidResult(r.body.results[i])
    IN  IF r.status # 200 THEN decodeError(r)
        ELSE IF error # "none" THEN Failed(error)
        ELSE IF ~complete THEN Failed("protocol")
        ELSE [Result EXCEPT !.status = 200, !.receipt = r.body.receipt, !.utid = r.body.utid,
                            !.transmission = r.body.status, !.results = r.body.results]

\* What is on the way does not speak for the receiver: it issues no receipt, reports
\* no status and does not know the two error codes that the worker acts on.
ASSUME GatewayIsNotReceiver ==
    \A r \in GatewayResponses :
        /\ r # NoResponse
        /\ irsSubmit(r).status # 200 /\ irsStatus(r).status # 200
        /\ decodeError(r).code \notin {"DUPLICATE_UTID", "NOT_FOUND"}

Returned(w) ==
    IF work[w].action = "submit" THEN irsSubmit(response[w]) ELSE irsStatus(response[w])

\* FilingSystem's reply for what the client returned.
ReplyKind(w) ==
    LET r == Returned(w)
    IN  CASE r.error = "transport" \/ r.status = 429 \/ r.status >= 500 -> "unavailable"
          [] r.status = 200 /\ work[w].action = "submit" -> "receipt"
          [] r.status = 200 /\ r.transmission = "Processing" -> "processing"
          [] r.status = 200 /\ r.transmission \in Completed -> "results"
          [] r.status = 409 /\ r.code = "DUPLICATE_UTID" /\ work[w].action = "submit" ->
                "duplicate_utid"
          [] r.status = 404 /\ r.code = "NOT_FOUND" /\ work[w].action # "submit" -> "not_found"
          [] OTHER -> "refused"

Heard(w) ==
    IF response[w] = NoResponse
      THEN [kind |-> "none", utid |-> NoBatch, receipt |-> NoReceipt, outcomes |-> VerdictsIn(<<>>)]
    ELSE [kind |-> ReplyKind(w), utid |-> BatchOfUTID(Returned(w).utid),
          receipt |-> Returned(w).receipt, outcomes |-> VerdictsIn(Returned(w).results)]
RepliesHeard == [w \in Workers |-> Heard(w)]

Filer == INSTANCE FilingSystem WITH
    Filings <- Keys, FilingsOf <- KeysOf,
    Faults <- {"unavailable", "refused"},
    LeaseCoversCalls <- FALSE, FenceDrainsNetwork <- FALSE,
    ledger <- LedgerSeen, acked <- AckedSeen,
    reply <- RepliesHeard

-----------------------------------------------------------------------------
(* The worker *)

\* Mutant: nothing stops the doubling short of an overflow.
DelayUnguarded(attempt) ==
    LET grown[n \in 1 .. attempt] ==
            IF n = 1 THEN Initial
            ELSE IF grown[n - 1] >= Maximum THEN grown[n - 1] ELSE Wrap(2 * grown[n - 1])
    IN  IF grown[attempt] > Maximum \/ grown[attempt] < 0 THEN Maximum ELSE grown[attempt]

\* Backoff.Delay while attempts are left: int64 doublings, one less than there
\* were attempts, and none past half of the maximum.  main sets no Jitter.
Delay(attempt) ==
    LET grown[n \in 1 .. attempt] ==
            IF n = 1 THEN Initial
            ELSE IF grown[n - 1] >= Maximum THEN grown[n - 1]
            ELSE IF grown[n - 1] > Maximum \div 2 THEN Maximum
            ELSE Wrap(2 * grown[n - 1])
    IN  IF grown[attempt] > Maximum \/ grown[attempt] < 0 THEN Maximum ELSE grown[attempt]

\* Delay's second result: whether attempts are left.
Retry(w, call) == IF work[w].attempt >= MaxAttempts THEN "RecordRetryExhausted" ELSE call

\* The switch of worker.submit
SubmitConclusion(w) ==
    LET r == Returned(w)
    IN  CASE r.error = "protocol" -> "FailBatchInvariant"
          [] r.error = "transport" -> Retry(w, "RecordSubmitUnknown")
          [] r.status = 200 -> "RecordSubmitAccepted"
          [] r.status = 409 /\ r.code = "DUPLICATE_UTID" -> Retry(w, "RecordSubmitUnknown")
          [] r.status = 429 \/ r.status >= 500 -> Retry(w, "RecordSubmitUnknown")
          [] OTHER -> "FailBatchInvariant"

\* Status is asked by UTID, or by the receipt that the row has.
SearchType(w) ==
    IF work[w].action = "lookup_by_utid" \/ work[w].receipt = NoReceipt THEN "UTID"
    ELSE "RECEIPTID"

\* The switch of worker.status
StatusConclusion(w) ==
    LET r == Returned(w)
        known == r.utid = UTID[work[w].batch]
                 /\ (work[w].receipt # NoReceipt => r.receipt = work[w].receipt)
    IN  CASE r.error = "protocol" -> "FailBatchInvariant"
          [] r.error = "transport" \/ r.status = 429 \/ r.status >= 500 ->
                Retry(w, "RecordStatusUnavailable")
          [] r.status = 404 /\ r.code = "NOT_FOUND" /\ SearchType(w) = "UTID" ->
                "RecordReferenceNotFound"
          [] r.status = 200 /\ known /\ SearchType(w) = "UTID" -> "RecordReferenceFound"
          [] r.status = 200 /\ known /\ SearchType(w) = "RECEIPTID" ->
                IF r.transmission = "Processing" THEN "RecordAcknowledgmentPending"
                ELSE "CompleteAcknowledgment"
          [] OTHER -> "FailBatchInvariant"

Conclusion(w) ==
    IF work[w].action = "submit" THEN SubmitConclusion(w) ELSE StatusConclusion(w)

-----------------------------------------------------------------------------
Init ==
    /\ submissions = {}
    /\ published = {}
    /\ response = [w \in Workers |-> NoResponse]
    /\ state = [b \in Batches |-> "planned"]
    /\ receipt = [b \in Batches |-> NoReceipt]
    /\ claim = [b \in Batches |-> NoWorker]
    /\ leaseLive = [b \in Batches |-> FALSE]
    /\ attempts = [b \in Batches |-> 0]
    /\ filing = [f \in Keys |-> "batched"]
    /\ pc = [w \in Workers |-> "idle"]
    /\ work = [w \in Workers |-> Filer!NoWork]
    /\ permit = NoWorker
    /\ orphans = {}

wireVars == <<submissions, published, response>>
vars == <<wireVars, state, receipt, claim, leaseLive, attempts, filing,
          pc, work, permit, orphans>>

Brings(w, answer) == response' = [response EXCEPT ![w] = answer]

\* The worker's steps that are not about the wire.
Proceed(w) ==
    /\ UNCHANGED wireVars
    /\ \/ \E b \in Batches : Filer!Claim(w, b)
       \/ Filer!AcquireCallPermit(w)
       \/ Filer!Finish(w)
       \/ Filer!Restart(w)

\* The process ends, for whatever reason; what it had heard is forgotten.
Stop(w) ==
    /\ Brings(w, NoResponse)
    /\ UNCHANGED <<submissions, published>>
    /\ Filer!Halt(w)

Waiting(w) ==
    /\ pc[w] = "calling"
    /\ pc' = [pc EXCEPT ![w] = "answered"]
    /\ UNCHANGED <<published, work, permit>>
    /\ UNCHANGED <<state, receipt, claim, leaseLive, attempts, filing>>

\* The receiver handles the request and its answer arrives.
SubmitArrives(w) ==
    /\ work[w].action = "submit"
    /\ Waiting(w)
    /\ UNCHANGED orphans
    /\ \E outcome \in handleIntake(SubmitRequest(work[w].batch)) :
         /\ submissions' = submissions \cup outcome.adds
         /\ Brings(w, outcome.answer)

StatusArrives(w) ==
    /\ work[w].action # "submit"
    /\ Waiting(w)
    /\ Brings(w, handleStatus(StatusRequest(SearchType(w),
            IF SearchType(w) = "UTID" THEN UTID[work[w].batch] ELSE work[w].receipt)))
    /\ UNCHANGED <<submissions, orphans>>

\* A gateway answers, or the connection fails; a submit request may still be
\* under way.
Intercepted(w) ==
    /\ Waiting(w)
    /\ \E answer \in GatewayResponses \cup {TransportFailed} : Brings(w, answer)
    /\ orphans' \in {orphans} \cup
          (IF work[w].action = "submit" THEN {orphans \cup {work[w].batch}} ELSE {})
    /\ UNCHANGED submissions

\* A request that nobody waits for arrives; or, like one answered 503 before it
\* is recorded, it gets lost.
LateArrival(b) ==
    /\ b \in orphans
    /\ orphans' = orphans \ {b}
    /\ \E outcome \in handleIntake(SubmitRequest(b)) :
         submissions' = submissions \cup outcome.adds
    /\ UNCHANGED <<published, response, state, receipt, claim, leaseLive, attempts,
                   filing, pc, work, permit>>

OtherFirm(request) ==
    /\ \E outcome \in handleIntake(request) : submissions' = submissions \cup outcome.adds
    /\ UNCHANGED <<published, response, state, receipt, claim, leaseLive, attempts,
                   filing, pc, work, permit, orphans>>

\* acknowledgmentAvailableAt passes; never, for a submission that drew so.
Publish(s) ==
    /\ s.receipt \notin published
    /\ published' = published \cup {s.receipt}
    /\ UNCHANGED <<submissions, response, state, receipt, claim, leaseLive, attempts,
                   filing, pc, work, permit, orphans>>

Apply(w, call) ==
    LET b == work[w].batch
    IN  \/ call = "RecordSubmitAccepted" /\ Filer!RecordSubmitAccepted(w, b, Returned(w).receipt)
        \/ call = "RecordSubmitUnknown" /\ Filer!RecordSubmitUnknown(w, b)
        \/ call = "RecordReferenceFound" /\ Filer!RecordReferenceFound(w, b, Returned(w).receipt)
        \/ call = "RecordReferenceNotFound" /\ Filer!RecordReferenceNotFound(w, b)
        \/ call = "RecordAcknowledgmentPending" /\ Filer!RecordAcknowledgmentPending(w, b)
        \/ call = "RecordStatusUnavailable" /\ Filer!RecordStatusUnavailable(w, b)
        \/ /\ call = "CompleteAcknowledgment"
           /\ Filer!CompleteAcknowledgment(w, b, VerdictsIn(Returned(w).results))
        \/ /\ call \in {"FailBatchInvariant", "RecordRetryExhausted"}
           /\ Filer!terminalTransition(w, b)

\* The lifecycle call commits; or it finds no row and the error
\* ends Run.
Record(w) ==
    /\ pc[w] = "finished"
    /\ Apply(w, Conclusion(w))
    /\ Brings(w, NoResponse)
    /\ Filer!Goto(w, "idle") /\ work' = [work EXCEPT ![w] = Filer!NoWork]
    /\ UNCHANGED <<submissions, published, permit, orphans>>

RecordFails(w) ==
    /\ pc[w] = "finished"
    /\ \/ ~Filer!RowMatches(Conclusion(w), w, work[w].batch)
       \/ /\ Conclusion(w) = "CompleteAcknowledgment"
          /\ ~Filer!OutcomesMatch(work[w].batch, VerdictsIn(Returned(w).results))
    /\ Brings(w, NoResponse)
    /\ Filer!Goto(w, "stopped") /\ work' = [work EXCEPT ![w] = Filer!NoWork]
    /\ UNCHANGED <<submissions, published, state, receipt, claim, leaseLive, attempts,
                   filing, permit, orphans>>

Step(w) ==
    \/ Proceed(w)
    \/ Stop(w)
    \/ SubmitArrives(w)
    \/ StatusArrives(w)
    \/ Intercepted(w)
    \/ Record(w)
    \/ RecordFails(w)

Next ==
    \/ \E w \in Workers : Step(w)
    \/ \E b \in Batches : LateArrival(b)
    \/ \E b \in Batches : UNCHANGED wireVars /\ Filer!LeaseExpires(b)
    \/ \E request \in OtherRequests : OtherFirm(request)
    \/ \E s \in submissions : Publish(s)

Spec == Init /\ [][Next]_vars

-----------------------------------------------------------------------------
(* Properties *)

\* On the wire the system does what FilingSystem says of it, so what holds
\* there holds here: the receiver's documents, keys and answers, the client's
\* reading and the worker's conclusion fit together (handleIntake, handleStatus,
\* irsclient, worker submit and status).
ImplementsFilingSystem == Filer!Spec

\* Two programs, one format: whatever the receiver itself answers to a worker,
\* the client can read, and no answer of its own but a lookup in vain, a batch it
\* has or an outage is other than 200: it never calls a planned document malformed,
\* or its filings somebody else's (canonicalXML against decodeTransmission, record
\* for several firms, writeXML against decodeStrict).
ReceiverIsUnderstood ==
    [][\A w \in Workers :
         SubmitArrives(w) \/ StatusArrives(w) =>
            /\ Returned(w)'.error = "none"
            /\ <<Returned(w)'.status, Returned(w)'.code>> \in
                  {<<200, "">>, <<404, "NOT_FOUND">>, <<409, "DUPLICATE_UTID">>,
                   <<503, "SERVICE_UNAVAILABLE">>}]_vars

\* Whoever files, and however: no original record, UTID or receipt is in two
\* recorded submissions or twice in one (decodeTransmission, record).
OriginalsAreUnique ==
    \A s, t \in submissions :
        /\ s # t => s.receipt # t.receipt /\ <<s.firm, s.utid>> # <<t.firm, t.utid>>
        /\ s.firm = t.firm /\ s.client = t.client =>
              \A i \in DOMAIN s.results, j \in DOMAIN t.results :
                 s.results[i].key = t.results[j].key => s = t /\ i = j

\* The delay that follows a worker's attempt, and would follow each later one, is
\* Initial * 2^(attempt - 1), at most Maximum: doubling an int64 never overflows
\* into a short delay (Backoff.Delay).
RetriesBackOff ==
    \A w \in Workers : pc[w] = "finished" =>
        \A attempt \in work[w].attempt .. 12 :
            LET doubled == Initial * 2 ^ (attempt - 1)
            IN  Delay(attempt) = IF doubled < Maximum THEN doubled ELSE Maximum

\* From the plan to the books, through two programs: a filing is settled only under
\* its batch's receipt, once that acknowledgment is published, and as the receiver's
\* rules judge the planned row (resultFor, irsStatus, CompleteAcknowledgment).
SettledAsJudged ==
    \A b \in Batches : \A row \in ToSet(Plan[b].filings) :
        filing[row.key] # "batched" =>
            /\ \E s \in OurSubmissions : s.utid = UTID[b] /\ s.receipt = receipt[b]
            /\ receipt[b] \in published
            /\ filing[row.key] = "accepted" <=> resultFor(row) = "none"

(* A statement of the documentation that the code does not keep *)

\* docs/formal-draft-spec.md 12: "Transport errors, HTTP 5xx, and HTTP 429 are
\* retryable": none of them ends a batch that has attempts left.
ServerErrorsAreRetried ==
    [][\A w \in Workers :
         /\ pc[w] = "finished"
         /\ response[w].status = 429 \/ response[w].status >= 500
         /\ work[w].attempt < MaxAttempts
         /\ pc'[w] = "idle"
         => state'[work[w].batch] # "invariant_failed"]_vars
=============================================================================
