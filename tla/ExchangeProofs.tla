--------------------------- MODULE ExchangeProofs ----------------------------
(***************************************************************************)
(* The receiver's records and the worker's delays on the wire, for any     *)
(* plan, any other firms, any gateway and any number of workers.           *)
(***************************************************************************)
EXTENDS Exchange, WireProofs, InductionLemmas

-----------------------------------------------------------------------------
(* The receiver's maps *)

\* What is kept of a transmission that is taken in.
Recorded(transmission, r) ==
    [firm |-> transmission.firm, client |-> transmission.client,
     utid |-> transmission.utid, receipt |-> r,
     results |-> [i \in DOMAIN transmission.records |-> FrozenResult(transmission.records[i])]]

\* A request is refused, a duplicate, lost to an outage, or recorded under a
\* receipt that was never issued.
IntakeOutcome(request, outcome) ==
    LET transmission == decodeTransmission(Head(request.parts).document)
        duplicate == Duplicate(transmission)
    IN  \/ IntakeRefusal(request) # NoResponse /\ outcome.adds = {}
        \/ /\ IntakeRefusal(request) = NoResponse
           /\ \/ /\ duplicate # "none" /\ outcome.adds = {}
                 /\ outcome.answer = Response(409, ErrorBody(duplicate))
              \/ duplicate = "none" /\ outcome.adds = {} /\ outcome.answer = Unavailable
              \/ /\ duplicate = "none"
                 /\ \E r \in Receipts \ {s.receipt : s \in submissions} :
                      /\ outcome.adds = {Recorded(transmission, r)}
                      /\ outcome.answer \in {Unavailable, Response(200, ReceiptBody(r))}

\* The handler has no other outcome.
LEMMA IntakeOutcomes ==
    ASSUME NEW request, NEW outcome \in handleIntake(request)
    PROVE  IntakeOutcome(request, outcome)
<1> DEFINE transmission == decodeTransmission(Head(request.parts).document)
           duplicate == Duplicate(transmission)
           added(r) == {[answer |-> Unavailable, adds |-> {Recorded(transmission, r)}],
                        [answer |-> Response(200, ReceiptBody(r)),
                         adds |-> {Recorded(transmission, r)}]}
<1>1. CASE IntakeRefusal(request) # NoResponse
  <2>1. outcome \in {[answer |-> IntakeRefusal(request), adds |-> {}]}
    BY <1>1, Zenon DEF handleIntake
  <2> QED
    BY <1>1, <2>1 DEF IntakeOutcome
<1>2. CASE IntakeRefusal(request) = NoResponse /\ duplicate # "none"
  <2>1. outcome \in {[answer |-> Response(409, ErrorBody(duplicate)), adds |-> {}]}
    BY <1>2, Zenon DEF handleIntake
  <2> HIDE DEF duplicate
  <2> QED
    BY <1>2, <2>1 DEF duplicate, IntakeOutcome
<1>3. CASE IntakeRefusal(request) = NoResponse /\ duplicate = "none"
  <2>1. outcome \in {[answer |-> Unavailable, adds |-> {}]} \cup
             UNION {added(r) : r \in Receipts \ {s.receipt : s \in submissions}}
    BY <1>3, Zenon DEF handleIntake, Recorded
  <2> HIDE DEF transmission
  <2>2. CASE outcome = [answer |-> Unavailable, adds |-> {}]
    BY <1>3, <2>2 DEF transmission, IntakeOutcome
  <2>3. ASSUME NEW r \in Receipts \ {s.receipt : s \in submissions}, outcome \in added(r)
        PROVE  /\ outcome.adds = {Recorded(transmission, r)}
               /\ outcome.answer \in {Unavailable, Response(200, ReceiptBody(r))}
    BY <2>3
  <2> QED
    BY <1>3, <2>1, <2>2, <2>3 DEF transmission, IntakeOutcome
<1> QED
  BY <1>1, <1>2, <1>3 DEF IntakeOutcome

\* Only what could be read gets past the refusals.
LEMMA NotRefusedIsReadable ==
    ASSUME NEW request, IntakeRefusal(request) = NoResponse
    PROVE  Readable(Head(request.parts).document)
<1>1. Response(400, ErrorBody("INVALID_REQUEST")) # NoResponse
  BY DEF Response, NoResponse
<1>2. \A code : Response(401, code) # NoResponse /\ Response(415, code) # NoResponse
  BY DEF Response, NoResponse
<1> QED
  BY <1>1, <1>2 DEF IntakeRefusal

\* Recording one more submission keeps originals unique: its receipt is new, its
\* UTID and its record keys are the firm's first, and a document that could be
\* read has no key twice.
LEMMA IntakeKeepsOriginals ==
    ASSUME OriginalsAreUnique, NEW request, NEW outcome \in handleIntake(request),
           submissions' = submissions \cup outcome.adds
    PROVE  OriginalsAreUnique'
<1> DEFINE document == Head(request.parts).document
           transmission == decodeTransmission(document)
<1>1. CASE outcome.adds = {}
  BY <1>1 DEF OriginalsAreUnique
<1>2. CASE outcome.adds # {}
  <2>1. /\ IntakeRefusal(request) = NoResponse
        /\ Duplicate(transmission) = "none"
        /\ \E r \in Receipts \ {s.receipt : s \in submissions} :
              outcome.adds = {Recorded(transmission, r)}
    <3>1. IntakeOutcome(request, outcome)
      BY IntakeOutcomes, Zenon
    <3> QED
      BY <1>2, <3>1, Zenon DEF IntakeOutcome
  <2>0. Readable(document)
    BY <2>1, NotRefusedIsReadable
  <2>2. PICK r : /\ r \notin {s.receipt : s \in submissions}
                 /\ outcome.adds = {Recorded(transmission, r)}
    BY <2>1
  <2> DEFINE new == Recorded(transmission, r)
  <2>3. /\ DOMAIN transmission.records = DOMAIN document.records
        /\ \A i \in DOMAIN document.records : transmission.records[i].key = document.records[i].id
    BY DEF decodeTransmission, ReadRecord
  <2>4. /\ new.firm = transmission.firm /\ new.client = transmission.client
        /\ new.utid = transmission.utid /\ new.receipt = r
        /\ DOMAIN new.results = DOMAIN transmission.records
        /\ \A i \in DOMAIN new.results : new.results[i].key = transmission.records[i].key
    <3> HIDE DEF transmission
    <3>1. /\ new.firm = transmission.firm /\ new.client = transmission.client
          /\ new.utid = transmission.utid /\ new.receipt = r
          /\ DOMAIN new.results = DOMAIN transmission.records
          /\ \A i \in DOMAIN new.results : new.results[i] = FrozenResult(transmission.records[i])
      BY DEF Recorded
    <3>2. \A record : FrozenResult(record).key = record.key
      BY Zenon DEF FrozenResult
    <3> HIDE DEF new
    <3> QED
      BY <3>1, <3>2
  <2>5. \A i, j \in DOMAIN new.results : new.results[i].key = new.results[j].key => i = j
    <3>1. \A i, j \in DOMAIN document.records :
             document.records[i].id = document.records[j].id => i = j
      BY <2>0 DEF Readable
    <3> HIDE DEF new, transmission, document
    <3> QED
      BY <2>3, <2>4, <3>1
  <2>6. \A s \in submissions :
           /\ s.receipt # new.receipt
           /\ ~(s.firm = new.firm /\ s.utid = new.utid)
           /\ s.firm = new.firm /\ s.client = new.client =>
                 \A i \in DOMAIN s.results, j \in DOMAIN new.results :
                    s.results[i].key # new.results[j].key
    <3> HIDE DEF transmission, new
    <3> QED
      BY <2>1, <2>2, <2>4 DEF Duplicate
  <2>7. submissions' = submissions \cup {new}
    BY <2>2
  <2> HIDE DEF new
  <2> QED
    BY <2>5, <2>6, <2>7 DEF OriginalsAreUnique
<1> QED
  BY <1>1, <1>2

\* Only intake adds to the maps.
LEMMA NextOriginals == OriginalsAreUnique /\ [Next]_vars => OriginalsAreUnique'
<1> SUFFICES ASSUME OriginalsAreUnique, [Next]_vars PROVE OriginalsAreUnique'
  OBVIOUS
<1>1. ASSUME UNCHANGED submissions PROVE OriginalsAreUnique'
  BY <1>1 DEF OriginalsAreUnique
<1>2. CASE UNCHANGED vars
  BY <1>1, <1>2 DEF vars, wireVars
<1>3. ASSUME NEW w \in Workers, Step(w) PROVE OriginalsAreUnique'
  <2>1. CASE SubmitArrives(w)
    BY <2>1, IntakeKeepsOriginals DEF SubmitArrives
  <2>2. CASE Proceed(w) \/ Stop(w) \/ StatusArrives(w) \/ Intercepted(w) \/ Record(w) \/ RecordFails(w)
    BY <1>1, <2>2 DEF Proceed, Stop, StatusArrives, Intercepted, Record, RecordFails, wireVars
  <2> QED
    BY <1>3, <2>1, <2>2 DEF Step
<1>4. ASSUME NEW b \in Batches, LateArrival(b) PROVE OriginalsAreUnique'
  BY <1>4, IntakeKeepsOriginals DEF LateArrival
<1>5. ASSUME NEW b \in Batches, UNCHANGED wireVars PROVE OriginalsAreUnique'
  BY <1>1, <1>5 DEF wireVars
<1>6. ASSUME NEW request \in OtherRequests, OtherFirm(request) PROVE OriginalsAreUnique'
  BY <1>6, IntakeKeepsOriginals DEF OtherFirm
<1>7. ASSUME NEW s \in submissions, Publish(s) PROVE OriginalsAreUnique'
  BY <1>1, <1>7 DEF Publish
<1> QED
  BY <1>2, <1>3, <1>4, <1>5, <1>6, <1>7 DEF Next

\* No original record, UTID or receipt is ever on file twice, whichever firms
\* file, and however often, late or badly formed their documents are: record's
\* checks under its mutex and decodeTransmission's.
THEOREM OriginalsStayUnique == Spec => []OriginalsAreUnique
<1>1. Init => OriginalsAreUnique
  BY DEF Init, OriginalsAreUnique
<1> QED
  BY <1>1, NextOriginals, PTL DEF Spec

-----------------------------------------------------------------------------
(* The documents of the plan *)

\* The receiver reads every planned document as what was planned.
LEMMA DocumentIsRead ==
    ASSUME NEW b \in Batches
    PROVE  /\ Readable(Document[b])
           /\ decodeTransmission(Document[b]) =
                [firm |-> Firm, client |-> Plan[b].client, utid |-> UTID[b],
                 records |-> Plan[b].filings]
<1> DEFINE filings == Plan[b].filings
           n == Len(filings)
           TINs == {f.tin : f \in ToSet(Plan[b].filings)}
<1>1. filings \in Seq(PlannedRow(b)) /\ n \in 1..MaxRecords
  BY PlanIsPartition
<1>2. filings \in [1..n -> PlannedRow(b)]
  BY <1>1
<1>3. PlannedRow(b) = [key : KeysOf[b], tin : TINs, reportable : Amounts, withheld : Amounts]
  BY Zenon DEF PlannedRow, Amounts
<1>4. filings \in BatchRows(KeysOf[b], TINs, n)
  <2>1. \A i, j \in 1..n : filings[i].key = filings[j].key => i = j
    BY <1>2, PlanIsPartition
  <2> HIDE DEF filings, TINs, n
  <2> QED
    BY <1>2, <1>3, <2>1 DEF BatchRows
<1>5. IsReadAs(DocumentOf(Firm, Plan[b].client, filings), Firm, Plan[b].client, filings)
  <2> HIDE DEF filings, TINs, n
  <2> QED
    BY <1>1, <1>4, DocumentSurvives
<1>6. Document[b] = DocumentOf(Firm, Plan[b].client, filings) /\ UTID[b] = Document[b].utid
  BY DEF Document, UTID
<1>7. /\ decodeTransmission(Document[b]).utid = UTID[b]
      /\ decodeTransmission(Document[b]) =
           [firm |-> decodeTransmission(Document[b]).firm,
            client |-> decodeTransmission(Document[b]).client,
            utid |-> decodeTransmission(Document[b]).utid,
            records |-> decodeTransmission(Document[b]).records]
  BY <1>6, Zenon DEF decodeTransmission
<1> HIDE DEF filings
<1>8. /\ Readable(Document[b])
      /\ decodeTransmission(Document[b]).firm = Firm
      /\ decodeTransmission(Document[b]).client = Plan[b].client
      /\ decodeTransmission(Document[b]).records = filings
  BY <1>5, <1>6, Zenon DEF IsReadAs
<1> QED
  BY <1>7, <1>8, Zenon DEF filings

\* A UTID names one batch.
LEMMA UTIDsAreUnique ==
    /\ \A b, c \in Batches : UTID[b] = UTID[c] => b = c
    /\ \A b \in Batches : \A utid : BatchOfUTID(utid) = b <=> utid = UTID[b]
    /\ BatchOfUTID(NoBatch) = NoBatch
<1>1. ASSUME NEW b \in Batches
      PROVE  /\ 1 \in DOMAIN Plan[b].filings
             /\ Plan[b].filings[1].key \in KeysOf[b]
             /\ UTID[b].uuid[3] = [i \in DOMAIN Plan[b].filings |-> Plan[b].filings[i].key]
  <2>1. 1 \in DOMAIN Plan[b].filings /\ Plan[b].filings[1].key \in KeysOf[b]
    <3> DEFINE filings == Plan[b].filings
               Row == PlannedRow(b)
    <3>1. filings \in Seq(Row) /\ Len(filings) \in 1..MaxRecords /\ \A row \in Row : row.key \in KeysOf[b]
      BY PlanIsPartition DEF PlannedRow
    <3> HIDE DEF filings, Row
    <3>2. 1 \in DOMAIN filings /\ filings[1] \in Row
      BY <3>1, WireLimits
    <3> QED
      BY <3>1, <3>2 DEF filings
  <2>2. UTID[b] = batchIdentity(Firm, Plan[b].client,
                     [i \in DOMAIN Plan[b].filings |-> Plan[b].filings[i].key])
    BY DEF UTID, Document, DocumentOf, canonicalXML
  <2> QED
    BY <2>1, <2>2 DEF batchIdentity
<1>2. ASSUME NEW b \in Batches, NEW c \in Batches, UTID[b] = UTID[c] PROVE b = c
  <2>1. Plan[b].filings[1].key = Plan[c].filings[1].key
    <3> DEFINE keys(d) == [i \in DOMAIN Plan[d].filings |-> Plan[d].filings[i].key]
    <3>1. keys(b) = keys(c)
      BY <1>1, <1>2
    <3>2. keys(b)[1] = Plan[b].filings[1].key /\ keys(c)[1] = Plan[c].filings[1].key
      BY <1>1
    <3> QED
      BY <3>1, <3>2
  <2> QED
    <3>1. b # c => KeysOf[b] \cap KeysOf[c] = {}
      BY PlanIsPartition
    <3> QED
      BY <1>1, <2>1, <3>1
<1> QED
  BY <1>2, NullsAreDistinct, Zenon DEF BatchOfUTID

\* What the receiver keeps of a batch.
SubmissionOf(b, r) ==
    [firm |-> Firm, client |-> Plan[b].client, utid |-> UTID[b], receipt |-> r,
     results |-> [i \in DOMAIN Plan[b].filings |-> FrozenResult(Plan[b].filings[i])]]

\* Each result is one that the client takes.
LEMMA ResultsAreValid ==
    \A record : /\ FrozenResult(record).key = record.key
                /\ ValidResult(FrozenResult(record))
<1> SUFFICES ASSUME NEW record
             PROVE  /\ FrozenResult(record).key = record.key
                    /\ ValidResult(FrozenResult(record))
  OBVIOUS
<1> DEFINE reason == resultFor(record)
<1>1. reason \in {"none"} \cup Reasons
  BY DEF resultFor, Reasons
<1> HIDE DEF reason
<1>2. FrozenResult(record) =
        [key |-> record.key, status |-> IF reason = "none" THEN "Accepted" ELSE "Rejected",
         irsRecord |-> reason = "none", reason |-> reason]
  BY Zenon DEF FrozenResult, reason
<1> DEFINE result == FrozenResult(record)
<1>3. /\ result.key = record.key /\ result.reason = reason
      /\ result.status = IF reason = "none" THEN "Accepted" ELSE "Rejected"
  BY <1>2
<1>5. result.irsRecord <=> reason = "none"
  <2>1. FrozenResult(record).irsRecord = (reason = "none")
    BY Zenon DEF FrozenResult, reason
  <2> QED
    BY <2>1, Zenon DEF result
<1> HIDE DEF result
<1>6. ValidResult(result)
  BY <1>1, <1>3, <1>5 DEF ValidResult
<1> QED
  BY <1>3, <1>6 DEF result

\* They are one per filing of the batch.
LEMMA ResultsOfBatch ==
    ASSUME NEW b \in Batches, NEW r
    PROVE  LET results == SubmissionOf(b, r).results
           IN  /\ results # <<>>
               /\ \A i \in DOMAIN results : ValidResult(results[i])
               /\ {results[i].key : i \in DOMAIN results} = KeysOf[b]
               /\ VerdictsIn(results) \in [KeysOf[b] -> {"accepted", "rejected"}]
<1> DEFINE filings == Plan[b].filings
           results == SubmissionOf(b, r).results
<1>1. filings \in Seq(PlannedRow(b)) /\ Len(filings) \in 1..MaxRecords
  BY PlanIsPartition
<1>2. results = [i \in DOMAIN filings |-> FrozenResult(filings[i])]
  BY DEF SubmissionOf
<1>3. KeysOf[b] = {f.key : f \in ToSet(filings)}
  BY DEF KeysOf
<1> HIDE DEF filings, results
<1>4. DOMAIN filings = 1..Len(filings) /\ Len(filings) \in Nat /\ 1 \in DOMAIN filings
  BY <1>1, WireLimits
<1>5. /\ DOMAIN results = DOMAIN filings
      /\ \A i \in DOMAIN results : results[i] = FrozenResult(filings[i])
  BY <1>2
<1>6. /\ \A i \in DOMAIN results : results[i].key = filings[i].key /\ ValidResult(results[i])
  BY <1>5, ResultsAreValid, Zenon
<1>7. results # <<>>
  BY <1>4, <1>5
<1>8. {results[i].key : i \in DOMAIN results} = KeysOf[b]
  BY <1>3, <1>5, <1>6 DEF ToSet
<1>9. {s.key : s \in ToSet(results)} = KeysOf[b]
  BY <1>8 DEF ToSet
<1>10. VerdictsIn(results) \in [KeysOf[b] -> {"accepted", "rejected"}]
  BY <1>9 DEF VerdictsIn, Verdict
<1> QED
  BY <1>6, <1>7, <1>8, <1>10 DEF results

\* Taking in a batch: a duplicate, an outage, or a submission under a new receipt.
LEMMA IntakeOfBatch ==
    ASSUME NEW b \in Batches, NEW outcome \in handleIntake(SubmitRequest(b))
    PROVE  LET duplicate == Duplicate(decodeTransmission(Document[b]))
           IN  \/ /\ duplicate # "none" /\ outcome.adds = {}
                  /\ outcome.answer = Response(409, ErrorBody(duplicate))
               \/ duplicate = "none" /\ outcome.adds = {} /\ outcome.answer = Unavailable
               \/ /\ duplicate = "none"
                  /\ \E r \in Receipts \ {s.receipt : s \in submissions} :
                       /\ outcome.adds = {SubmissionOf(b, r)}
                       /\ outcome.answer \in {Unavailable, Response(200, ReceiptBody(r))}
<1> DEFINE request == SubmitRequest(b)
           transmission == decodeTransmission(Document[b])
           duplicate == Duplicate(transmission)
<1>1. /\ request.authorized /\ request.accept = XML
      /\ request.contentType = "multipart/form-data"
      /\ Head(request.parts).file /\ Head(request.parts).contentType = XML
      /\ Head(request.parts).document = Document[b]
      /\ Len(request.parts) = 1 /\ request.parts # <<>>
  <2> DEFINE part == [file |-> TRUE, contentType |-> XML, document |-> Document[b]]
  <2>2. part.file /\ part.contentType = XML /\ part.document = Document[b]
    BY Zenon
  <2>3. /\ request.authorized /\ request.accept = XML
        /\ request.contentType = "multipart/form-data" /\ request.parts = <<part>>
    BY Zenon DEF SubmitRequest
  <2> HIDE DEF part, request
  <2>4. Head(<<part>>) = part /\ Len(<<part>>) = 1 /\ <<part>> # <<>>
    OBVIOUS
  <2> QED
    BY <2>2, <2>3, <2>4, Zenon
<1>2. outcome \in handleIntake(request)
  OBVIOUS
<1> HIDE DEF request
<1>3. IntakeRefusal(request) = NoResponse
  <2>1. ~(Len(request.parts) > 1)
    BY <1>1
  <2>2. Readable(Head(request.parts).document)
    BY <1>1, DocumentIsRead
  <2> QED
    BY <1>1, <2>1, <2>2, Zenon DEF IntakeRefusal
<1>4. Head(request.parts).document = Document[b]
  BY <1>1
<1>5. \A r : Recorded(transmission, r) = SubmissionOf(b, r)
  <2>1. transmission = [firm |-> Firm, client |-> Plan[b].client, utid |-> UTID[b],
                        records |-> Plan[b].filings]
    BY DocumentIsRead, Zenon
  <2> HIDE DEF transmission
  <2>2. /\ transmission.firm = Firm /\ transmission.client = Plan[b].client
        /\ transmission.utid = UTID[b] /\ transmission.records = Plan[b].filings
    BY <2>1
  <2> QED
    BY <2>2, Zenon DEF SubmissionOf, Recorded
<1> QED
  BY <1>2, <1>3, <1>4, <1>5, IntakeOutcomes DEF IntakeOutcome

-----------------------------------------------------------------------------
(* What the receiver has, and who waits for it *)

\* Originals are unique, our firm's are planned batches, and what is published has
\* been recorded.
LedgerInv ==
    /\ OriginalsAreUnique
    /\ \A s \in submissions :
          /\ s.receipt \in Receipts
          /\ s.firm = Firm => \E b \in Batches : s = SubmissionOf(b, s.receipt)
    /\ published \subseteq {s.receipt : s \in submissions}

\* A worker at work has a claimed batch and a count of its attempts; it has heard
\* something exactly between the end of its call and recording it.
CallerInv ==
    /\ pc \in [Workers -> Filer!Steps]
    /\ DOMAIN work = Workers /\ DOMAIN response = Workers
    /\ attempts \in [Batches -> 0..MaxAttempts]
    /\ \A w \in Workers :
          /\ pc[w] \notin {"idle", "stopped"} =>
                /\ work[w].batch \in Batches
                /\ work[w].action \in Filer!Actions
                /\ work[w].attempt \in 1..MaxAttempts
          /\ response[w] # NoResponse <=> pc[w] \in {"answered", "finished"}

\* A request of this firm's workers, or of another firm, keeps it so.
LEMMA IntakeKeepsLedger ==
    ASSUME LedgerInv, UNCHANGED published, NEW request,
           NEW outcome \in handleIntake(request), submissions' = submissions \cup outcome.adds,
           \/ \E b \in Batches : request = SubmitRequest(b)
           \/ request \in OtherRequests
    PROVE  LedgerInv'
<1>1. OriginalsAreUnique'
  BY IntakeKeepsOriginals DEF LedgerInv
<1>2. ASSUME NEW s \in outcome.adds
      PROVE  /\ s.receipt \in Receipts
             /\ s.firm = Firm => \E b \in Batches : s = SubmissionOf(b, s.receipt)
  <2>1. ASSUME NEW b \in Batches, request = SubmitRequest(b)
        PROVE  s.receipt \in Receipts /\ s = SubmissionOf(b, s.receipt)
    <3>1. PICK r \in Receipts : outcome.adds = {SubmissionOf(b, r)}
      BY <2>1, IntakeOfBatch
    <3>2. s = SubmissionOf(b, r) /\ s.receipt = r
      BY <3>1 DEF SubmissionOf
    <3> QED
      BY <3>2
  <2>2. CASE request \in OtherRequests
    <3> DEFINE transmission == decodeTransmission(Head(request.parts).document)
    <3>1. PICK r \in Receipts : /\ IntakeRefusal(request) = NoResponse
                                /\ outcome.adds = {Recorded(transmission, r)}
      BY IntakeOutcomes DEF IntakeOutcome
    <3> HIDE DEF transmission
    <3>2. s.receipt = r /\ s.firm = transmission.firm
      BY <3>1 DEF Recorded
    <3>3. transmission.firm # Firm
      BY <2>2, <3>1, OthersAreOthers DEF transmission, decodeTransmission
    <3> QED
      BY <3>2, <3>3
  <2> QED
    BY <2>1, <2>2
<1> QED
  BY <1>1, <1>2 DEF LedgerInv

\* Every step does.
LEMMA NextLedger == LedgerInv /\ CallerInv /\ [Next]_vars => LedgerInv'
<1> SUFFICES ASSUME LedgerInv, CallerInv, [Next]_vars PROVE LedgerInv'
  OBVIOUS
<1>1. ASSUME UNCHANGED <<submissions, published>> PROVE LedgerInv'
  BY <1>1 DEF LedgerInv, OriginalsAreUnique
<1>2. CASE UNCHANGED vars
  BY <1>1, <1>2 DEF vars, wireVars
<1>3. ASSUME NEW w \in Workers, Step(w) PROVE LedgerInv'
  <2>1. CASE SubmitArrives(w)
    <3>1. work[w].batch \in Batches
      BY <2>1 DEF SubmitArrives, Waiting, CallerInv
    <3> QED
      BY <2>1, <3>1, IntakeKeepsLedger DEF SubmitArrives, Waiting
  <2>2. CASE Proceed(w) \/ Stop(w) \/ StatusArrives(w) \/ Intercepted(w) \/ Record(w) \/ RecordFails(w)
    BY <1>1, <2>2 DEF Proceed, Stop, StatusArrives, Waiting, Intercepted, Record, RecordFails, wireVars
  <2> QED
    BY <1>3, <2>1, <2>2 DEF Step
<1>4. ASSUME NEW b \in Batches, LateArrival(b) PROVE LedgerInv'
  BY <1>4, IntakeKeepsLedger DEF LateArrival
<1>5. ASSUME NEW b \in Batches, UNCHANGED wireVars PROVE LedgerInv'
  BY <1>1, <1>5 DEF wireVars
<1>6. ASSUME NEW request \in OtherRequests, OtherFirm(request) PROVE LedgerInv'
  BY <1>6, IntakeKeepsLedger DEF OtherFirm
<1>7. ASSUME NEW s \in submissions, Publish(s) PROVE LedgerInv'
  BY <1>7 DEF Publish, LedgerInv, OriginalsAreUnique
<1> QED
  BY <1>2, <1>3, <1>4, <1>5, <1>6, <1>7 DEF Next

\* No answer is "nothing heard".
LEMMA AnswersAreHeard ==
    /\ \A status, body : Response(status, body) # NoResponse
    /\ TransportFailed # NoResponse
    /\ \A r \in GatewayResponses : r # NoResponse
    /\ \A request : \A outcome \in handleIntake(request) :
          outcome.answer # NoResponse
    /\ \A request : handleStatus(request) # NoResponse
<1>1. \A status, body : Response(status, body) # NoResponse
  <2> SUFFICES ASSUME NEW status, NEW body PROVE Response(status, body) # NoResponse
    OBVIOUS
  <2>1. Response(status, body).contentType = XML /\ NoResponse.contentType = "none"
    BY DEF Response, NoResponse
  <2> QED
    BY <2>1 DEF XML
<1>2. TransportFailed # NoResponse
  BY DEF TransportFailed, NoResponse
<1>3. ASSUME NEW request, NEW outcome \in handleIntake(request)
      PROVE  outcome.answer # NoResponse
  <2>1. CASE IntakeRefusal(request) # NoResponse
    <3>1. outcome \in {[answer |-> IntakeRefusal(request), adds |-> {}]}
      BY <2>1, Zenon DEF handleIntake
    <3> QED
      BY <2>1, <3>1
  <2>2. CASE IntakeRefusal(request) = NoResponse
    BY <1>1, <2>2, IntakeOutcomes DEF Unavailable, IntakeOutcome
  <2> QED
    BY <2>1, <2>2
<1>4. ASSUME NEW request PROVE handleStatus(request) # NoResponse
  <2>1. \A s : StatusAnswer(s) # NoResponse
    BY <1>1, Zenon DEF StatusAnswer
  <2> QED
    BY <1>1, <2>1, Zenon DEF handleStatus
<1> QED
  BY <1>1, <1>2, <1>3, <1>4, GatewayIsNotReceiver

\* Recording leaves the counts of attempts alone.
LEMMA ApplyKeepsAttempts ==
    ASSUME NEW w \in Workers, NEW call, Apply(w, call)
    PROVE  UNCHANGED attempts
BY DEF Apply, Filer!RecordSubmitAccepted, Filer!RecordSubmitUnknown, Filer!RecordReferenceFound,
       Filer!RecordReferenceNotFound, Filer!RecordAcknowledgmentPending,
       Filer!RecordStatusUnavailable, Filer!CompleteAcknowledgment, Filer!terminalTransition,
       Filer!eventTransition, Filer!ReleaseClaim

LEMMA StepKeepsCaller ==
    ASSUME CallerInv, NEW w \in Workers, Step(w)
    PROVE  CallerInv'
<1>1. ASSUME NEW b \in Batches, Filer!Claim(w, b), UNCHANGED wireVars PROVE CallerInv'
  <2>1. /\ pc[w] = "idle" /\ pc' = [pc EXCEPT ![w] = "claimed"]
        /\ attempts' = [attempts EXCEPT ![b] = Filer!NextAttempt(@)]
        /\ work' = [work EXCEPT ![w] =
              [batch |-> b, action |-> Filer!NextAction(state'[b]),
               attempt |-> attempts'[b], receipt |-> receipt[b]]]
        /\ UNCHANGED response
    BY <1>1 DEF Filer!Claim, Filer!ClaimNextBatch, Filer!Goto, wireVars
  <2>2. Filer!NextAttempt(attempts[b]) \in 1..MaxAttempts
    BY BackoffLimits DEF CallerInv, Filer!NextAttempt
  <2>3. attempts' \in [Batches -> 0..MaxAttempts] /\ attempts'[b] \in 1..MaxAttempts
    BY <2>1, <2>2 DEF CallerInv
  <2>4. Filer!NextAction(state'[b]) \in Filer!Actions
    BY DEF Filer!NextAction, Filer!Actions
  <2>5. pc' \in [Workers -> Filer!Steps]
    BY <2>1 DEF CallerInv, Filer!Steps
  <2> QED
    BY <2>1, <2>3, <2>4, <2>5 DEF CallerInv
<1>2. CASE Filer!AcquireCallPermit(w) /\ UNCHANGED wireVars
  BY <1>2 DEF Filer!AcquireCallPermit, Filer!Goto, Filer!storeVars, Filer!Steps, wireVars, CallerInv
<1>3. CASE Filer!Finish(w) /\ UNCHANGED wireVars
  BY <1>3 DEF Filer!Finish, Filer!Goto, Filer!storeVars, Filer!Steps, wireVars, CallerInv
<1>4. CASE Filer!Restart(w) /\ UNCHANGED wireVars
  BY <1>4 DEF Filer!Restart, Filer!Goto, Filer!storeVars, Filer!Steps, wireVars, CallerInv
<1>5. CASE Stop(w)
  BY <1>5 DEF Stop, Brings, Filer!Halt, Filer!Forget, Filer!Goto, Filer!storeVars, Filer!Steps, CallerInv
<1>6. ASSUME Waiting(w), NEW answer, answer # NoResponse, Brings(w, answer) PROVE CallerInv'
  BY <1>6 DEF Waiting, Brings, Filer!Steps, CallerInv
<1>7. CASE SubmitArrives(w)
  BY <1>6, <1>7, AnswersAreHeard DEF SubmitArrives
<1>8. CASE StatusArrives(w)
  BY <1>6, <1>8, AnswersAreHeard DEF StatusArrives
<1>9. CASE Intercepted(w)
  BY <1>6, <1>9, AnswersAreHeard DEF Intercepted
<1>10. CASE Record(w)
  <2>1. UNCHANGED attempts
    BY <1>10, ApplyKeepsAttempts DEF Record
  <2> QED
    BY <1>10, <2>1 DEF Record, Brings, Filer!Goto, Filer!Steps, CallerInv
<1>11. CASE RecordFails(w)
  BY <1>11 DEF RecordFails, Brings, Filer!Goto, Filer!Steps, CallerInv
<1> QED
  BY <1>1, <1>2, <1>3, <1>4, <1>5, <1>7, <1>8, <1>9, <1>10, <1>11 DEF Step, Proceed

\* What the others do is none of a worker's business.
LEMMA NextCaller == CallerInv /\ [Next]_vars => CallerInv'
<1> SUFFICES ASSUME CallerInv, [Next]_vars PROVE CallerInv'
  OBVIOUS
<1>1. ASSUME UNCHANGED <<pc, work, attempts, response>> PROVE CallerInv'
  BY <1>1 DEF CallerInv
<1>2. CASE UNCHANGED vars
  BY <1>1, <1>2 DEF vars, wireVars
<1>3. ASSUME NEW b \in Batches, LateArrival(b) PROVE CallerInv'
  BY <1>1, <1>3 DEF LateArrival
<1>4. ASSUME NEW b \in Batches, UNCHANGED wireVars, Filer!LeaseExpires(b) PROVE CallerInv'
  BY <1>1, <1>4 DEF Filer!LeaseExpires, Filer!ExpireLease, Filer!workerVars, wireVars
<1>5. ASSUME NEW request \in OtherRequests, OtherFirm(request) PROVE CallerInv'
  BY <1>1, <1>5 DEF OtherFirm
<1>6. ASSUME NEW s \in submissions, Publish(s) PROVE CallerInv'
  BY <1>1, <1>6 DEF Publish
<1> QED
  BY <1>2, <1>3, <1>4, <1>5, <1>6, StepKeepsCaller DEF Next

-----------------------------------------------------------------------------
(* Delays *)

\* One round of the doubling.
Grow(g) ==
    IF g >= Maximum THEN g ELSE IF g > Maximum \div 2 THEN Maximum ELSE Wrap(2 * g)

\* It neither overflows nor falls back, and stays below 2^63.
LEMMA GrowBounds ==
    ASSUME NEW g \in 1 .. Word - 1
    PROVE  /\ Grow(g) \in 1 .. Word - 1
           /\ g < Maximum /\ 2 * g < Maximum => Grow(g) = 2 * g
           /\ g < Maximum /\ 2 * g >= Maximum => Grow(g) = Maximum
           /\ g >= Maximum => Grow(g) = g
<1>1. Word \in Nat \ {0} /\ Maximum \in 1 .. Word - 1
  BY WireLimits, BackoffLimits
<1> DEFINE half == Maximum \div 2
<1>2. half \in Nat /\ (Maximum = 2 * half \/ Maximum = 2 * half + 1)
  BY <1>1
<1> HIDE DEF half
<1>3. CASE g >= Maximum
  BY <1>1, <1>3 DEF Grow
<1>4. CASE g < Maximum /\ g > half
  <2>1. Grow(g) = Maximum
    BY <1>1, <1>4 DEF Grow, half
  <2> QED
    BY <1>1, <1>2, <1>4, <2>1
<1>5. CASE g < Maximum /\ g <= half
  <2>1. 2 * g \in 1 .. Word - 1 /\ 2 * g <= Maximum
    BY <1>1, <1>2, <1>5
  <2>2. Wrap(2 * g) = 2 * g
    <3>1. 2 * g \in Int64
      BY <1>1, <2>1 DEF Int64
    <3> QED
      BY <3>1, WrapInRange
  <2>3. Grow(g) = 2 * g
    <3>1. g \in Nat /\ ~(g >= Maximum) /\ ~(g > Maximum \div 2)
      BY <1>1, <1>2, <1>5 DEF half
    <3> QED
      BY <2>2, <3>1 DEF Grow
  <2> QED
    BY <1>1, <1>5, <2>1, <2>3
<1> QED
  BY <1>1, <1>2, <1>3, <1>4, <1>5

\* The loop of Backoff.Delay, written as a function, has a value for each attempt.
LEMMA DelayIsComputed ==
    ASSUME NEW attempt \in Nat \ {0}
    PROVE  \E grown \in [1 .. attempt -> 1 .. Word - 1] :
              /\ Delay(attempt) = IF grown[attempt] > Maximum \/ grown[attempt] < 0
                                    THEN Maximum ELSE grown[attempt]
              /\ grown[1] = Initial
              /\ \A n \in 2 .. attempt : grown[n] = Grow(grown[n - 1])
<1> DEFINE Loop(g) ==
              [n \in 1 .. attempt |->
                  IF n = 1 THEN Initial
                  ELSE IF g[n - 1] >= Maximum THEN g[n - 1]
                  ELSE IF g[n - 1] > Maximum \div 2 THEN Maximum
                  ELSE Wrap(2 * g[n - 1])]
           N == attempt - 1
           Short == 1 .. Word - 1
           step == [x \in (1..N) \X Short |-> Grow(x[2])]
<1>1. N \in Nat /\ attempt = N + 1 /\ Initial \in Short
  BY BackoffLimits
<1> HIDE DEF N
<1>2. step \in [(1..N) \X Short -> Short]
  BY GrowBounds
<1>3. PICK f \in [0..N -> Short] : IsComputedBy(f, N, Initial, step)
  <2> HIDE DEF step, Short
  <2> QED
    BY <1>1, <1>2, PrefixRecursion
<1>4. \A n \in 1..N : n - 1 \in 0..N /\ step[<<n, f[n - 1]>>] = Grow(f[n - 1])
  BY <1>1
<1> HIDE DEF step, Short
<1>5. \A n \in 0..N : f[n] = IF n = 0 THEN Initial ELSE Grow(f[n - 1])
  <2> SUFFICES ASSUME NEW n \in 0..N
               PROVE  f[n] = IF n = 0 THEN Initial ELSE Grow(f[n - 1])
    OBVIOUS
  <2>1. f[n] = IF n = 0 THEN Initial ELSE step[<<n, f[n - 1]>>]
    BY <1>3, Zenon DEF IsComputedBy
  <2>2. n # 0 => n \in 1..N
    BY <1>1
  <2> QED
    BY <1>4, <2>1, <2>2, Zenon
<1>6. \A g : Loop(g) = [n \in 1 .. attempt |-> IF n = 1 THEN Initial ELSE Grow(g[n - 1])]
  BY Zenon DEF Grow
<1> DEFINE h == [n \in 1 .. attempt |-> f[n - 1]]
<1>7. h = Loop(h)
  <2>1. ASSUME NEW n \in 1 .. attempt
        PROVE  h[n] = IF n = 1 THEN Initial ELSE Grow(h[n - 1])
    <3>1. n - 1 \in 0..N /\ (n # 1 => n - 1 \in 1 .. attempt /\ h[n - 1] = f[(n - 1) - 1])
      BY <1>1
    <3> QED
      BY <1>5, <3>1
  <2>2. h = [n \in 1 .. attempt |-> h[n]]
    OBVIOUS
  <2>3. h = [n \in 1 .. attempt |-> IF n = 1 THEN Initial ELSE Grow(h[n - 1])]
    BY <2>1, <2>2, Zenon
  <2> HIDE DEF h, Loop
  <2> QED
    BY <1>6, <2>3
<1> DEFINE grown == CHOOSE g : g = Loop(g)
<1>8. Delay(attempt) = IF grown[attempt] > Maximum \/ grown[attempt] < 0
                         THEN Maximum ELSE grown[attempt]
  BY Zenon DEF Delay
<1> HIDE DEF Loop
<1>9. grown = Loop(grown)
  BY <1>7
<1> HIDE DEF grown
<1>10. /\ grown = [n \in 1 .. attempt |-> grown[n]]
      /\ grown[1] = Initial /\ \A n \in 2 .. attempt : grown[n] = Grow(grown[n - 1])
  <2>1. grown = [n \in 1 .. attempt |-> IF n = 1 THEN Initial ELSE Grow(grown[n - 1])]
    BY <1>9, <1>6, Zenon
  <2>2. \A n \in 1 .. attempt : grown[n] = IF n = 1 THEN Initial ELSE Grow(grown[n - 1])
    BY <2>1, Zenon
  <2>3. 1 \in 1 .. attempt /\ \A n \in 2 .. attempt : n \in 1 .. attempt /\ n # 1
    BY <1>1
  <2>4. grown = [n \in 1 .. attempt |-> grown[n]]
    BY <2>1, <2>2, Zenon
  <2> QED
    BY <2>2, <2>3, <2>4, Zenon
<1>11. \A n \in 1 .. attempt : grown[n] \in Short
  <2> DEFINE S == {n \in 0..N : grown[n + 1] \in Short}
  <2>1. 0 \in S
    BY <1>1, <1>10
  <2>2. ASSUME NEW n \in 1..N, n - 1 \in S PROVE n \in S
    <3>1. n + 1 \in 2 .. attempt /\ (n + 1) - 1 = n /\ (n - 1) + 1 = n /\ n \in 0..N
      BY <1>1
    <3>2. grown[n + 1] = Grow(grown[n]) /\ grown[n] \in Short
      BY <1>10, <2>2, <3>1
    <3> QED
      BY <3>1, <3>2, GrowBounds DEF Short
  <2> HIDE DEF S
  <2>3. 0..N \subseteq S
    BY <1>1, <2>1, <2>2, PrefixInduction
  <2> QED
    BY <1>1, <2>3 DEF S
<1>12. grown \in [1 .. attempt -> Short]
  BY <1>10, <1>11
<1> QED
  BY <1>8, <1>10, <1>12 DEF Short

\* The powers of two up to the twelfth.
LEMMA PowersDouble ==
    /\ 2^(1 - 1) = 1
    /\ \A n \in 2 .. 12 : 2^(n - 1) \in Nat /\ 2^(n - 1) = 2 * 2^((n - 1) - 1)
<1>1. ASSUME NEW n \in 2 .. 12 PROVE 2^(n - 1) \in Nat /\ 2^(n - 1) = 2 * 2^((n - 1) - 1)
  <2>1. CASE n = 2
    BY <2>1
  <2>2. CASE n = 3
    BY <2>2
  <2>3. CASE n = 4
    BY <2>3
  <2>4. CASE n = 5
    BY <2>4
  <2>5. CASE n = 6
    BY <2>5
  <2>6. CASE n = 7
    BY <2>6
  <2>7. CASE n = 8
    BY <2>7
  <2>8. CASE n = 9
    BY <2>8
  <2>9. CASE n = 10
    BY <2>9
  <2>10. CASE n = 11
    BY <2>10
  <2>11. CASE n = 12
    BY <2>11
  <2>12. n = 2 \/ n = 3 \/ n = 4 \/ n = 5 \/ n = 6 \/ n = 7 \/ n = 8 \/ n = 9 \/ n = 10
         \/ n = 11 \/ n = 12
    OBVIOUS
  <2> QED
    BY <2>1, <2>2, <2>3, <2>4, <2>5, <2>6, <2>7, <2>8, <2>9, <2>10, <2>11, <2>12
<1> QED
  BY <1>1

\* The loop is the closed form.
LEMMA DelayDoubles ==
    ASSUME NEW attempt \in 1 .. 12
    PROVE  LET doubled == Initial * 2^(attempt - 1)
           IN  Delay(attempt) = IF doubled < Maximum THEN doubled ELSE Maximum
<1> DEFINE P(n) == Initial * 2^(n - 1)
           N == attempt - 1
<1>1. PICK grown \in [1 .. attempt -> 1 .. Word - 1] :
              /\ Delay(attempt) = IF grown[attempt] > Maximum \/ grown[attempt] < 0
                                    THEN Maximum ELSE grown[attempt]
              /\ grown[1] = Initial
              /\ \A n \in 2 .. attempt : grown[n] = Grow(grown[n - 1])
  <2>1. attempt \in Nat \ {0}
    OBVIOUS
  <2> QED
    BY <2>1, DelayIsComputed, Zenon
<1>2. /\ Word \in Nat /\ Initial \in 1 .. Word - 1 /\ Maximum \in 1 .. Word - 1
      /\ N \in Nat /\ attempt = N + 1
  BY WireLimits, BackoffLimits
<1>3. P(1) = Initial
  BY <1>2, PowersDouble
<1>4. ASSUME NEW n \in 1 .. N PROVE P(n + 1) = 2 * P(n)
  <2> DEFINE p == 2^((n + 1) - 1)
             q == 2^(((n + 1) - 1) - 1)
  <2>1. n + 1 \in 2 .. 12 /\ ((n + 1) - 1) - 1 = n - 1
    BY <1>2
  <2>2. p = 2 * q /\ q = 2^(n - 1)
    BY <2>1, PowersDouble
  <2>3. q \in Nat
    <3>1. CASE n = 1
      BY <2>2, <3>1, PowersDouble
    <3>2. CASE n # 1
      <4>1. n \in 2 .. 12
        BY <1>2, <3>2
      <4> QED
        BY <2>2, <4>1, PowersDouble
    <3> QED
      BY <3>1, <3>2
  <2> HIDE DEF p, q
  <2>4. Initial * p = 2 * (Initial * q)
    BY <1>2, <2>2, <2>3
  <2> QED
    BY <2>2, <2>4 DEF p
<1> DEFINE Good(n) == /\ P(n) \in Nat
                      /\ IF P(n) < Maximum THEN grown[n] = P(n) ELSE grown[n] >= Maximum
                      /\ P(n) >= Maximum /\ Initial < Maximum => grown[n] = Maximum
           S == {n \in 0 .. N : Good(n + 1)}
<1> HIDE DEF P
<1>5. 0 \in S
  BY <1>1, <1>2, <1>3
<1>6. ASSUME NEW n \in 1 .. N, n - 1 \in S PROVE n \in S
  <2>1. /\ n \in 1 .. attempt /\ n + 1 \in 2 .. attempt /\ (n + 1) - 1 = n /\ (n - 1) + 1 = n
        /\ n \in 0 .. N
    BY <1>2
  <2>2. Good(n) /\ grown[n] \in 1 .. Word - 1 /\ grown[n + 1] = Grow(grown[n])
    BY <1>1, <1>6, <2>1
  <2>3. /\ P(n + 1) = 2 * P(n)
        /\ grown[n] < Maximum /\ 2 * grown[n] < Maximum => Grow(grown[n]) = 2 * grown[n]
        /\ grown[n] < Maximum /\ 2 * grown[n] >= Maximum => Grow(grown[n]) = Maximum
        /\ grown[n] >= Maximum => Grow(grown[n]) = grown[n]
    BY <1>4, <2>2, GrowBounds
  <2>4. Good(n + 1)
    BY <1>2, <2>1, <2>2, <2>3
  <2> QED
    BY <2>1, <2>4
<1>7. 0 .. N \subseteq S
  <2> HIDE DEF S
  <2> QED
    BY <1>2, <1>5, <1>6, PrefixInduction
<1>8. Good(attempt) /\ grown[attempt] \in 1 .. Word - 1
  <2>1. N \in S
    <3> HIDE DEF S
    <3> QED
      BY <1>2, <1>7
  <2> QED
    BY <1>1, <1>2, <2>1
<1>9. Delay(attempt) = IF P(attempt) < Maximum THEN P(attempt) ELSE Maximum
  BY <1>1, <1>2, <1>8
<1> QED
  BY <1>9 DEF P

-----------------------------------------------------------------------------
(* Invariance *)

LEMMA InitWire == Init => LedgerInv /\ CallerInv
<1> SUFFICES ASSUME Init PROVE LedgerInv /\ CallerInv
  OBVIOUS
<1>1. LedgerInv
  BY DEF Init, LedgerInv, OriginalsAreUnique
<1>2. CallerInv
  BY BackoffLimits DEF Init, CallerInv, Filer!Steps
<1> QED
  BY <1>1, <1>2

\* What the receiver has and what the workers hold is so in every reachable state.
LEMMA WireInvariance == Spec => [](LedgerInv /\ CallerInv)
BY InitWire, NextLedger, NextCaller, PTL DEF Spec

\* The delay after each attempt of each worker is the closed form, up to the
\* twelfth, and never more than the maximum: Backoff.Delay's int64 doubling does
\* not overflow, whatever Initial and Maximum are.
THEOREM DelaysDouble == Spec => []RetriesBackOff
<1>1. CallerInv => RetriesBackOff
  <2> SUFFICES ASSUME CallerInv, NEW w \in Workers, pc[w] = "finished",
                      NEW attempt \in work[w].attempt .. 12
               PROVE  LET doubled == Initial * 2 ^ (attempt - 1)
                      IN  Delay(attempt) = IF doubled < Maximum THEN doubled ELSE Maximum
    BY DEF RetriesBackOff
  <2>1. attempt \in 1 .. 12
    BY BackoffLimits DEF CallerInv
  <2> QED
    BY <2>1, DelayDoubles, Zenon
<1> QED
  BY <1>1, WireInvariance, PTL

\* The doublings of a longer wait begin with those of a shorter one.
LEMMA DoublingsAgree ==
    ASSUME NEW n \in Nat \ {0}, NEW g, NEW h, g[1] = h[1],
           \A m \in 2 .. n : g[m] = Grow(g[m - 1]) /\ h[m] = Grow(h[m - 1])
    PROVE  g[n] = h[n]
<1> DEFINE N == n - 1
           S == {m \in 0..N : g[m + 1] = h[m + 1]}
<1>1. N \in Nat /\ n = N + 1 /\ 0 \in S
  OBVIOUS
<1>2. ASSUME NEW m \in 1..N, m - 1 \in S PROVE m \in S
  <2>1. m + 1 \in 2 .. n /\ (m + 1) - 1 = m /\ (m - 1) + 1 = m /\ m \in 0..N
    BY <1>1
  <2>2. g[m] = h[m]
    BY <1>2, <2>1
  <2>3. g[m + 1] = Grow(g[m]) /\ h[m + 1] = Grow(h[m])
    BY <2>1
  <2> QED
    BY <2>1, <2>2, <2>3
<1>3. 0..N \subseteq S
  <2> HIDE DEF N, S
  <2> QED
    BY <1>1, <1>2, PrefixInduction
<1> QED
  BY <1>1, <1>3

\* From attempt to attempt, however many there are, the delay is a positive number
\* of at most Maximum that doubles until it reaches it: Backoff.Delay's int64
\* arithmetic never falls back.
THEOREM DelaysGrow ==
    /\ Delay(1) = IF Initial < Maximum THEN Initial ELSE Maximum
    /\ \A n \in Nat \ {0} :
          /\ Delay(n) \in 1 .. Maximum
          /\ Delay(n + 1) = IF 2 * Delay(n) < Maximum THEN 2 * Delay(n) ELSE Maximum
<1>1. Word \in Nat /\ Initial \in 1 .. Word - 1 /\ Maximum \in 1 .. Word - 1
  BY WireLimits, BackoffLimits
<1>2. Delay(1) = IF Initial < Maximum THEN Initial ELSE Maximum
  <2>1. PICK g \in [1 .. 1 -> 1 .. Word - 1] :
                /\ Delay(1) = IF g[1] > Maximum \/ g[1] < 0 THEN Maximum ELSE g[1]
                /\ g[1] = Initial
    <3>1. 1 \in Nat \ {0}
      OBVIOUS
    <3> QED
      BY <3>1, DelayIsComputed, Zenon
  <2> QED
    BY <1>1, <2>1
<1>3. ASSUME NEW n \in Nat \ {0}
      PROVE  /\ Delay(n) \in 1 .. Maximum
             /\ Delay(n + 1) = IF 2 * Delay(n) < Maximum THEN 2 * Delay(n) ELSE Maximum
  <2>1. PICK g \in [1 .. n -> 1 .. Word - 1] :
                /\ Delay(n) = IF g[n] > Maximum \/ g[n] < 0 THEN Maximum ELSE g[n]
                /\ g[1] = Initial
                /\ \A m \in 2 .. n : g[m] = Grow(g[m - 1])
    BY DelayIsComputed, Zenon
  <2>2. n + 1 \in Nat \ {0} /\ n \in 1 .. n + 1 /\ n + 1 \in 2 .. n + 1 /\ (n + 1) - 1 = n
        /\ n \in 1 .. n /\ \A m \in 2 .. n : m \in 2 .. n + 1
    OBVIOUS
  <2> DEFINE k == n + 1
  <2>3. PICK h \in [1 .. k -> 1 .. Word - 1] :
                /\ Delay(k) = IF h[k] > Maximum \/ h[k] < 0 THEN Maximum ELSE h[k]
                /\ h[1] = Initial
                /\ \A m \in 2 .. k : h[m] = Grow(h[m - 1])
    BY <2>2, DelayIsComputed, Zenon
  <2>4. g[n] = h[n] /\ g[n] \in 1 .. Word - 1
    <3>1. g[n] = h[n]
      <4>1. g[1] = h[1]
        BY <2>1, <2>3, Zenon
      <4>2. \A m \in 2 .. n : g[m] = Grow(g[m - 1]) /\ h[m] = Grow(h[m - 1])
        BY <2>1, <2>2, <2>3, Zenon
      <4> QED
        BY <4>1, <4>2, DoublingsAgree
    <3> QED
      BY <2>1, <2>2, <3>1
  <2>5. h[k] = Grow(g[n])
    BY <2>2, <2>3, <2>4
  <2> DEFINE x == g[n]
  <2>6. /\ Delay(n) = IF x > Maximum \/ x < 0 THEN Maximum ELSE x
        /\ Delay(k) = IF Grow(x) > Maximum \/ Grow(x) < 0 THEN Maximum ELSE Grow(x)
    BY <2>1, <2>3, <2>5, Zenon
  <2>7. /\ Grow(x) \in 1 .. Word - 1
        /\ x < Maximum /\ 2 * x < Maximum => Grow(x) = 2 * x
        /\ x < Maximum /\ 2 * x >= Maximum => Grow(x) = Maximum
        /\ x >= Maximum => Grow(x) = x
    BY <2>4, GrowBounds
  <2> HIDE DEF x, k
  <2>8. x \in 1 .. Word - 1
    BY <2>4 DEF x
  <2>9. CASE x >= Maximum
    BY <1>1, <2>6, <2>7, <2>8, <2>9 DEF k
  <2>10. CASE x < Maximum
    BY <1>1, <2>6, <2>7, <2>8, <2>10 DEF k
  <2> QED
    BY <1>1, <2>8, <2>9, <2>10
<1> QED
  BY <1>2, <1>3

-----------------------------------------------------------------------------
(* What a client hears in a response *)

KindOf(action, r) ==
    CASE r.error = "transport" \/ r.status = 429 \/ r.status >= 500 -> "unavailable"
      [] r.status = 200 /\ action = "submit" -> "receipt"
      [] r.status = 200 /\ r.transmission = "Processing" -> "processing"
      [] r.status = 200 /\ r.transmission \in Completed -> "results"
      [] r.status = 409 /\ r.code = "DUPLICATE_UTID" /\ action = "submit" -> "duplicate_utid"
      [] r.status = 404 /\ r.code = "NOT_FOUND" /\ action # "submit" -> "not_found"
      [] OTHER -> "refused"

\* What the client returns for a response, and FilingSystem's reply for that.
ResultOf(action, answer) == IF action = "submit" THEN irsSubmit(answer) ELSE irsStatus(answer)
ReplyOf(action, r) ==
    [kind |-> KindOf(action, r), utid |-> BatchOfUTID(r.utid), receipt |-> r.receipt,
     outcomes |-> VerdictsIn(r.results)]

\* Heard, by that name, in this state and the next.
LEMMA HeardIs ==
    ASSUME NEW w \in Workers
    PROVE  /\ response[w] = NoResponse => Heard(w) = Filer!Bare("none")
           /\ response[w] # NoResponse =>
                 Heard(w) = ReplyOf(work[w].action, ResultOf(work[w].action, response[w]))
           /\ response'[w] = NoResponse => Heard(w)' = Filer!Bare("none")
           /\ response'[w] # NoResponse =>
                 Heard(w)' = ReplyOf(work'[w].action, ResultOf(work'[w].action, response'[w]))
<1>1. VerdictsIn(<<>>) = Filer!NoOutcomes /\ BatchOfUTID(NoBatch) = NoBatch
  BY UTIDsAreUnique DEF VerdictsIn, Filer!NoOutcomes, ToSet
<1>2. Filer!Bare("none") = [kind |-> "none", utid |-> NoBatch, receipt |-> NoReceipt,
                            outcomes |-> VerdictsIn(<<>>)]
  BY <1>1, Zenon DEF Filer!Bare
<1>3. /\ Returned(w) = ResultOf(work[w].action, response[w])
      /\ Returned(w)' = ResultOf(work'[w].action, response'[w])
  BY Zenon DEF Returned, ResultOf
<1>4. /\ ReplyKind(w) = KindOf(work[w].action, Returned(w))
      /\ ReplyKind(w)' = KindOf(work'[w].action, Returned(w)')
  BY Zenon DEF ReplyKind, KindOf
<1> QED
  BY <1>2, <1>3, <1>4, Zenon DEF Heard, ReplyOf

\* What the client returns for an error code, a receipt, and a status of s.
ErrorRead(status, code) == [Result EXCEPT !.status = status, !.code = code]
ReceiptRead(r) == [Result EXCEPT !.status = 200, !.receipt = r]
StatusRead(s, status, results) ==
    [Result EXCEPT !.status = 200, !.receipt = s.receipt, !.utid = s.utid,
                   !.transmission = status, !.results = results]

\* A result of which only status and code are given.
LEMMA BareResults ==
    ASSUME NEW action, NEW status, NEW code
    PROVE  LET r == ErrorRead(status, code)
           IN  /\ r.error = "none" /\ r.status = status /\ r.code = code
               /\ r.receipt = NoReceipt /\ r.utid = NoBatch /\ r.results = <<>>
               /\ ReplyOf(action, r) = Filer!Bare(KindOf(action, r))
<1> DEFINE r == ErrorRead(status, code)
<1>1. /\ r.error = "none" /\ r.status = status /\ r.code = code
      /\ r.receipt = NoReceipt /\ r.utid = NoBatch /\ r.results = <<>>
  BY DEF Result, ErrorRead
<1>2. VerdictsIn(<<>>) = Filer!NoOutcomes /\ BatchOfUTID(NoBatch) = NoBatch
  BY UTIDsAreUnique DEF VerdictsIn, Filer!NoOutcomes, ToSet
<1> HIDE DEF r
<1>3. ReplyOf(action, r) = Filer!Bare(KindOf(action, r))
  BY <1>1, <1>2, Zenon DEF ReplyOf, Filer!Bare
<1> QED
  BY <1>1, <1>3 DEF r

\* One that is an error.
LEMMA FailedResults ==
    ASSUME NEW action, NEW error
    PROVE  /\ Failed(error).error = error /\ Failed(error).status = 0 /\ Failed(error).code = ""
           /\ ReplyOf(action, Failed(error)) =
                 Filer!Bare(IF error = "transport" THEN "unavailable" ELSE "refused")
<1> DEFINE r == Failed(error)
<1>1. r.error = error /\ r.status = 0
  BY DEF Failed, Result
<1>6. r.code = ""
  BY Zenon DEF Failed, Result
<1>5. r.receipt = NoReceipt /\ r.utid = NoBatch /\ r.results = <<>>
  BY DEF Failed, Result
<1>2. VerdictsIn(<<>>) = Filer!NoOutcomes /\ BatchOfUTID(NoBatch) = NoBatch
  BY UTIDsAreUnique DEF VerdictsIn, Filer!NoOutcomes, ToSet
<1> HIDE DEF r
<1>3. ReplyOf(action, r) = Filer!Bare(KindOf(action, r))
  BY <1>2, <1>5, Zenon DEF ReplyOf, Filer!Bare
<1>4. KindOf(action, r) = IF error = "transport" THEN "unavailable" ELSE "refused"
  <2>1. /\ ~(r.status = 429) /\ ~(r.status >= 500) /\ ~(r.status = 200)
        /\ ~(r.status = 409) /\ ~(r.status = 404)
    BY <1>1
  <2>2. CASE error = "transport"
    <3>1. r.error = "transport" \/ r.status = 429 \/ r.status >= 500
      BY <1>1, <2>2
    <3> QED
      BY <2>1, <2>2, <3>1, SMT DEF KindOf
  <2>3. CASE error # "transport"
    BY <1>1, <2>1, <2>3, Zenon DEF KindOf
  <2> QED
    BY <2>2, <2>3
<1> QED
  BY <1>1, <1>3, <1>4, <1>6, Zenon DEF r

\* Reading comes out in one of three ways.
LEMMA ReadErrors == \A r, root : ReadError(r, root) \in {"transport", "protocol", "none"}
BY Zenon DEF ReadError

\* What the client returns: an error, an error code that it could read, or a receipt,
\* or a status, of which every field has been looked at.
LEMMA ResultShapes ==
    ASSUME NEW action, NEW answer
    PROVE  LET r == ResultOf(action, answer)
           IN  \/ r = Failed("transport") \/ r = Failed("protocol")
               \/ answer.status # 200 /\ r = ErrorRead(answer.status, answer.body.code)
               \/ /\ action = "submit"
                  /\ r = ReceiptRead(answer.body.receipt)
               \/ /\ action # "submit"
                  /\ answer.body.status \in {"Processing"} \cup Completed
                  /\ r = StatusRead(answer.body, answer.body.status, answer.body.results)
<1>1. \/ decodeError(answer) = Failed("transport") \/ decodeError(answer) = Failed("protocol")
      \/ decodeError(answer) = ErrorRead(answer.status, answer.body.code)
  BY ReadErrors, Zenon DEF decodeError, ErrorRead
<1>2. CASE answer.status # 200
  BY <1>1, <1>2, Zenon DEF ResultOf, irsSubmit, irsStatus
<1>3. CASE answer.status = 200 /\ action = "submit"
  BY <1>3, ReadErrors, Zenon DEF ResultOf, irsSubmit, ReceiptRead
<1>4. CASE answer.status = 200 /\ action # "submit"
  BY <1>4, ReadErrors, Zenon DEF ResultOf, irsStatus, StatusRead
<1> QED
  BY <1>2, <1>3, <1>4

\* What the receiver writes is read back: its errors,
LEMMA ErrorIsRead ==
    ASSUME NEW action, NEW status, status # 200,
           NEW code \in {"DUPLICATE_UTID", "NOT_FOUND", "SERVICE_UNAVAILABLE"}
    PROVE  ResultOf(action, Response(status, ErrorBody(code))) = ErrorRead(status, code)
<1> DEFINE answer == Response(status, ErrorBody(code))
<1>1. /\ answer.status = status /\ answer.contentType = XML /\ answer.cut = FALSE
      /\ answer.body = ErrorBody(code)
  BY Zenon DEF Response
<1>2. /\ ErrorBody(code).root = "ErrorResponse" /\ ErrorBody(code).strict = TRUE
      /\ ErrorBody(code).code = code
  BY Zenon DEF ErrorBody
<1> HIDE DEF answer
<1>3. ReadError(answer, "ErrorResponse") = "none"
  BY <1>1, <1>2, Zenon DEF ReadError, XML
<1>4. code # ""
  BY Zenon
<1>5. decodeError(answer) = ErrorRead(status, code)
  BY <1>1, <1>2, <1>3, <1>4, Zenon DEF decodeError, ErrorRead
<1> QED
  BY <1>1, <1>5, Zenon DEF answer, ResultOf, irsSubmit, irsStatus

\* its receipts,
LEMMA ReceiptIsRead ==
    ASSUME NEW r \in Receipts
    PROVE  irsSubmit(Response(200, ReceiptBody(r))) = ReceiptRead(r)
<1> DEFINE answer == Response(200, ReceiptBody(r))
<1>1. /\ answer.status = 200 /\ answer.contentType = XML /\ answer.cut = FALSE
      /\ answer.body = ReceiptBody(r)
  BY Zenon DEF Response
<1>2. /\ ReceiptBody(r).root = "ReceiptId" /\ ReceiptBody(r).strict = TRUE
      /\ ReceiptBody(r).receipt = r
  BY Zenon DEF ReceiptBody
<1> HIDE DEF answer
<1>3. ReadError(answer, "ReceiptId") = "none"
  BY <1>1, <1>2, Zenon DEF ReadError, XML
<1>4. irsSubmit(answer) = ReceiptRead(r)
  <2>1. answer.body.receipt = r /\ r # NoReceipt
    BY <1>1, <1>2, NullsAreDistinct
  <2> QED
    BY <1>1, <1>3, <2>1, Zenon DEF irsSubmit, ReceiptRead
<1> QED
  BY <1>4 DEF answer

\* and its statuses.
LEMMA StatusIsRead ==
    ASSUME NEW s, s.receipt # NoReceipt, s.utid # NoBatch,
           NEW status \in {"Processing"} \cup Completed, NEW results,
           status = "Processing" <=> results = <<>>,
           \A i \in DOMAIN results : ValidResult(results[i])
    PROVE  irsStatus(Response(200, StatusBody(s, status, results))) = StatusRead(s, status, results)
<1> DEFINE body == StatusBody(s, status, results)
           answer == Response(200, body)
<1>1. /\ answer.status = 200 /\ answer.contentType = XML /\ answer.cut = FALSE
      /\ answer.body = body
  BY Zenon DEF Response
<1>2. /\ body.root = "TransStatusOrAckResponse" /\ body.strict = TRUE
      /\ body.receipt = s.receipt /\ body.utid = s.utid
      /\ body.status = status /\ body.results = results
  BY Zenon DEF StatusBody
<1> HIDE DEF answer, body
<1>3. ReadError(answer, "TransStatusOrAckResponse") = "none"
  BY <1>1, <1>2, Zenon DEF ReadError, XML
<1>4. irsStatus(answer) = StatusRead(s, status, results)
  BY <1>1, <1>2, <1>3, Zenon DEF irsStatus, StatusRead
<1> QED
  BY <1>4 DEF answer, body

\* What is on the way only ever sounds like an outage or a refusal.
LEMMA InterceptedIsHeard ==
    ASSUME NEW action, NEW answer \in GatewayResponses \cup {TransportFailed}
    PROVE  ReplyOf(action, ResultOf(action, answer))
              \in {Filer!Bare("unavailable"), Filer!Bare("refused")}
<1> DEFINE r == ResultOf(action, answer)
<1>1. CASE r = Failed("transport") \/ r = Failed("protocol")
  <2>1. ReplyOf(action, Failed("transport")) = Filer!Bare("unavailable")
    BY FailedResults, Zenon
  <2>2. ReplyOf(action, Failed("protocol")) = Filer!Bare("refused")
    BY FailedResults, Zenon
  <2> HIDE DEF r
  <2> QED
    BY <1>1, <2>1, <2>2, Zenon DEF r
<1>2. CASE answer = TransportFailed
  <2>1. answer.status # 200 /\ answer.contentType = "failed"
    BY <1>2 DEF TransportFailed
  <2>2. ReadError(answer, "ErrorResponse") = "transport"
    BY <2>1, Zenon DEF ReadError, XML
  <2>3. decodeError(answer) = Failed("transport")
    BY <2>2, Zenon DEF decodeError
  <2>4. r = Failed("transport")
    BY <2>1, <2>3, Zenon DEF ResultOf, irsSubmit, irsStatus
  <2> QED
    BY <1>1, <2>4
<1>3. CASE answer \in GatewayResponses /\ ~(r = Failed("transport") \/ r = Failed("protocol"))
  <2>1. /\ irsSubmit(answer).status # 200 /\ irsStatus(answer).status # 200
        /\ decodeError(answer).code \notin {"DUPLICATE_UTID", "NOT_FOUND"}
    BY <1>3, GatewayIsNotReceiver, Zenon
  <2>2. r.status # 200
    BY <2>1, Zenon DEF ResultOf
  <2>3. \A s, status, results : ReceiptRead(s).status = 200 /\ StatusRead(s, status, results).status = 200
    BY Zenon DEF Result, ReceiptRead, StatusRead
  <2>4. answer.status # 200 /\ r = ErrorRead(answer.status, answer.body.code)
    <3>1. ~(r = Failed("transport") \/ r = Failed("protocol"))
      BY <1>3
    <3>2. r = ResultOf(action, answer)
      OBVIOUS
    <3> HIDE DEF r
    <3> QED
      BY <2>2, <2>3, <3>1, <3>2, ResultShapes
  <2>5. r.code \notin {"DUPLICATE_UTID", "NOT_FOUND"}
    BY <2>1, <2>4, Zenon DEF ResultOf, irsSubmit, irsStatus
  <2>6. r.error = "none" /\ ReplyOf(action, r) = Filer!Bare(KindOf(action, r))
    <3> HIDE DEF r
    <3> QED
      BY <2>4, BareResults
  <2> HIDE DEF r
  <2>7. KindOf(action, r) \in {"unavailable", "refused"}
    BY <2>2, <2>5, <2>6, Zenon DEF KindOf
  <2> QED
    BY <2>6, <2>7, Zenon DEF r
<1> QED
  BY <1>1, <1>2, <1>3

\* An outage of the receiver sounds like one,
LEMMA OutageIsHeard ==
    ASSUME NEW action
    PROVE  /\ ResultOf(action, Unavailable) = ErrorRead(503, "SERVICE_UNAVAILABLE")
           /\ ReplyOf(action, ResultOf(action, Unavailable)) = Filer!Bare("unavailable")
<1> DEFINE r == ErrorRead(503, "SERVICE_UNAVAILABLE")
<1>1. 503 # 200
  OBVIOUS
<1>2. ResultOf(action, Unavailable) = r
  BY <1>1, ErrorIsRead DEF Unavailable
<1>3. r.status = 503
  BY BareResults
<1>4. ReplyOf(action, r) = Filer!Bare(KindOf(action, r))
  BY BareResults
<1> HIDE DEF r
<1>5. KindOf(action, r) = "unavailable"
  BY <1>3 DEF KindOf
<1> QED
  BY <1>2, <1>4, <1>5, Zenon DEF r

\* a UTID that it has like a duplicate,
LEMMA DuplicateIsHeard ==
    LET answer == Response(409, ErrorBody("DUPLICATE_UTID"))
    IN  /\ ResultOf("submit", answer) = ErrorRead(409, "DUPLICATE_UTID")
        /\ ReplyOf("submit", ResultOf("submit", answer)) = Filer!Bare("duplicate_utid")
<1> DEFINE answer == Response(409, ErrorBody("DUPLICATE_UTID"))
           r == ErrorRead(409, "DUPLICATE_UTID")
<1>1. 409 # 200
  OBVIOUS
<1>2. ResultOf("submit", answer) = r
  BY <1>1, ErrorIsRead
<1>3. r.status = 409 /\ r.error = "none" /\ r.code = "DUPLICATE_UTID"
  BY BareResults
<1>4. ReplyOf("submit", r) = Filer!Bare(KindOf("submit", r))
  BY BareResults
<1> HIDE DEF r, answer
<1>5. KindOf("submit", r) = "duplicate_utid"
  BY <1>3 DEF KindOf
<1> QED
  BY <1>2, <1>4, <1>5, Zenon DEF r, answer

\* and one that it lacks like a lookup in vain.
LEMMA NotFoundIsHeard ==
    ASSUME NEW action, action # "submit"
    PROVE  LET answer == Response(404, ErrorBody("NOT_FOUND"))
           IN  /\ ResultOf(action, answer) = ErrorRead(404, "NOT_FOUND")
               /\ ReplyOf(action, ResultOf(action, answer)) = Filer!Bare("not_found")
<1> DEFINE answer == Response(404, ErrorBody("NOT_FOUND"))
           r == ErrorRead(404, "NOT_FOUND")
<1>1. 404 # 200
  OBVIOUS
<1>2. ResultOf(action, answer) = r
  BY <1>1, ErrorIsRead
<1>3. r.status = 404 /\ r.error = "none" /\ r.code = "NOT_FOUND"
  BY BareResults
<1>4. ReplyOf(action, r) = Filer!Bare(KindOf(action, r))
  BY BareResults
<1> HIDE DEF r, answer
<1>5. KindOf(action, r) = "not_found"
  BY <1>3 DEF KindOf
<1> QED
  BY <1>2, <1>4, <1>5, Zenon DEF r, answer

\* A receipt is heard as it was issued.
LEMMA ReceiptIsHeard ==
    ASSUME NEW receiptId \in Receipts
    PROVE  ReplyOf("submit", ResultOf("submit", Response(200, ReceiptBody(receiptId)))) =
              Filer!ReceiptReply(receiptId)
<1> DEFINE r == ReceiptRead(receiptId)
<1>1. ResultOf("submit", Response(200, ReceiptBody(receiptId))) = r
  BY ReceiptIsRead, Zenon DEF ResultOf
<1>2. /\ r.error = "none" /\ r.status = 200 /\ r.receipt = receiptId
      /\ r.utid = NoBatch /\ r.results = <<>> /\ r.transmission = "none"
  BY DEF Result, ReceiptRead
<1>3. VerdictsIn(<<>>) = Filer!NoOutcomes /\ BatchOfUTID(NoBatch) = NoBatch
  BY UTIDsAreUnique DEF VerdictsIn, Filer!NoOutcomes, ToSet
<1> HIDE DEF r
<1>4. KindOf("submit", r) = "receipt"
  BY <1>2 DEF KindOf, Completed
<1>5. ReplyOf("submit", r) = Filer!ReceiptReply(receiptId)
  BY <1>2, <1>3, <1>4, Zenon DEF ReplyOf, Filer!ReceiptReply
<1> QED
  BY <1>1, <1>5, Zenon

\* What the answer about a batch is: Processing until the acknowledgment is there.
LEMMA StatusAnswers ==
    ASSUME NEW s
    PROVE  /\ s.receipt \notin published =>
                 StatusAnswer(s) = Response(200, StatusBody(s, "Processing", <<>>))
           /\ s.receipt \in published =>
                 \E status \in Completed :
                    StatusAnswer(s) = Response(200, StatusBody(s, status, s.results))
<1>1. CASE s.receipt \notin published
  BY <1>1, Zenon DEF StatusAnswer
<1>2. CASE s.receipt \in published
  <2> DEFINE accepted == {i \in DOMAIN s.results : s.results[i].status = "Accepted"}
             status == CASE accepted = DOMAIN s.results -> "Accepted"
                         [] accepted = {} -> "Rejected"
                         [] OTHER -> "PartiallyAccepted"
  <2>1. StatusAnswer(s) = Response(200, StatusBody(s, status, s.results))
    BY <1>2, Zenon DEF StatusAnswer
  <2> HIDE DEF accepted
  <2>2. status \in Completed
    BY DEF Completed
  <2> HIDE DEF status
  <2> QED
    BY <1>2, <2>1, <2>2
<1> QED
  BY <1>1, <1>2

\* A status is heard as FilingSystem tells it.
LEMMA StatusIsHeard ==
    ASSUME NEW action, action # "submit", NEW b \in Batches, NEW r \in Receipts
    PROVE  LET s == SubmissionOf(b, r)
               result == ResultOf(action, StatusAnswer(s))
           IN  /\ result.error = "none" /\ result.status = 200 /\ result.code = Result.code
               /\ ReplyOf(action, result) =
                     [kind |-> IF r \in published THEN "results" ELSE "processing",
                      utid |-> b, receipt |-> r,
                      outcomes |-> IF r \in published THEN VerdictsIn(s.results)
                                   ELSE Filer!NoOutcomes]
<1> DEFINE s == SubmissionOf(b, r)
           result == ResultOf(action, StatusAnswer(s))
<1>1. s.receipt = r /\ s.utid = UTID[b]
  BY DEF SubmissionOf
<1>2. s.results # <<>> /\ \A i \in DOMAIN s.results : ValidResult(s.results[i])
  BY ResultsOfBatch
<1>3. s.receipt # NoReceipt /\ s.utid # NoBatch
  BY <1>1, NullsAreDistinct
<1> HIDE DEF s
<1>4. PICK status, results :
         /\ \/ status = "Processing" /\ results = <<>> /\ r \notin published
            \/ status \in Completed /\ results = s.results /\ r \in published
         /\ StatusAnswer(s) = Response(200, StatusBody(s, status, results))
  BY <1>1, StatusAnswers
<1>5. irsStatus(StatusAnswer(s)) = StatusRead(s, status, results)
  <2>1. status \in {"Processing"} \cup Completed /\ (status = "Processing" <=> results = <<>>)
    BY <1>2, <1>4 DEF Completed
  <2>2. \A i \in DOMAIN results : ValidResult(results[i])
    BY <1>2, <1>4
  <2> QED
    BY <1>3, <1>4, <2>1, <2>2, StatusIsRead
<1>6. result = StatusRead(s, status, results)
  BY <1>5, Zenon DEF ResultOf
<1> HIDE DEF result
<1>7. result.code = Result.code
  BY <1>6, Zenon DEF StatusRead, Result
<1>8. /\ result.error = "none" /\ result.status = 200 /\ result.receipt = r
      /\ result.utid = UTID[b] /\ result.transmission = status /\ result.results = results
  BY <1>1, <1>6 DEF StatusRead, Result
<1>9. KindOf(action, result) = IF r \in published THEN "results" ELSE "processing"
  BY <1>4, <1>8 DEF KindOf, Completed
<1>10. BatchOfUTID(UTID[b]) = b /\ VerdictsIn(<<>>) = Filer!NoOutcomes
  BY UTIDsAreUnique DEF VerdictsIn, Filer!NoOutcomes, ToSet
<1>11. VerdictsIn(results) = IF r \in published THEN VerdictsIn(s.results) ELSE Filer!NoOutcomes
  BY <1>4, <1>10
<1>12. ReplyOf(action, result) =
          [kind |-> IF r \in published THEN "results" ELSE "processing",
           utid |-> b, receipt |-> r,
           outcomes |-> IF r \in published THEN VerdictsIn(s.results) ELSE Filer!NoOutcomes]
  BY <1>8, <1>9, <1>10, <1>11, Zenon DEF ReplyOf
<1> QED
  BY <1>7, <1>8, <1>12, Zenon DEF result, s

-----------------------------------------------------------------------------
(* What FilingSystem sees of the receiver's maps *)

Entry(b, r) == [batch |-> b, receipt |-> r, results |-> VerdictsIn(SubmissionOf(b, r).results)]
Has(b, r) == b \in Batches /\ r \in Receipts /\ SubmissionOf(b, r) \in submissions

SeenFacts ==
    /\ \A e : e \in LedgerSeen <=> \E b \in Batches, r \in Receipts : Has(b, r) /\ e = Entry(b, r)
    /\ \A b : b \in AckedSeen <=> \E r \in published : Has(b, r)
    /\ \A b \in Batches, q, r \in Receipts : Has(b, q) /\ Has(b, r) => q = r
    /\ \A b, c \in Batches, r \in Receipts : Has(b, r) /\ Has(c, r) => b = c
    /\ \A s \in submissions : s.firm = Firm => \E b \in Batches : Has(b, s.receipt) /\ s = SubmissionOf(b, s.receipt)

\* A firm's submissions are its batches, each with one receipt.
LEMMA SubmissionsAreSeen == LedgerInv => SeenFacts
<1> SUFFICES ASSUME LedgerInv PROVE SeenFacts
  OBVIOUS
<1>1. \A b \in Batches : \A r :
         /\ SubmissionOf(b, r).firm = Firm /\ SubmissionOf(b, r).utid = UTID[b]
         /\ SubmissionOf(b, r).receipt = r /\ SubmissionOf(b, r).client = Plan[b].client
         /\ BatchOfUTID(UTID[b]) = b
  BY UTIDsAreUnique DEF SubmissionOf
<1>2. \A s \in submissions :
         s.firm = Firm => \E b \in Batches : Has(b, s.receipt) /\ s = SubmissionOf(b, s.receipt)
  BY DEF LedgerInv, Has
<1>3. \A s \in OurSubmissions : \E b \in Batches :
         /\ Has(b, s.receipt) /\ s = SubmissionOf(b, s.receipt)
         /\ BatchOfUTID(s.utid) = b
  BY <1>1, <1>2 DEF OurSubmissions
<1>4. \A b, r : Has(b, r) => SubmissionOf(b, r) \in OurSubmissions
  BY <1>1 DEF Has, OurSubmissions
<1>5. ASSUME NEW e
      PROVE  e \in LedgerSeen <=> \E b \in Batches, r \in Receipts : Has(b, r) /\ e = Entry(b, r)
  <2>1. ASSUME e \in LedgerSeen
        PROVE  \E b \in Batches, r \in Receipts : Has(b, r) /\ e = Entry(b, r)
    <3>1. PICK s \in OurSubmissions :
             e = [batch |-> BatchOfUTID(s.utid), receipt |-> s.receipt, results |-> VerdictsIn(s.results)]
      BY <2>1, Zenon DEF LedgerSeen
    <3>2. PICK b \in Batches : /\ Has(b, s.receipt) /\ s = SubmissionOf(b, s.receipt)
                               /\ BatchOfUTID(s.utid) = b
      BY <1>3
    <3>3. e = Entry(b, s.receipt)
      BY <3>1, <3>2, Zenon DEF Entry
    <3> QED
      BY <3>2, <3>3 DEF Has
  <2>2. ASSUME NEW b \in Batches, NEW r \in Receipts, Has(b, r), e = Entry(b, r)
        PROVE  e \in LedgerSeen
    <3>1. SubmissionOf(b, r) \in OurSubmissions
      BY <1>4, <2>2
    <3>2. e = [batch |-> BatchOfUTID(SubmissionOf(b, r).utid), receipt |-> SubmissionOf(b, r).receipt,
               results |-> VerdictsIn(SubmissionOf(b, r).results)]
      <4>1. SubmissionOf(b, r).receipt = r /\ BatchOfUTID(SubmissionOf(b, r).utid) = b
        BY <1>1
      <4> QED
        BY <2>2, <4>1, Zenon DEF Entry
    <3> QED
      BY <3>1, <3>2, Zenon DEF LedgerSeen
  <2> QED
    BY <2>1, <2>2
<1>6. ASSUME NEW b PROVE b \in AckedSeen <=> \E r \in published : Has(b, r)
  <2>1. ASSUME b \in AckedSeen PROVE \E r \in published : Has(b, r)
    <3>1. PICK s \in OurSubmissions : s.receipt \in published /\ b = BatchOfUTID(s.utid)
      BY <2>1 DEF AckedSeen
    <3> QED
      BY <1>3, <3>1
  <2>2. ASSUME NEW r \in published, Has(b, r) PROVE b \in AckedSeen
    <3>1. /\ SubmissionOf(b, r) \in {t \in OurSubmissions : t.receipt \in published}
          /\ BatchOfUTID(SubmissionOf(b, r).utid) = b
      BY <1>1, <1>4, <2>2 DEF Has
    <3> QED
      BY <3>1, Zenon DEF AckedSeen
  <2> QED
    BY <2>1, <2>2
<1>7. \A b \in Batches, q, r \in Receipts : Has(b, q) /\ Has(b, r) => q = r
  <2> SUFFICES ASSUME NEW b \in Batches, NEW q \in Receipts, NEW r \in Receipts, Has(b, q), Has(b, r)
               PROVE  q = r
    OBVIOUS
  <2> DEFINE s == SubmissionOf(b, q)
             t == SubmissionOf(b, r)
  <2>1. s \in submissions /\ t \in submissions /\ <<s.firm, s.utid>> = <<t.firm, t.utid>>
    BY <1>1 DEF Has
  <2>2. s.receipt = q /\ t.receipt = r
    BY <1>1
  <2> HIDE DEF s, t
  <2> QED
    BY <2>1, <2>2 DEF LedgerInv, OriginalsAreUnique
<1>8. \A b, c \in Batches, r \in Receipts : Has(b, r) /\ Has(c, r) => b = c
  <2> SUFFICES ASSUME NEW b \in Batches, NEW c \in Batches, NEW r \in Receipts, Has(b, r), Has(c, r)
               PROVE  b = c
    OBVIOUS
  <2> DEFINE s == SubmissionOf(b, r)
             t == SubmissionOf(c, r)
  <2>1. s \in submissions /\ t \in submissions /\ s.receipt = t.receipt
    BY <1>1 DEF Has
  <2>2. s.utid = UTID[b] /\ t.utid = UTID[c]
    BY <1>1
  <2> HIDE DEF s, t
  <2>3. s = t
    BY <2>1 DEF LedgerInv, OriginalsAreUnique
  <2> QED
    BY <2>2, <2>3, UTIDsAreUnique
<1> QED
  BY <1>2, <1>5, <1>6, <1>7, <1>8 DEF SeenFacts

\* In the next state too.
LEMMA SubmissionsAreSeenNext == LedgerInv' => SeenFacts'
BY SubmissionsAreSeen, PTL

\* A document of the plan is a duplicate exactly when its batch is on file.
LEMMA DuplicateIsSeen ==
    ASSUME LedgerInv, NEW b \in Batches
    PROVE  Duplicate(decodeTransmission(Document[b])) =
              IF \E r \in Receipts : Has(b, r) THEN "DUPLICATE_UTID" ELSE "none"
<1> DEFINE transmission == decodeTransmission(Document[b])
<1>1. /\ transmission.firm = Firm /\ transmission.client = Plan[b].client
      /\ transmission.utid = UTID[b] /\ transmission.records = Plan[b].filings
  <2>1. transmission = [firm |-> Firm, client |-> Plan[b].client, utid |-> UTID[b],
                        records |-> Plan[b].filings]
    BY DocumentIsRead, Zenon
  <2> HIDE DEF transmission
  <2> QED
    BY <2>1
<1>2. SeenFacts
  BY SubmissionsAreSeen
<1> HIDE DEF transmission
<1>3. (\E s \in submissions : s.firm = transmission.firm /\ s.utid = transmission.utid)
         <=> \E r \in Receipts : Has(b, r)
  <2>1. ASSUME NEW s \in submissions, s.firm = Firm, s.utid = UTID[b]
        PROVE  \E r \in Receipts : Has(b, r)
    <3>1. PICK c \in Batches : Has(c, s.receipt) /\ s = SubmissionOf(c, s.receipt)
      BY <1>2, <2>1 DEF SeenFacts
    <3>2. s.utid = UTID[c]
      BY <3>1 DEF SubmissionOf
    <3>3. b = c
      BY <2>1, <3>2, UTIDsAreUnique
    <3> QED
      BY <3>1, <3>3 DEF Has
  <2>2. ASSUME NEW r \in Receipts, Has(b, r)
        PROVE  \E s \in submissions : s.firm = Firm /\ s.utid = UTID[b]
    <3>1. SubmissionOf(b, r).firm = Firm /\ SubmissionOf(b, r).utid = UTID[b]
      BY DEF SubmissionOf
    <3> QED
      BY <2>2, <3>1 DEF Has
  <2> QED
    BY <1>1, <2>1, <2>2
<1>4. ASSUME NEW s \in submissions, s.firm = Firm,
             NEW i \in DOMAIN s.results, NEW j \in DOMAIN Plan[b].filings,
             s.results[i].key = Plan[b].filings[j].key
      PROVE  \E r \in Receipts : Has(b, r)
  <2>1. PICK c \in Batches : Has(c, s.receipt) /\ s = SubmissionOf(c, s.receipt)
    BY <1>2, <1>4 DEF SeenFacts
  <2> DEFINE r == s.receipt
  <2>2. i \in DOMAIN SubmissionOf(c, r).results /\ s.results[i] = SubmissionOf(c, r).results[i]
    BY <2>1
  <2>3. s.results[i].key \in KeysOf[c]
    BY <2>2, ResultsOfBatch
  <2>4. Plan[b].filings[j].key \in KeysOf[b]
    BY DEF KeysOf, ToSet
  <2>5. b # c => KeysOf[b] \cap KeysOf[c] = {}
    BY PlanIsPartition
  <2> QED
    BY <1>4, <2>1, <2>3, <2>4, <2>5 DEF Has
<1>5. CASE \E r \in Receipts : Has(b, r)
  BY <1>3, <1>5, Zenon DEF Duplicate, transmission
<1>6. CASE ~\E r \in Receipts : Has(b, r)
  <2>1. ~\E s \in submissions :
            /\ s.firm = transmission.firm /\ s.client = transmission.client
            /\ \E i \in DOMAIN s.results, j \in DOMAIN transmission.records :
                  s.results[i].key = transmission.records[j].key
    BY <1>1, <1>4, <1>6
  <2> QED
    BY <1>3, <1>6, <2>1, Zenon DEF Duplicate, transmission
<1> QED
  BY <1>5, <1>6

\* FilingSystem agrees.
LEMMA FilerSeesDuplicate ==
    ASSUME LedgerInv, NEW b \in Batches
    PROVE  /\ Filer!IsDuplicate(b) <=> \E r \in Receipts : Has(b, r)
           /\ Filer!IsDuplicate(b) => Filer!DuplicateReply(b) = Filer!Bare("duplicate_utid")
<1>1. SeenFacts
  BY SubmissionsAreSeen
<1>2. \A e \in LedgerSeen : e.batch \in Batches
  BY <1>1 DEF SeenFacts, Entry
<1>3. Filer!findByUTID(b) # {} <=> \E r \in Receipts : Has(b, r)
  <2>1. ASSUME NEW e \in LedgerSeen, e.batch = b PROVE \E r \in Receipts : Has(b, r)
    BY <1>1, <2>1 DEF SeenFacts, Entry
  <2>2. ASSUME NEW r \in Receipts, Has(b, r) PROVE \E e \in LedgerSeen : e.batch = b
    <3>1. Entry(b, r) \in LedgerSeen /\ Entry(b, r).batch = b
      BY <1>1, <2>2 DEF SeenFacts, Entry
    <3> QED
      BY <3>1
  <2> QED
    BY <2>1, <2>2 DEF Filer!findByUTID
<1>4. KeysOf[b] \cap Filer!originalRecords # {} => Filer!findByUTID(b) # {}
  <2> SUFFICES ASSUME NEW e \in LedgerSeen, KeysOf[b] \cap KeysOf[e.batch] # {}
               PROVE  e.batch = b
    BY DEF Filer!originalRecords, Filer!findByUTID
  <2> QED
    BY <1>2, PlanIsPartition
<1> QED
  BY <1>3, <1>4, Zenon DEF Filer!IsDuplicate, Filer!DuplicateReply

\* A request of the firm is handled as FilingSystem says, and answered so.
LEMMA IntakeIsSeen ==
    ASSUME LedgerInv, LedgerInv', UNCHANGED published, NEW b \in Batches,
           NEW outcome \in handleIntake(SubmitRequest(b)),
           submissions' = submissions \cup outcome.adds
    PROVE  Filer!handleIntake(b, ReplyOf("submit", ResultOf("submit", outcome.answer)))
<1> DEFINE answer == ReplyOf("submit", ResultOf("submit", outcome.answer))
           duplicate == Duplicate(decodeTransmission(Document[b]))
<1>1. SeenFacts /\ SeenFacts'
  BY SubmissionsAreSeen, SubmissionsAreSeenNext
<1>2. Filer!IsDuplicate(b) <=> duplicate # "none"
  BY DuplicateIsSeen, FilerSeesDuplicate
<1>3. duplicate # "none" => duplicate = "DUPLICATE_UTID"
  BY DuplicateIsSeen
<1>4. ASSUME UNCHANGED submissions PROVE UNCHANGED <<LedgerSeen, AckedSeen>>
  BY <1>4, Zenon DEF LedgerSeen, AckedSeen, OurSubmissions
<1>5. ReplyOf("submit", ResultOf("submit", Unavailable)) = Filer!Bare("unavailable")
  BY OutageIsHeard
<1> HIDE DEF duplicate
<1>6. CASE duplicate # "none" /\ outcome.adds = {} /\ outcome.answer = Response(409, ErrorBody(duplicate))
  <2>1. answer = Filer!Bare("duplicate_utid")
    BY <1>3, <1>6, DuplicateIsHeard
  <2>2. UNCHANGED <<LedgerSeen, AckedSeen>>
    BY <1>4, <1>6
  <2>3. Filer!RefuseDuplicate(b, answer)
    BY <1>2, <1>6, <2>1, <2>2, FilerSeesDuplicate DEF Filer!RefuseDuplicate, Filer!stubVars
  <2> QED
    BY <2>3 DEF Filer!handleIntake
<1>7. CASE duplicate = "none" /\ outcome.adds = {} /\ outcome.answer = Unavailable
  <2>1. answer = Filer!Bare("unavailable")
    BY <1>5, <1>7
  <2>2. UNCHANGED <<LedgerSeen, AckedSeen>>
    BY <1>4, <1>7
  <2>3. Filer!FailBeforeRecord(b, answer)
    BY <1>2, <1>7, <2>1, <2>2 DEF Filer!FailBeforeRecord, Filer!stubVars
  <2> QED
    BY <2>3 DEF Filer!handleIntake
<1>8. ASSUME duplicate = "none", NEW r \in Receipts \ {s.receipt : s \in submissions},
             outcome.adds = {SubmissionOf(b, r)},
             outcome.answer \in {Unavailable, Response(200, ReceiptBody(r))}
      PROVE  Filer!RecordSubmission(b, answer)
  <2>1. answer \in {Filer!ReceiptReply(r), Filer!Bare("unavailable")}
    BY <1>5, <1>8, ReceiptIsHeard
  <2>2. submissions' = submissions \cup {SubmissionOf(b, r)}
    BY <1>8
  <2>3. \A c \in Batches, q \in Receipts : Has(c, q)' <=> Has(c, q) \/ (c = b /\ q = r)
    <3>1. ASSUME NEW c \in Batches, NEW q \in Receipts, SubmissionOf(c, q) = SubmissionOf(b, r)
          PROVE  c = b /\ q = r
      <4>1. /\ SubmissionOf(c, q).utid = UTID[c] /\ SubmissionOf(c, q).receipt = q
            /\ SubmissionOf(b, r).utid = UTID[b] /\ SubmissionOf(b, r).receipt = r
        BY Zenon DEF SubmissionOf
      <4> QED
        BY <3>1, <4>1, UTIDsAreUnique
    <3> QED
      BY <2>2, <3>1 DEF Has
  <2>4. LedgerSeen' = LedgerSeen \cup {Entry(b, r)}
    <3>1. \A e : e \in LedgerSeen' <=> \E c \in Batches, q \in Receipts : Has(c, q)' /\ e = Entry(c, q)
      BY <1>1 DEF SeenFacts, Entry
    <3>2. \A e : e \in LedgerSeen <=> \E c \in Batches, q \in Receipts : Has(c, q) /\ e = Entry(c, q)
      BY <1>1 DEF SeenFacts
    <3>3. \A e : e \in LedgerSeen' <=> e \in LedgerSeen \/ e = Entry(b, r)
      BY <2>3, <3>1, <3>2
    <3> QED
      BY <3>3
  <2>5. UNCHANGED AckedSeen
    <3>1. r \notin published /\ published \subseteq Receipts
      BY <1>8 DEF LedgerInv
    <3>2. \A c : Has(c, r)' => c \in Batches
      BY DEF Has
    <3>3. \A c : c \in AckedSeen' <=> \E q \in published : Has(c, q)'
      BY <1>1 DEF SeenFacts
    <3>4. \A c : c \in AckedSeen <=> \E q \in published : Has(c, q)
      BY <1>1 DEF SeenFacts
    <3>5. \A c, q : (Has(c, q) \/ Has(c, q)') => c \in Batches /\ q \in Receipts
      BY DEF Has
    <3>6. \A c : c \in AckedSeen' <=> c \in AckedSeen
      BY <2>3, <3>1, <3>3, <3>4, <3>5
    <3> QED
      BY <3>6 DEF AckedSeen
  <2>6. r \in Filer!FreshReceipts
    <3>1. \A e \in LedgerSeen : e.receipt # r
      <4> SUFFICES ASSUME NEW c \in Batches, NEW q \in Receipts, Has(c, q) PROVE Entry(c, q).receipt # r
        BY <1>1 DEF SeenFacts
      <4>1. Entry(c, q).receipt = q /\ SubmissionOf(c, q).receipt = q
        BY DEF Entry, SubmissionOf
      <4> QED
        BY <1>8, <4>1 DEF Has
    <3> QED
      BY <1>8, <3>1 DEF Filer!FreshReceipts, Filer!findByReceiptID
  <2>7. VerdictsIn(SubmissionOf(b, r).results) \in [KeysOf[b] -> Filer!Verdicts]
    BY ResultsOfBatch DEF Filer!Verdicts
  <2>8. ~Filer!IsDuplicate(b)
    BY <1>2, <1>8
  <2> QED
    BY <2>1, <2>4, <2>5, <2>6, <2>7, <2>8, Zenon DEF Filer!RecordSubmission, Entry
<1> QED
  BY <1>6, <1>7, <1>8, IntakeOfBatch DEF Filer!handleIntake, duplicate

-----------------------------------------------------------------------------
(* Every step is one of FilingSystem's *)

\* A worker whose response stays hears the same.
LEMMA HeardKept ==
    ASSUME NEW w \in Workers, response'[w] = response[w],
           response[w] # NoResponse => work'[w].action = work[w].action
    PROVE  Heard(w)' = Heard(w)
<1>1. CASE response[w] = NoResponse
  BY <1>1, HeardIs, Zenon
<1>2. CASE response[w] # NoResponse
  BY <1>2, HeardIs, Zenon
<1> QED
  BY <1>1, <1>2

LEMMA RepliesKept ==
    ASSUME UNCHANGED <<response, work>>
    PROVE  UNCHANGED RepliesHeard
<1>1. \A w \in Workers : Heard(w)' = Heard(w)
  BY HeardKept
<1> QED
  BY <1>1, Zenon DEF RepliesHeard

\* One worker hears something.
LEMMA OneHears ==
    ASSUME CallerInv, NEW w \in Workers, NEW answer, answer # NoResponse,
           Brings(w, answer), UNCHANGED work
    PROVE  RepliesHeard' =
              [RepliesHeard EXCEPT ![w] = ReplyOf(work[w].action, ResultOf(work[w].action, answer))]
<1> DEFINE new == ReplyOf(work[w].action, ResultOf(work[w].action, answer))
<1>1. /\ response'[w] = answer
      /\ \A v \in Workers \ {w} : response'[v] = response[v]
  BY DEF Brings, CallerInv
<1>2. Heard(w)' = new
  BY <1>1, HeardIs, Zenon
<1>3. \A v \in Workers \ {w} : Heard(v)' = Heard(v)
  BY <1>1, HeardKept
<1>4. RepliesHeard' = [v \in Workers |-> Heard(v)'] /\ RepliesHeard = [v \in Workers |-> Heard(v)]
  BY Zenon DEF RepliesHeard
<1> HIDE DEF new
<1>5. RepliesHeard' = [RepliesHeard EXCEPT ![w] = new]
  BY <1>2, <1>3, <1>4
<1> QED
  BY <1>5 DEF new

\* One worker forgets what it heard.
LEMMA OneForgets ==
    ASSUME CallerInv, NEW w \in Workers, Brings(w, NoResponse),
           work' = [work EXCEPT ![w] = Filer!NoWork]
    PROVE  Filer!Forget(w)
<1>1. /\ response'[w] = NoResponse
      /\ \A v \in Workers \ {w} : response'[v] = response[v] /\ work'[v] = work[v]
  BY DEF Brings, CallerInv
<1>2. Heard(w)' = Filer!Bare("none")
  BY <1>1, HeardIs, Zenon
<1>3. \A v \in Workers \ {w} : Heard(v)' = Heard(v)
  BY <1>1, HeardKept
<1>4. RepliesHeard' = [v \in Workers |-> Heard(v)'] /\ RepliesHeard = [v \in Workers |-> Heard(v)]
  BY Zenon DEF RepliesHeard
<1>5. RepliesHeard' = [RepliesHeard EXCEPT ![w] = Filer!Bare("none")]
  BY <1>2, <1>3, <1>4
<1> QED
  BY <1>5 DEF Filer!Forget

LEMMA IntakeRepliesAreKnown ==
    ASSUME LedgerInv, NEW b \in Batches, NEW answer, Filer!handleIntake(b, answer)
    PROVE  answer \in Filer!IntakeReplies
<1>1. CASE Filer!RefuseDuplicate(b, answer)
  <2>1. answer = Filer!Bare("duplicate_utid")
    BY <1>1, FilerSeesDuplicate DEF Filer!RefuseDuplicate
  <2> QED
    BY <2>1 DEF Filer!IntakeReplies
<1>2. CASE Filer!FailBeforeRecord(b, answer)
  BY <1>2 DEF Filer!FailBeforeRecord, Filer!IntakeReplies
<1>3. CASE Filer!RecordSubmission(b, answer)
  <2>1. PICK r \in Receipts : answer \in {Filer!ReceiptReply(r), Filer!Bare("unavailable")}
    BY <1>3 DEF Filer!RecordSubmission, Filer!FreshReceipts
  <2> QED
    BY <2>1 DEF Filer!IntakeReplies
<1> QED
  BY <1>1, <1>2, <1>3 DEF Filer!handleIntake

LEMMA SubmitRefines ==
    ASSUME LedgerInv, LedgerInv', CallerInv, NEW w \in Workers, SubmitArrives(w)
    PROVE  Filer!Submit(w)
<1> DEFINE b == work[w].batch
<1>1. /\ work[w].action = "submit" /\ pc[w] = "calling" /\ b \in Batches
      /\ Waiting(w) /\ UNCHANGED <<orphans, published, work>>
  BY DEF SubmitArrives, Waiting, CallerInv
<1>2. PICK outcome \in handleIntake(SubmitRequest(b)) :
         submissions' = submissions \cup outcome.adds /\ Brings(w, outcome.answer)
  BY DEF SubmitArrives
<1> DEFINE answer == ReplyOf("submit", ResultOf("submit", outcome.answer))
<1>3. outcome.answer # NoResponse
  BY <1>2, AnswersAreHeard
<1>4. RepliesHeard' = [RepliesHeard EXCEPT ![w] = answer]
  <2>1. RepliesHeard' = [RepliesHeard EXCEPT ![w] =
           ReplyOf(work[w].action, ResultOf(work[w].action, outcome.answer))]
    BY <1>1, <1>2, <1>3, OneHears
  <2> QED
    BY <1>1, <2>1
<1>5. Filer!handleIntake(b, answer)
  BY <1>1, <1>2, IntakeIsSeen
<1> HIDE DEF answer
<1>6. answer \in Filer!IntakeReplies
  BY <1>1, <1>5, IntakeRepliesAreKnown
<1>7. Filer!Answer(w, answer)
  BY <1>1, <1>4 DEF Filer!Answer, Filer!Goto, Filer!storeVars, Waiting
<1> QED
  BY <1>1, <1>5, <1>6, <1>7 DEF Filer!Submit, Filer!BatchOf

LEMMA InterceptedRefines ==
    ASSUME CallerInv, NEW w \in Workers, Intercepted(w)
    PROVE  Filer!CallFails(w)
<1>1. /\ pc[w] = "calling" /\ Waiting(w) /\ UNCHANGED <<published, work, submissions>>
      /\ orphans' \in {orphans} \cup
            (IF work[w].action = "submit" THEN {orphans \cup {work[w].batch}} ELSE {})
  BY DEF Intercepted, Waiting
<1>2. PICK answer \in GatewayResponses \cup {TransportFailed} : Brings(w, answer)
  BY DEF Intercepted
<1> DEFINE new == ReplyOf(work[w].action, ResultOf(work[w].action, answer))
<1>3. RepliesHeard' = [RepliesHeard EXCEPT ![w] = new]
  BY <1>1, <1>2, AnswersAreHeard, OneHears
<1>4. new \in {Filer!Bare("unavailable"), Filer!Bare("refused")}
  BY InterceptedIsHeard
<1>5. UNCHANGED <<LedgerSeen, AckedSeen>>
  BY <1>1, Zenon DEF LedgerSeen, AckedSeen, OurSubmissions
<1> HIDE DEF new
<1>6. PICK kind \in {"unavailable", "refused"} : new = Filer!Bare(kind)
  BY <1>4
<1>7. Filer!Answer(w, Filer!Bare(kind))
  BY <1>1, <1>3, <1>6 DEF Filer!Answer, Filer!Goto, Filer!storeVars, Waiting
<1> QED
  BY <1>1, <1>5, <1>7 DEF Filer!CallFails, Filer!BatchOf, Filer!stubVars

LEMMA LateArrivalRefines ==
    ASSUME LedgerInv, LedgerInv', NEW b \in Batches, LateArrival(b)
    PROVE  Filer!DeliverOrphan(b)
<1>1. PICK outcome \in handleIntake(SubmitRequest(b)) : submissions' = submissions \cup outcome.adds
  BY DEF LateArrival
<1>2. UNCHANGED published
  BY DEF LateArrival
<1> DEFINE answer == ReplyOf("submit", ResultOf("submit", outcome.answer))
<1>3. Filer!handleIntake(b, answer)
  BY <1>1, <1>2, IntakeIsSeen
<1> HIDE DEF answer
<1>4. answer \in Filer!IntakeReplies
  BY <1>3, IntakeRepliesAreKnown
<1>5. UNCHANGED RepliesHeard
  BY RepliesKept DEF LateArrival
<1> QED
  BY <1>3, <1>4, <1>5 DEF LateArrival, Filer!DeliverOrphan, Filer!storeVars, Filer!workerVars

\* What a worker asks about, by UTID or by receipt, is what FilingSystem finds.
LEMMA StatusFinds ==
    ASSUME LedgerInv, NEW b \in Batches, NEW type, NEW value, NEW wanted,
           \/ type = "UTID" /\ value = UTID[b] /\ wanted = Filer!findByUTID(b)
           \/ type = "RECEIPTID" /\ wanted = Filer!findByReceiptID(value)
    PROVE  LET answer == handleStatus(StatusRequest(type, value))
           IN  \/ wanted = {} /\ answer = Response(404, ErrorBody("NOT_FOUND"))
               \/ \E c \in Batches, r \in Receipts :
                     Has(c, r) /\ Entry(c, r) \in wanted /\ answer = StatusAnswer(SubmissionOf(c, r))
<1> DEFINE request == StatusRequest(type, value)
           found == {s \in submissions : Matches(s, request)}
<1>1. /\ request.authorized = TRUE /\ request.firm = Firm
      /\ request.type = type /\ request.value = value
  BY Zenon DEF StatusRequest
<1>2. SeenFacts
  BY SubmissionsAreSeen
<1> HIDE DEF request
<1>3. \A c \in Batches, r \in Receipts :
         Has(c, r) => (Matches(SubmissionOf(c, r), request) <=> Entry(c, r) \in wanted)
  <2> SUFFICES ASSUME NEW c \in Batches, NEW r \in Receipts, Has(c, r)
               PROVE  Matches(SubmissionOf(c, r), request) <=> Entry(c, r) \in wanted
    OBVIOUS
  <2>1. /\ SubmissionOf(c, r).firm = Firm /\ SubmissionOf(c, r).utid = UTID[c]
        /\ SubmissionOf(c, r).receipt = r
        /\ Entry(c, r).batch = c /\ Entry(c, r).receipt = r
    BY DEF SubmissionOf, Entry
  <2>2. Entry(c, r) \in LedgerSeen
    BY <1>2 DEF SeenFacts
  <2>3. CASE type = "UTID" /\ value = UTID[b] /\ wanted = Filer!findByUTID(b)
    BY <1>1, <2>1, <2>2, <2>3, UTIDsAreUnique DEF Matches, Filer!findByUTID
  <2>4. CASE type = "RECEIPTID" /\ wanted = Filer!findByReceiptID(value)
    BY <1>1, <2>1, <2>2, <2>4 DEF Matches, Filer!findByReceiptID
  <2> QED
    BY <2>3, <2>4
<1>4. \A s \in found : \E c \in Batches, r \in Receipts : Has(c, r) /\ s = SubmissionOf(c, r)
  BY <1>1, <1>2 DEF SeenFacts, Matches, Has
<1>5. CASE found = {}
  <2>1. handleStatus(request) = Response(404, ErrorBody("NOT_FOUND"))
    BY <1>1, <1>5, Zenon DEF handleStatus
  <2>2. \A e \in wanted : \E c \in Batches, r \in Receipts : Has(c, r) /\ e = Entry(c, r)
    BY <1>2 DEF SeenFacts, Filer!findByUTID, Filer!findByReceiptID
  <2>3. wanted = {}
    BY <1>3, <1>5, <2>2 DEF Has
  <2> QED
    BY <2>1, <2>3 DEF request
<1>6. CASE found # {}
  <2>1. PICK s \in found : handleStatus(request) = StatusAnswer(s)
    <3>1. (CHOOSE s \in found : TRUE) \in found
      BY <1>6
    <3>2. handleStatus(request) = StatusAnswer(CHOOSE s \in found : TRUE)
      BY <1>1, <1>6, Zenon DEF handleStatus
    <3> HIDE DEF found
    <3> QED
      BY <3>1, <3>2
  <2>2. PICK c \in Batches, r \in Receipts : Has(c, r) /\ s = SubmissionOf(c, r)
    BY <1>4
  <2>3. Entry(c, r) \in wanted
    BY <1>3, <2>1, <2>2
  <2> QED
    BY <2>1, <2>2, <2>3 DEF request
<1> QED
  BY <1>5, <1>6

LEMMA StatusRefines ==
    ASSUME LedgerInv, CallerInv, NEW w \in Workers, StatusArrives(w)
    PROVE  Filer!Status(w)
<1> DEFINE b == work[w].batch
           type == SearchType(w)
           value == IF type = "UTID" THEN UTID[b] ELSE work[w].receipt
           answer == handleStatus(StatusRequest(type, value))
           action == work[w].action
           wanted == IF Filer!SearchesUTID(w) THEN Filer!findByUTID(Filer!BatchOf(w))
                     ELSE Filer!findByReceiptID(work[w].receipt)
           new == ReplyOf(action, ResultOf(action, answer))
<1>1. /\ action # "submit" /\ pc[w] = "calling" /\ b \in Batches
      /\ Waiting(w) /\ UNCHANGED <<orphans, published, work, submissions>>
  BY DEF StatusArrives, Waiting, CallerInv
<1>2. Brings(w, answer)
  BY DEF StatusArrives
<1>3. RepliesHeard' = [RepliesHeard EXCEPT ![w] = new]
  BY <1>1, <1>2, AnswersAreHeard, OneHears
<1>4. \/ type = "UTID" /\ value = UTID[b] /\ wanted = Filer!findByUTID(b)
      \/ type = "RECEIPTID" /\ wanted = Filer!findByReceiptID(value)
  BY DEF SearchType, Filer!SearchesUTID, Filer!BatchOf
<1> HIDE DEF type, value, wanted, action
<1>5. \/ wanted = {} /\ answer = Response(404, ErrorBody("NOT_FOUND"))
      \/ \E c \in Batches, r \in Receipts :
            Has(c, r) /\ Entry(c, r) \in wanted /\ answer = StatusAnswer(SubmissionOf(c, r))
  BY <1>1, <1>4, StatusFinds
<1> HIDE DEF answer
<1>6. new \in Filer!handleStatus(wanted)
  <2>1. CASE wanted = {} /\ answer = Response(404, ErrorBody("NOT_FOUND"))
    BY <1>1, <2>1, NotFoundIsHeard DEF Filer!handleStatus
  <2>2. ASSUME NEW c \in Batches, NEW r \in Receipts, Has(c, r), Entry(c, r) \in wanted,
               answer = StatusAnswer(SubmissionOf(c, r))
        PROVE  new = Filer!StatusOf(Entry(c, r))
    <3>1. c \in AckedSeen <=> r \in published
      <4>1. SeenFacts /\ published \subseteq Receipts
        BY SubmissionsAreSeen DEF LedgerInv
      <4> QED
        BY <2>2, <4>1 DEF SeenFacts
    <3>2. new = [kind |-> IF r \in published THEN "results" ELSE "processing",
                 utid |-> c, receipt |-> r,
                 outcomes |-> IF r \in published THEN VerdictsIn(SubmissionOf(c, r).results)
                              ELSE Filer!NoOutcomes]
      BY <1>1, <2>2, StatusIsHeard
    <3>3. /\ Entry(c, r).batch = c /\ Entry(c, r).receipt = r
          /\ Entry(c, r).results = VerdictsIn(SubmissionOf(c, r).results)
      BY DEF Entry
    <3> HIDE DEF new
    <3> QED
      BY <3>1, <3>2, <3>3, Zenon DEF Filer!StatusOf
  <2> QED
    BY <1>5, <2>1, <2>2 DEF Filer!handleStatus
<1>7. UNCHANGED <<LedgerSeen, AckedSeen>>
  BY <1>1, Zenon DEF LedgerSeen, AckedSeen, OurSubmissions
<1> HIDE DEF new
<1>8. Filer!Answer(w, new)
  BY <1>1, <1>3 DEF Filer!Answer, Filer!Goto, Filer!storeVars, Waiting
<1> QED
  BY <1>1, <1>6, <1>7, <1>8 DEF Filer!Status, Filer!stubVars, wanted, action

\* Other firms go by unseen.
LEMMA OtherFirmStutters ==
    ASSUME NEW request \in OtherRequests, OtherFirm(request)
    PROVE  UNCHANGED <<LedgerSeen, AckedSeen, RepliesHeard>>
<1>1. PICK outcome \in handleIntake(request) : submissions' = submissions \cup outcome.adds
  BY DEF OtherFirm
<1>2. \A s \in outcome.adds : s.firm # Firm
  <2> SUFFICES ASSUME NEW s \in outcome.adds PROVE s.firm # Firm
    OBVIOUS
  <2> DEFINE transmission == decodeTransmission(Head(request.parts).document)
  <2>1. PICK r \in Receipts : /\ IntakeRefusal(request) = NoResponse
                              /\ outcome.adds = {Recorded(transmission, r)}
    BY IntakeOutcomes DEF IntakeOutcome
  <2>2. s.firm = transmission.firm
    BY <2>1 DEF Recorded
  <2>3. transmission.firm # Firm
    BY <2>1, OthersAreOthers DEF decodeTransmission
  <2> QED
    BY <2>2, <2>3
<1>3. UNCHANGED OurSubmissions
  BY <1>1, <1>2 DEF OurSubmissions
<1>4. UNCHANGED published
  BY DEF OtherFirm
<1>5. UNCHANGED <<LedgerSeen, AckedSeen>>
  BY <1>3, <1>4, Zenon DEF LedgerSeen, AckedSeen
<1> QED
  BY <1>5, RepliesKept DEF OtherFirm

LEMMA PublishRefines ==
    ASSUME LedgerInv, LedgerInv', NEW s \in submissions, Publish(s)
    PROVE  \/ \E b \in Batches : Filer!Acknowledge(b)
           \/ UNCHANGED <<LedgerSeen, AckedSeen, RepliesHeard>>
<1>1. /\ UNCHANGED submissions /\ published' = published \cup {s.receipt}
      /\ s.receipt \notin published /\ UNCHANGED RepliesHeard
  BY RepliesKept DEF Publish
<1>2. UNCHANGED LedgerSeen
  BY <1>1, Zenon DEF LedgerSeen, OurSubmissions
<1>3. CASE s.firm # Firm
  <2>1. \A t \in OurSubmissions : t.receipt = s.receipt => t = s
    BY DEF LedgerInv, OriginalsAreUnique, OurSubmissions
  <2>2. {t \in OurSubmissions : t.receipt \in published'} = {t \in OurSubmissions : t.receipt \in published}
    BY <1>1, <1>3, <2>1 DEF OurSubmissions
  <2>3. UNCHANGED OurSubmissions
    BY <1>1, Zenon DEF OurSubmissions
  <2>4. UNCHANGED AckedSeen
    BY <2>2, <2>3, Zenon DEF AckedSeen
  <2> QED
    BY <1>1, <1>2, <2>4
<1>4. CASE s.firm = Firm
  <2>1. SeenFacts /\ SeenFacts' /\ published \subseteq Receipts
    BY SubmissionsAreSeen, SubmissionsAreSeenNext DEF LedgerInv
  <2> DEFINE r == s.receipt
  <2>2. PICK b \in Batches : Has(b, r)
    BY <1>4, <2>1 DEF SeenFacts
  <2>3. \A c, q : Has(c, q)' <=> Has(c, q)
    BY <1>1 DEF Has
  <2>4. \A c : c \in AckedSeen' <=> \E q \in published' : Has(c, q)
    BY <2>1, <2>3 DEF SeenFacts
  <2>5. \A c : c \in AckedSeen <=> \E q \in published : Has(c, q)
    BY <2>1 DEF SeenFacts
  <2>6. \A c : Has(c, r) <=> c = b
    BY <2>1, <2>2 DEF SeenFacts, Has
  <2>7. AckedSeen' = AckedSeen \cup {b}
    <3>1. \A c : c \in AckedSeen' <=> c \in AckedSeen \/ c = b
      BY <1>1, <2>4, <2>5, <2>6
    <3> HIDE DEF r
    <3> QED
      BY <3>1
  <2>8. b \notin AckedSeen
    BY <1>1, <2>1, <2>2, <2>5 DEF SeenFacts, Has
  <2>9. Filer!findByUTID(b) # {}
    <3>1. Entry(b, r) \in LedgerSeen /\ Entry(b, r).batch = b
      BY <2>1, <2>2 DEF SeenFacts, Entry, Has
    <3> QED
      BY <3>1 DEF Filer!findByUTID
  <2>10. Filer!AcknowledgmentAvailable(b)
    BY <1>2, <2>7, <2>8, <2>9 DEF Filer!AcknowledgmentAvailable
  <2> QED
    BY <1>1, <2>10 DEF Publish, Filer!Acknowledge, Filer!storeVars, Filer!workerVars
<1> QED
  BY <1>3, <1>4

\* An error has no status; a status that is read has one of the known transmissions.
LEMMA ReturnedShapes ==
    ASSUME NEW action, NEW answer
    PROVE  LET r == ResultOf(action, answer)
           IN  /\ r.error \in {"transport", "protocol", "none"}
               /\ r.error # "none" => r.status = 0
               /\ r.status = 200 /\ action = "submit" => r.transmission = "none"
               /\ r.status = 200 /\ action # "submit" => r.transmission \in {"Processing"} \cup Completed
<1> DEFINE r == ResultOf(action, answer)
<1>1. \A error : Failed(error).error = error /\ Failed(error).status = 0
  BY FailedResults
<1>2. \A status, code : ErrorRead(status, code).error = "none" /\ ErrorRead(status, code).status = status
  BY BareResults
<1>3. \A x : ReceiptRead(x).error = "none" /\ ReceiptRead(x).status = 200 /\ ReceiptRead(x).transmission = "none"
  BY Zenon DEF ReceiptRead, Result
<1>4. \A s, status, results : /\ StatusRead(s, status, results).error = "none"
                              /\ StatusRead(s, status, results).status = 200
                              /\ StatusRead(s, status, results).transmission = status
  BY Zenon DEF StatusRead, Result
<1>5. \/ r = Failed("transport") \/ r = Failed("protocol")
      \/ answer.status # 200 /\ r = ErrorRead(answer.status, answer.body.code)
      \/ action = "submit" /\ r = ReceiptRead(answer.body.receipt)
      \/ /\ action # "submit"
         /\ answer.body.status \in {"Processing"} \cup Completed
         /\ r = StatusRead(answer.body, answer.body.status, answer.body.results)
  BY ResultShapes
<1> HIDE DEF r
<1> QED
  BY <1>1, <1>2, <1>3, <1>4, <1>5 DEF r

\* The kinds of reply, one by one.
LEMMA KindIs ==
    ASSUME NEW action, NEW r,
           r.error \in {"transport", "protocol", "none"},
           r.error # "none" => r.status = 0,
           r.status = 200 /\ action = "submit" => r.transmission = "none",
           r.status = 200 /\ action # "submit" => r.transmission \in {"Processing"} \cup Completed
    PROVE  LET down == r.error = "transport" \/ r.status = 429 \/ r.status >= 500
               known == \/ r.status = 200
                        \/ r.status = 409 /\ r.code = "DUPLICATE_UTID" /\ action = "submit"
                        \/ r.status = 404 /\ r.code = "NOT_FOUND" /\ action # "submit"
           IN  /\ down => KindOf(action, r) = "unavailable"
               /\ r.status = 200 /\ action = "submit" => KindOf(action, r) = "receipt"
               /\ r.status = 200 /\ action # "submit" /\ r.transmission = "Processing" =>
                     KindOf(action, r) = "processing"
               /\ r.status = 200 /\ action # "submit" /\ r.transmission # "Processing" =>
                     KindOf(action, r) = "results"
               /\ r.status = 409 /\ r.code = "DUPLICATE_UTID" /\ action = "submit" =>
                     KindOf(action, r) = "duplicate_utid"
               /\ r.status = 404 /\ r.code = "NOT_FOUND" /\ action # "submit" =>
                     KindOf(action, r) = "not_found"
               /\ ~down /\ ~known => KindOf(action, r) = "refused"
<1> DEFINE down == r.error = "transport" \/ r.status = 429 \/ r.status >= 500
           known == \/ r.status = 200
                    \/ r.status = 409 /\ r.code = "DUPLICATE_UTID" /\ action = "submit"
                    \/ r.status = 404 /\ r.code = "NOT_FOUND" /\ action # "submit"
<1>1. "Processing" \notin Completed
  BY DEF Completed
<1>2. down => KindOf(action, r) = "unavailable"
  BY DEF KindOf
<1>3. r.status = 200 /\ action = "submit" => KindOf(action, r) = "receipt"
  BY DEF KindOf, Completed
<1>4. r.status = 200 /\ action # "submit" /\ r.transmission = "Processing" =>
         KindOf(action, r) = "processing"
  BY <1>1 DEF KindOf
<1>5. r.status = 200 /\ action # "submit" /\ r.transmission # "Processing" =>
         KindOf(action, r) = "results"
  BY DEF KindOf
<1>6. r.status = 409 /\ r.code = "DUPLICATE_UTID" /\ action = "submit" =>
         KindOf(action, r) = "duplicate_utid"
  BY DEF KindOf
<1>7. r.status = 404 /\ r.code = "NOT_FOUND" /\ action # "submit" =>
         KindOf(action, r) = "not_found"
  BY DEF KindOf
<1>8. ~down /\ ~known => KindOf(action, r) = "refused"
  BY DEF KindOf
<1> QED
  BY <1>2, <1>3, <1>4, <1>5, <1>6, <1>7, <1>8

\* FilingSystem's name of the worker's conclusion: the two calls that end a batch
\* are one there.
CallOf(conclusion) ==
    IF conclusion \in {"FailBatchInvariant", "RecordRetryExhausted"} THEN "terminalTransition"
    ELSE conclusion

LEMMA HeardWhenFinished ==
    ASSUME CallerInv, NEW w \in Workers, pc[w] = "finished"
    PROVE  /\ Returned(w) = ResultOf(work[w].action, response[w])
           /\ RepliesHeard[w].kind = KindOf(work[w].action, Returned(w))
           /\ RepliesHeard[w].utid = BatchOfUTID(Returned(w).utid)
           /\ RepliesHeard[w].receipt = Returned(w).receipt
           /\ RepliesHeard[w].outcomes = VerdictsIn(Returned(w).results)
<1>1. Returned(w) = ResultOf(work[w].action, response[w])
  BY Zenon DEF Returned, ResultOf
<1>2. response[w] # NoResponse
  BY DEF CallerInv
<1>3. Heard(w) = ReplyOf(work[w].action, Returned(w))
  BY <1>1, <1>2, HeardIs
<1>4. RepliesHeard[w] = ReplyOf(work[w].action, Returned(w))
  BY <1>3, Zenon DEF RepliesHeard
<1> QED
  BY <1>1, <1>4 DEF ReplyOf

LEMMA SubmitConcludes ==
    ASSUME CallerInv, NEW w \in Workers, pc[w] = "finished", work[w].action = "submit"
    PROVE  Filer!SubmitCall(w) = CallOf(SubmitConclusion(w))
<1> DEFINE r == Returned(w)
           kind == KindOf("submit", r)
<1>1. RepliesHeard[w].kind = kind
  BY HeardWhenFinished
<1>2. r = ResultOf("submit", response[w])
  BY HeardWhenFinished
<1> HIDE DEF r
<1>3. /\ r.error \in {"transport", "protocol", "none"}
      /\ r.error # "none" => r.status = 0
      /\ r.status = 200 => r.transmission = "none"
  BY <1>2, ReturnedShapes
<1> DEFINE down == r.error = "transport" \/ r.status = 429 \/ r.status >= 500
           duplicate == r.status = 409 /\ r.code = "DUPLICATE_UTID"
<1>4. /\ down => kind = "unavailable"
      /\ r.status = 200 => kind = "receipt"
      /\ duplicate => kind = "duplicate_utid"
      /\ ~down /\ r.status # 200 /\ ~duplicate => kind = "refused"
  BY <1>3, KindIs
<1> HIDE DEF kind
<1>5. CASE r.error = "protocol"
  BY <1>1, <1>3, <1>4, <1>5 DEF SubmitConclusion, Filer!SubmitCall, CallOf, r
<1>6. CASE r.error = "transport"
  BY <1>1, <1>3, <1>4, <1>6 DEF SubmitConclusion, Filer!SubmitCall, CallOf, Retry, Filer!Exhausted, r
<1>7. CASE r.error = "none"
  BY <1>1, <1>3, <1>4, <1>7 DEF SubmitConclusion, Filer!SubmitCall, CallOf, Retry, Filer!Exhausted, r
<1> QED
  BY <1>3, <1>5, <1>6, <1>7

LEMMA StatusConcludes ==
    ASSUME CallerInv, NEW w \in Workers, pc[w] = "finished", work[w].action # "submit"
    PROVE  Filer!StatusCall(w) = CallOf(StatusConclusion(w))
<1> DEFINE r == Returned(w)
           action == work[w].action
           kind == KindOf(action, r)
           b == work[w].batch
<1>1. RepliesHeard[w].kind = kind /\ r = ResultOf(action, response[w])
  BY HeardWhenFinished
<1>2. Filer!IdentityMismatch(w) <=>
         ~(r.utid = UTID[b] /\ (work[w].receipt # NoReceipt => r.receipt = work[w].receipt))
  <2>1. b \in Batches
    BY DEF CallerInv
  <2>2. RepliesHeard[w].utid = b <=> r.utid = UTID[b]
    BY <2>1, HeardWhenFinished, UTIDsAreUnique
  <2>3. RepliesHeard[w].receipt = r.receipt
    BY HeardWhenFinished
  <2> HIDE DEF r
  <2> QED
    BY <2>2, <2>3 DEF Filer!IdentityMismatch, Filer!BatchOf
<1>3. SearchType(w) = IF Filer!SearchesUTID(w) THEN "UTID" ELSE "RECEIPTID"
  BY DEF SearchType, Filer!SearchesUTID
<1> HIDE DEF r
<1>4. /\ r.error \in {"transport", "protocol", "none"}
      /\ r.error # "none" => r.status = 0
      /\ r.status = 200 => r.transmission \in {"Processing"} \cup Completed
  BY <1>1, ReturnedShapes
<1> DEFINE down == r.error = "transport" \/ r.status = 429 \/ r.status >= 500
           absent == r.status = 404 /\ r.code = "NOT_FOUND"
           known == r.utid = UTID[b] /\ (work[w].receipt # NoReceipt => r.receipt = work[w].receipt)
<1>5. /\ down => kind = "unavailable"
      /\ r.status = 200 /\ r.transmission = "Processing" => kind = "processing"
      /\ r.status = 200 /\ r.transmission # "Processing" => kind = "results"
      /\ absent => kind = "not_found"
      /\ ~down /\ r.status # 200 /\ ~absent => kind = "refused"
  BY <1>4, KindIs
<1> HIDE DEF kind
<1>6. /\ r.error = "protocol" => StatusConclusion(w) = "FailBatchInvariant"
      /\ down => StatusConclusion(w) = Retry(w, "RecordStatusUnavailable")
      /\ absent => StatusConclusion(w) =
            IF SearchType(w) = "UTID" THEN "RecordReferenceNotFound" ELSE "FailBatchInvariant"
      /\ r.status = 200 /\ known => StatusConclusion(w) =
            IF SearchType(w) = "UTID" THEN "RecordReferenceFound"
            ELSE IF r.transmission = "Processing" THEN "RecordAcknowledgmentPending"
            ELSE "CompleteAcknowledgment"
      /\ r.status = 200 /\ ~known => StatusConclusion(w) = "FailBatchInvariant"
      /\ r.error = "none" /\ ~down /\ ~absent /\ r.status # 200 =>
            StatusConclusion(w) = "FailBatchInvariant"
  <2> HIDE DEF known
  <2>1. StatusConclusion(w) =
           CASE r.error = "protocol" -> "FailBatchInvariant"
             [] r.error = "transport" \/ r.status = 429 \/ r.status >= 500 ->
                   Retry(w, "RecordStatusUnavailable")
             [] r.status = 404 /\ r.code = "NOT_FOUND" /\ SearchType(w) = "UTID" ->
                   "RecordReferenceNotFound"
             [] r.status = 200 /\ known /\ SearchType(w) = "UTID" -> "RecordReferenceFound"
             [] r.status = 200 /\ known /\ SearchType(w) = "RECEIPTID" ->
                   IF r.transmission = "Processing" THEN "RecordAcknowledgmentPending"
                   ELSE "CompleteAcknowledgment"
             [] OTHER -> "FailBatchInvariant"
    BY Zenon DEF StatusConclusion, r, known
  <2>2. SearchType(w) \in {"UTID", "RECEIPTID"}
    BY <1>3
  <2> QED
    BY <1>4, <2>1, <2>2
<1>7. CallOf(Retry(w, "RecordStatusUnavailable")) =
         IF Filer!Exhausted(w) THEN "terminalTransition" ELSE "RecordStatusUnavailable"
  BY DEF CallOf, Retry, Filer!Exhausted
<1>8. /\ CallOf("FailBatchInvariant") = "terminalTransition"
      /\ \A call \in {"RecordReferenceNotFound", "RecordReferenceFound",
                      "RecordAcknowledgmentPending", "CompleteAcknowledgment"} : CallOf(call) = call
  BY DEF CallOf
<1> HIDE DEF known
<1>9. Filer!StatusCall(w) =
         CASE kind = "unavailable" ->
               IF Filer!Exhausted(w) THEN "terminalTransition" ELSE "RecordStatusUnavailable"
           [] kind = "not_found" ->
               IF Filer!SearchesUTID(w) THEN "RecordReferenceNotFound" ELSE "terminalTransition"
           [] kind \in {"processing", "results"} /\ known ->
               IF Filer!SearchesUTID(w) THEN "RecordReferenceFound"
               ELSE IF kind = "processing" THEN "RecordAcknowledgmentPending"
               ELSE "CompleteAcknowledgment"
           [] OTHER -> "terminalTransition"
  <2>1. ~Filer!IdentityMismatch(w) <=> known
    BY <1>2, Zenon DEF known
  <2> QED
    BY <1>1, <2>1 DEF Filer!StatusCall
<1>10. CASE down
  BY <1>5, <1>6, <1>7, <1>9, <1>10
<1>11. CASE absent
  BY <1>3, <1>4, <1>5, <1>6, <1>8, <1>9, <1>11
<1>12. CASE r.status = 200
  BY <1>3, <1>5, <1>6, <1>8, <1>9, <1>12
<1>13. CASE ~down /\ ~absent /\ r.status # 200
  BY <1>4, <1>5, <1>6, <1>8, <1>9, <1>13
<1> QED
  BY <1>10, <1>11, <1>12, <1>13

\* The worker draws FilingSystem's conclusion.
LEMMA WorkerConcludes ==
    ASSUME CallerInv, NEW w \in Workers, pc[w] = "finished"
    PROVE  /\ Filer!LifecycleCall(w) = CallOf(Conclusion(w))
           /\ Conclusion(w) \in {"RecordSubmitAccepted", "RecordSubmitUnknown", "RecordReferenceFound",
                                 "RecordReferenceNotFound", "RecordAcknowledgmentPending",
                                 "RecordStatusUnavailable", "CompleteAcknowledgment",
                                 "FailBatchInvariant", "RecordRetryExhausted"}
<1>1. Filer!LifecycleCall(w) = CallOf(Conclusion(w))
  <2>1. CASE work[w].action = "submit"
    BY <2>1, SubmitConcludes, Zenon DEF Filer!LifecycleCall, Conclusion
  <2>2. CASE work[w].action # "submit"
    BY <2>2, StatusConcludes, Zenon DEF Filer!LifecycleCall, Conclusion
  <2> QED
    BY <2>1, <2>2
<1>2. Conclusion(w) \in {"RecordSubmitAccepted", "RecordSubmitUnknown", "RecordReferenceFound",
                         "RecordReferenceNotFound", "RecordAcknowledgmentPending",
                         "RecordStatusUnavailable", "CompleteAcknowledgment",
                         "FailBatchInvariant", "RecordRetryExhausted"}
  <2>1. \A call : Retry(w, call) \in {call, "RecordRetryExhausted"}
    BY DEF Retry
  <2>2. SubmitConclusion(w) \in {"RecordSubmitAccepted", "RecordSubmitUnknown", "FailBatchInvariant",
                                 "RecordRetryExhausted"}
    BY <2>1, ZenonT(30) DEF SubmitConclusion
  <2>3. StatusConclusion(w) \in {"RecordReferenceFound", "RecordReferenceNotFound",
                                 "RecordAcknowledgmentPending", "RecordStatusUnavailable",
                                 "CompleteAcknowledgment", "FailBatchInvariant", "RecordRetryExhausted"}
    BY <2>1, Zenon DEF StatusConclusion
  <2> QED
    BY <2>2, <2>3 DEF Conclusion
<1> QED
  BY <1>1, <1>2

LEMMA RecordRefines ==
    ASSUME CallerInv, NEW w \in Workers, Record(w)
    PROVE  Filer!Record(w)
<1> DEFINE conclusion == Conclusion(w)
           call == Filer!LifecycleCall(w)
           b == work[w].batch
<1>1. /\ pc[w] = "finished" /\ Apply(w, conclusion) /\ Brings(w, NoResponse)
      /\ Filer!Goto(w, "idle") /\ work' = [work EXCEPT ![w] = Filer!NoWork]
      /\ UNCHANGED <<submissions, published, permit, orphans>>
  BY DEF Record
<1>2. /\ call = CallOf(conclusion)
      /\ RepliesHeard[w].receipt = Returned(w).receipt
      /\ RepliesHeard[w].outcomes = VerdictsIn(Returned(w).results)
  BY <1>1, WorkerConcludes, HeardWhenFinished
<1>3. Filer!Forget(w)
  BY <1>1, OneForgets
<1>4. UNCHANGED <<LedgerSeen, AckedSeen>>
  BY <1>1, Zenon DEF LedgerSeen, AckedSeen, OurSubmissions
<1>5. \/ conclusion \in {"FailBatchInvariant", "RecordRetryExhausted"} /\ call = "terminalTransition"
      \/ conclusion \notin {"FailBatchInvariant", "RecordRetryExhausted"} /\ call = conclusion
  BY <1>2 DEF CallOf
<1> HIDE DEF conclusion, call
<1>6. Filer!Apply(w)
  <2>1. \/ call = "RecordSubmitAccepted" /\ Filer!RecordSubmitAccepted(w, b, RepliesHeard[w].receipt)
        \/ call = "RecordSubmitUnknown" /\ Filer!RecordSubmitUnknown(w, b)
        \/ call = "RecordReferenceFound" /\ Filer!RecordReferenceFound(w, b, RepliesHeard[w].receipt)
        \/ call = "RecordReferenceNotFound" /\ Filer!RecordReferenceNotFound(w, b)
        \/ call = "RecordAcknowledgmentPending" /\ Filer!RecordAcknowledgmentPending(w, b)
        \/ call = "RecordStatusUnavailable" /\ Filer!RecordStatusUnavailable(w, b)
        \/ call = "CompleteAcknowledgment" /\ Filer!CompleteAcknowledgment(w, b, RepliesHeard[w].outcomes)
        \/ call = "terminalTransition" /\ Filer!terminalTransition(w, b)
    BY <1>1, <1>2, <1>5 DEF Apply
  <2> QED
    BY <2>1 DEF Filer!Apply, Filer!BatchOf, call
<1> QED
  BY <1>1, <1>3, <1>4, <1>6 DEF Filer!Record, Filer!stubVars

LEMMA RecordFailsRefines ==
    ASSUME CallerInv, NEW w \in Workers, RecordFails(w)
    PROVE  Filer!RecordFails(w)
<1> DEFINE conclusion == Conclusion(w)
           call == Filer!LifecycleCall(w)
           b == work[w].batch
<1>1. /\ pc[w] = "finished" /\ Brings(w, NoResponse)
      /\ \/ ~Filer!RowMatches(conclusion, w, b)
         \/ /\ conclusion = "CompleteAcknowledgment"
            /\ ~Filer!OutcomesMatch(b, VerdictsIn(Returned(w).results))
      /\ Filer!Goto(w, "stopped") /\ work' = [work EXCEPT ![w] = Filer!NoWork]
      /\ UNCHANGED <<submissions, published, state, receipt, claim, leaseLive, attempts,
                     filing, permit, orphans>>
  BY DEF RecordFails
<1>2. /\ call = CallOf(conclusion)
      /\ RepliesHeard[w].outcomes = VerdictsIn(Returned(w).results)
  BY <1>1, WorkerConcludes, HeardWhenFinished
<1>3. Filer!Forget(w)
  BY <1>1, OneForgets
<1>4. UNCHANGED <<LedgerSeen, AckedSeen>>
  BY <1>1, Zenon DEF LedgerSeen, AckedSeen, OurSubmissions
<1>5. Filer!FromStates(call) = Filer!FromStates(conclusion)
  <2>1. CASE conclusion \in {"FailBatchInvariant", "RecordRetryExhausted"}
    <3>1. call = "terminalTransition"
      BY <1>2, <2>1 DEF CallOf
    <3>2. \A c \in {"FailBatchInvariant", "RecordRetryExhausted", "terminalTransition"} :
             Filer!FromStates(c) = Filer!BatchStates \ Filer!Terminal
      BY DEF Filer!FromStates
    <3> QED
      BY <2>1, <3>1, <3>2
  <2>2. CASE conclusion \notin {"FailBatchInvariant", "RecordRetryExhausted"}
    BY <1>2, <2>2 DEF CallOf
  <2> QED
    BY <2>1, <2>2
<1>6. conclusion = "CompleteAcknowledgment" => call = "CompleteAcknowledgment"
  BY <1>2 DEF CallOf
<1> HIDE DEF conclusion, call
<1>7. Filer!Refused(w)
  <2>1. Filer!RowMatches(call, w, b) <=> Filer!RowMatches(conclusion, w, b)
    BY <1>5 DEF Filer!RowMatches
  <2> QED
    BY <1>1, <1>2, <1>6, <2>1 DEF Filer!Refused, Filer!BatchOf, call
<1> QED
  BY <1>1, <1>3, <1>4, <1>7 DEF Filer!RecordFails, Filer!stubVars, Filer!storeVars

\* What the worker does that is not about the wire is FilingSystem's own step.
LEMMA StepRefines ==
    ASSUME LedgerInv, LedgerInv', CallerInv, NEW w \in Workers, Step(w)
    PROVE  Filer!Step(w)
<1>1. CASE Proceed(w)
  BY <1>1 DEF Proceed, Filer!Step
<1>2. CASE Stop(w)
  BY <1>2 DEF Stop, Filer!Step
<1>3. CASE SubmitArrives(w)
  BY <1>3, SubmitRefines DEF Filer!Step
<1>4. CASE StatusArrives(w)
  BY <1>4, StatusRefines DEF Filer!Step
<1>5. CASE Intercepted(w)
  BY <1>5, InterceptedRefines DEF Filer!Step
<1>6. CASE Record(w)
  BY <1>6, RecordRefines DEF Filer!Step
<1>7. CASE RecordFails(w)
  BY <1>7, RecordFailsRefines DEF Filer!Step
<1> QED
  BY <1>1, <1>2, <1>3, <1>4, <1>5, <1>6, <1>7 DEF Step

LEMMA NextRefines ==
    LedgerInv /\ LedgerInv' /\ CallerInv /\ [Next]_vars => [Filer!Next]_(Filer!vars)
<1> SUFFICES ASSUME LedgerInv, LedgerInv', CallerInv, [Next]_vars
             PROVE  Filer!Next \/ UNCHANGED Filer!vars
  OBVIOUS
<1>1. ASSUME UNCHANGED <<LedgerSeen, AckedSeen, RepliesHeard, state, receipt, claim, leaseLive,
                         attempts, filing, pc, work, permit, orphans>>
      PROVE  UNCHANGED Filer!vars
  BY <1>1 DEF Filer!vars, Filer!storeVars, Filer!stubVars, Filer!workerVars
<1>2. CASE UNCHANGED vars
  <2>1. UNCHANGED <<LedgerSeen, AckedSeen>>
    BY <1>2, Zenon DEF vars, wireVars, LedgerSeen, AckedSeen, OurSubmissions
  <2>2. UNCHANGED RepliesHeard
    BY <1>2, RepliesKept DEF vars, wireVars
  <2> QED
    BY <1>1, <1>2, <2>1, <2>2 DEF vars
<1>3. ASSUME NEW w \in Workers, Step(w) PROVE Filer!Next
  BY <1>3, StepRefines DEF Filer!Next
<1>4. ASSUME NEW b \in Batches, LateArrival(b) PROVE Filer!Next
  BY <1>4, LateArrivalRefines DEF Filer!Next, Filer!Environment
<1>5. ASSUME NEW b \in Batches, Filer!LeaseExpires(b) PROVE Filer!Next
  BY <1>5 DEF Filer!Next, Filer!Environment
<1>6. ASSUME NEW request \in OtherRequests, OtherFirm(request) PROVE UNCHANGED Filer!vars
  BY <1>1, <1>6, OtherFirmStutters DEF OtherFirm
<1>7. ASSUME NEW s \in submissions, Publish(s) PROVE Filer!Next \/ UNCHANGED Filer!vars
  <2>1. CASE \E b \in Batches : Filer!Acknowledge(b)
    BY <2>1 DEF Filer!Next, Filer!Environment
  <2>2. CASE UNCHANGED <<LedgerSeen, AckedSeen, RepliesHeard>>
    BY <1>1, <1>7, <2>2 DEF Publish
  <2> QED
    BY <1>7, <2>1, <2>2, PublishRefines
<1> QED
  BY <1>2, <1>3, <1>4, <1>5, <1>6, <1>7 DEF Next

LEMMA InitRefines == Init => Filer!Init
<1> SUFFICES ASSUME Init PROVE Filer!Init
  OBVIOUS
<1>1. LedgerSeen = {} /\ AckedSeen = {}
  BY DEF Init, LedgerSeen, AckedSeen, OurSubmissions
<1>2. ASSUME NEW w \in Workers PROVE Heard(w) = Filer!Bare("none")
  <2>1. response[w] = NoResponse
    BY DEF Init
  <2> QED
    BY <2>1, HeardIs
<1>3. RepliesHeard = [w \in Workers |-> Filer!Bare("none")]
  BY <1>2, Zenon DEF RepliesHeard
<1> QED
  BY <1>1, <1>3, Zenon DEF Init, Filer!Init, Filer!StoreInit, Filer!StubInit

\* On the wire the system is FilingSystem, for any plan, any number of workers,
\* any other firms and any gateway: canonicalXML and decodeTransmission, record,
\* writeXML and decodeStrict, and the two switches of the worker fit together.
THEOREM WireImplementsSystem == Spec => ImplementsFilingSystem
<1>1. Init => Filer!Init
  BY InitRefines
<1>2. LedgerInv /\ LedgerInv' /\ CallerInv /\ [Next]_vars => [Filer!Next]_(Filer!vars)
  BY NextRefines
<1> QED
  BY <1>1, <1>2, WireInvariance, PTL DEF Spec, ImplementsFilingSystem, Filer!Spec

-----------------------------------------------------------------------------
(* The receiver and the client agree on the format *)

\* No error, and one of the four pairs of status and error code.
Understood(r) ==
    /\ r.error = "none"
    /\ \/ r.status = 200 /\ r.code = Result.code
       \/ r.status = 404 /\ r.code = "NOT_FOUND"
       \/ r.status = 409 /\ r.code = "DUPLICATE_UTID"
       \/ r.status = 503 /\ r.code = "SERVICE_UNAVAILABLE"

LEMMA CodesAreRead ==
    \A status, code : ErrorRead(status, code).error = "none" /\ ErrorRead(status, code).status = status
                      /\ ErrorRead(status, code).code = code
BY BareResults

LEMMA SubmitIsUnderstood ==
    ASSUME LedgerInv, CallerInv, NEW w \in Workers, SubmitArrives(w)
    PROVE  Understood(Returned(w)')
<1> DEFINE b == work[w].batch
<1>1. work[w].action = "submit" /\ b \in Batches /\ UNCHANGED work
  BY DEF SubmitArrives, Waiting, CallerInv
<1>2. PICK outcome \in handleIntake(SubmitRequest(b)) : Brings(w, outcome.answer)
  BY DEF SubmitArrives
<1> DEFINE r == ResultOf("submit", outcome.answer)
<1>3. response'[w] = outcome.answer
  BY <1>2 DEF Brings, CallerInv
<1>4. Returned(w)' = r
  BY <1>1, <1>3, Zenon DEF Returned, ResultOf
<1>5. CASE outcome.answer = Response(409, ErrorBody("DUPLICATE_UTID"))
  <2>1. r = ErrorRead(409, "DUPLICATE_UTID")
    BY <1>5, DuplicateIsHeard
  <2> HIDE DEF r
  <2> QED
    BY <1>4, <2>1, CodesAreRead, SMT DEF Understood
<1>6. CASE outcome.answer = Unavailable
  <2>1. r = ErrorRead(503, "SERVICE_UNAVAILABLE")
    BY <1>6, OutageIsHeard
  <2> HIDE DEF r
  <2> QED
    BY <1>4, <2>1, CodesAreRead DEF Understood
<1>7. ASSUME NEW receiptId \in Receipts, outcome.answer = Response(200, ReceiptBody(receiptId))
      PROVE  Understood(Returned(w)')
  <2>1. r = ReceiptRead(receiptId)
    BY <1>7, ReceiptIsRead, Zenon DEF ResultOf
  <2>2. /\ ReceiptRead(receiptId).error = "none" /\ ReceiptRead(receiptId).status = 200
        /\ ReceiptRead(receiptId).code = Result.code
    BY Zenon DEF ReceiptRead, Result
  <2> HIDE DEF r
  <2> QED
    BY <1>4, <2>1, <2>2 DEF Understood
<1>8. \/ outcome.answer = Response(409, ErrorBody("DUPLICATE_UTID"))
      \/ outcome.answer = Unavailable
      \/ \E receiptId \in Receipts : outcome.answer = Response(200, ReceiptBody(receiptId))
  <2> DEFINE duplicate == Duplicate(decodeTransmission(Document[b]))
  <2>1. duplicate # "none" => duplicate = "DUPLICATE_UTID"
    BY <1>1, DuplicateIsSeen
  <2>2. \/ duplicate # "none" /\ outcome.answer = Response(409, ErrorBody(duplicate))
        \/ outcome.answer = Unavailable
        \/ \E receiptId \in Receipts : outcome.answer = Response(200, ReceiptBody(receiptId))
    BY <1>1, <1>2, IntakeOfBatch
  <2> HIDE DEF duplicate
  <2> QED
    BY <2>1, <2>2
<1> QED
  BY <1>5, <1>6, <1>7, <1>8

LEMMA StatusIsUnderstood ==
    ASSUME LedgerInv, CallerInv, NEW w \in Workers, StatusArrives(w)
    PROVE  Understood(Returned(w)')
<1> DEFINE b == work[w].batch
           type == SearchType(w)
           value == IF type = "UTID" THEN UTID[b] ELSE work[w].receipt
           answer == handleStatus(StatusRequest(type, value))
           action == work[w].action
           wanted == IF type = "UTID" THEN Filer!findByUTID(b) ELSE Filer!findByReceiptID(value)
           r == ResultOf(action, answer)
<1>1. action # "submit" /\ b \in Batches /\ UNCHANGED work
  BY DEF StatusArrives, Waiting, CallerInv
<1>2. response'[w] = answer
  BY DEF StatusArrives, Brings, CallerInv
<1>3. Returned(w)' = r
  BY <1>1, <1>2, Zenon DEF Returned, ResultOf
<1>4. \/ type = "UTID" /\ value = UTID[b] /\ wanted = Filer!findByUTID(b)
      \/ type = "RECEIPTID" /\ wanted = Filer!findByReceiptID(value)
  BY DEF SearchType
<1> HIDE DEF type, value, wanted, action
<1>5. \/ answer = Response(404, ErrorBody("NOT_FOUND"))
      \/ \E c \in Batches, q \in Receipts : answer = StatusAnswer(SubmissionOf(c, q))
  <2>1. \/ wanted = {} /\ answer = Response(404, ErrorBody("NOT_FOUND"))
        \/ \E c \in Batches, q \in Receipts :
              Has(c, q) /\ Entry(c, q) \in wanted /\ answer = StatusAnswer(SubmissionOf(c, q))
    BY <1>1, <1>4, StatusFinds, SMTT(10)
  <2> HIDE DEF answer
  <2> QED
    BY <2>1, Zenon
<1> HIDE DEF answer
<1>6. CASE answer = Response(404, ErrorBody("NOT_FOUND"))
  <2>1. r = ErrorRead(404, "NOT_FOUND")
    BY <1>1, <1>6, NotFoundIsHeard
  <2> HIDE DEF r
  <2> QED
    BY <1>3, <2>1, CodesAreRead DEF Understood
<1>7. ASSUME NEW c \in Batches, NEW q \in Receipts, answer = StatusAnswer(SubmissionOf(c, q))
      PROVE  Understood(Returned(w)')
  <2>1. r.error = "none" /\ r.status = 200 /\ r.code = Result.code
    BY <1>1, <1>7, StatusIsHeard
  <2> HIDE DEF r
  <2> QED
    BY <1>3, <2>1 DEF Understood
<1> QED
  BY <1>5, <1>6, <1>7

\* Whatever the receiver answers to a worker, the client reads, and none of its
\* answers calls a planned document malformed or its filings somebody else's:
\* writeXML and decodeStrict, canonicalXML and decodeTransmission agree on every
\* plan.
THEOREM AnswersAreUnderstood == Spec => ReceiverIsUnderstood
<1> DEFINE A == \A w \in Workers :
                   SubmitArrives(w) \/ StatusArrives(w) =>
                      /\ Returned(w)'.error = "none"
                      /\ <<Returned(w)'.status, Returned(w)'.code>> \in
                            {<<200, "">>, <<404, "NOT_FOUND">>, <<409, "DUPLICATE_UTID">>,
                             <<503, "SERVICE_UNAVAILABLE">>}
<1>1. LedgerInv /\ CallerInv => A
  <2> SUFFICES ASSUME LedgerInv, CallerInv, NEW w \in Workers,
                      SubmitArrives(w) \/ StatusArrives(w)
               PROVE  /\ Returned(w)'.error = "none"
                      /\ <<Returned(w)'.status, Returned(w)'.code>> \in
                            {<<200, "">>, <<404, "NOT_FOUND">>, <<409, "DUPLICATE_UTID">>,
                             <<503, "SERVICE_UNAVAILABLE">>}
    BY Zenon
  <2>1. Understood(Returned(w)')
    <3> HIDE DEF A
    <3> QED
      BY SubmitIsUnderstood, StatusIsUnderstood
  <2>2. Result.code = ""
    BY Zenon DEF Result
  <2> DEFINE r == Returned(w)'
  <2>3. /\ r.error = "none"
        /\ \/ r.status = 200 /\ r.code = ""
           \/ r.status = 404 /\ r.code = "NOT_FOUND"
           \/ r.status = 409 /\ r.code = "DUPLICATE_UTID"
           \/ r.status = 503 /\ r.code = "SERVICE_UNAVAILABLE"
    BY <2>1, <2>2, Zenon DEF Understood
  <2> DEFINE answer == <<r.status, r.code>>
  <2> HIDE DEF r
  <2>4. \/ answer = <<200, "">>
        \/ answer = <<404, "NOT_FOUND">>
        \/ answer = <<409, "DUPLICATE_UTID">>
        \/ answer = <<503, "SERVICE_UNAVAILABLE">>
    BY <2>3, Zenon
  <2> HIDE DEF answer
  <2>5. answer \in {<<200, "">>, <<404, "NOT_FOUND">>, <<409, "DUPLICATE_UTID">>,
                   <<503, "SERVICE_UNAVAILABLE">>}
    BY <2>4
  <2>6. r.error = "none"
    BY <2>3
  <2> QED
    BY <2>5, <2>6, Zenon DEF r, answer
<1>2. [][A]_vars => ReceiverIsUnderstood
  BY Zenon DEF ReceiverIsUnderstood
<1> HIDE DEF A
<1> QED
  BY <1>1, <1>2, WireInvariance, PTL

-----------------------------------------------------------------------------
(* What FilingSystemProofs proves holds on the wire *)

\* FilingSystem with its theorems, as Filer is FilingSystem.
Books == INSTANCE FilingSystemProofs WITH
    Filings <- Keys, FilingsOf <- KeysOf,
    Faults <- {"unavailable", "refused"},
    LeaseCoversCalls <- FALSE, FenceDrainsNetwork <- FALSE,
    ledger <- LedgerSeen, acked <- AckedSeen,
    reply <- RepliesHeard

\* The constants are as FilingSystem assumes.
LEMMA FilerAssumptions ==
    /\ KeysOf \in [Batches -> SUBSET Keys]
    /\ \A b \in Batches : KeysOf[b] # {}
    /\ \A b, c \in Batches : b # c => KeysOf[b] \cap KeysOf[c] = {}
    /\ NoWorker \notin Workers /\ NoReceipt \notin Receipts /\ NoBatch \notin Batches
    /\ MaxAttempts \in Nat \ {0}
    /\ {"unavailable", "refused"} \subseteq {"unavailable", "refused", "incomplete"}
    /\ FALSE \in BOOLEAN
<1>1. KeysOf \in [Batches -> SUBSET Keys]
  BY DEF KeysOf, Keys
<1>2. ASSUME NEW b \in Batches PROVE KeysOf[b] # {}
  <2>1. Plan[b].filings \in Seq(PlannedRow(b)) /\ Len(Plan[b].filings) \in 1..MaxRecords
    BY PlanIsPartition
  <2> DEFINE filings == Plan[b].filings
  <2>2. KeysOf[b] = {f.key : f \in ToSet(filings)}
    BY DEF KeysOf
  <2> HIDE DEF filings
  <2>3. filings[1] \in ToSet(filings)
    BY <2>1, WireLimits DEF ToSet, filings
  <2> QED
    BY <2>2, <2>3
<1> QED
  BY <1>1, <1>2, PlanIsPartition, NullsAreDistinct, BackoffLimits

\* Both instances are the same machine.
LEMMA SameSteps ==
    ASSUME NEW w \in Workers
    PROVE  Filer!Step(w) <=> Books!Step(w)
<1> USE DEF Filer!storeVars, Books!storeVars, Filer!Terminal, Books!Terminal,
            Filer!stubVars, Books!stubVars, Filer!NoOutcomes, Books!NoOutcomes,
            Filer!Bare, Books!Bare, Filer!NoWork, Books!NoWork, Filer!Goto, Books!Goto,
            Filer!BatchOf, Books!BatchOf, Filer!Forget, Books!Forget, Filer!Answer, Books!Answer,
            Filer!SearchesUTID, Books!SearchesUTID
<1>1. ASSUME NEW b \in Batches PROVE Filer!Claim(w, b) <=> Books!Claim(w, b)
  BY DEF Filer!ClaimedState, Books!ClaimedState, Filer!NextAction, Books!NextAction,
         Filer!Claimable, Books!Claimable, Filer!NextAttempt, Books!NextAttempt,
         Filer!ClaimNextBatch, Books!ClaimNextBatch, Filer!Claim, Books!Claim
<1>2. Filer!AcquireCallPermit(w) <=> Books!AcquireCallPermit(w)
  BY DEF Filer!AcquireCallPermit, Books!AcquireCallPermit
<1>3. Filer!AcquireTimesOut(w) <=> Books!AcquireTimesOut(w)
  BY DEF Filer!AcquireTimesOut, Books!AcquireTimesOut
<1>4. Filer!Submit(w) <=> Books!Submit(w)
  BY DEF Filer!Verdicts, Books!Verdicts, Filer!ReceiptReply, Books!ReceiptReply,
         Filer!IntakeReplies, Books!IntakeReplies, Filer!findByUTID, Books!findByUTID,
         Filer!findByReceiptID, Books!findByReceiptID, Filer!originalRecords, Books!originalRecords,
         Filer!FreshReceipts, Books!FreshReceipts, Filer!DuplicateReply, Books!DuplicateReply,
         Filer!IsDuplicate, Books!IsDuplicate, Filer!RefuseDuplicate, Books!RefuseDuplicate,
         Filer!FailBeforeRecord, Books!FailBeforeRecord,
         Filer!RecordSubmission, Books!RecordSubmission, Filer!handleIntake, Books!handleIntake,
         Filer!Submit, Books!Submit
<1>5. Filer!Status(w) <=> Books!Status(w)
  BY DEF Filer!findByUTID, Books!findByUTID, Filer!findByReceiptID, Books!findByReceiptID,
         Filer!StatusOf, Books!StatusOf, Filer!handleStatus, Books!handleStatus,
         Filer!Status, Books!Status
<1>6. Filer!StatusIncomplete(w) <=> Books!StatusIncomplete(w)
  BY DEF Filer!findByReceiptID, Books!findByReceiptID, Filer!StatusOf, Books!StatusOf,
         Filer!StatusIncomplete, Books!StatusIncomplete
<1>7. Filer!CallFails(w) <=> Books!CallFails(w)
  BY DEF Filer!CallFails, Books!CallFails
<1>8. Filer!Finish(w) <=> Books!Finish(w)
  BY DEF Filer!Finish, Books!Finish
<1>9. Filer!Record(w) <=> Books!Record(w)
  BY DEF Filer!BatchStates, Books!BatchStates, Filer!FromStates, Books!FromStates,
         Filer!LiveClaim, Books!LiveClaim, Filer!RowMatches, Books!RowMatches,
         Filer!OutcomesMatch, Books!OutcomesMatch, Filer!ReleaseClaim, Books!ReleaseClaim,
         Filer!eventTransition, Books!eventTransition,
         Filer!RecordSubmitAccepted, Books!RecordSubmitAccepted,
         Filer!RecordSubmitUnknown, Books!RecordSubmitUnknown,
         Filer!RecordReferenceFound, Books!RecordReferenceFound,
         Filer!RecordReferenceNotFound, Books!RecordReferenceNotFound,
         Filer!RecordAcknowledgmentPending, Books!RecordAcknowledgmentPending,
         Filer!RecordStatusUnavailable, Books!RecordStatusUnavailable,
         Filer!CompleteAcknowledgment, Books!CompleteAcknowledgment,
         Filer!terminalTransition, Books!terminalTransition, Filer!Exhausted, Books!Exhausted,
         Filer!IdentityMismatch, Books!IdentityMismatch, Filer!SubmitCall, Books!SubmitCall,
         Filer!StatusCall, Books!StatusCall, Filer!LifecycleCall, Books!LifecycleCall,
         Filer!Apply, Books!Apply, Filer!Record, Books!Record
<1>10. Filer!RecordFails(w) <=> Books!RecordFails(w)
  BY DEF Filer!BatchStates, Books!BatchStates, Filer!FromStates, Books!FromStates,
         Filer!LiveClaim, Books!LiveClaim, Filer!RowMatches, Books!RowMatches,
         Filer!OutcomesMatch, Books!OutcomesMatch, Filer!Exhausted, Books!Exhausted,
         Filer!IdentityMismatch, Books!IdentityMismatch, Filer!SubmitCall, Books!SubmitCall,
         Filer!StatusCall, Books!StatusCall, Filer!LifecycleCall, Books!LifecycleCall,
         Filer!Refused, Books!Refused, Filer!RecordFails, Books!RecordFails
<1>11. Filer!Halt(w) <=> Books!Halt(w)
  BY DEF Filer!Halt, Books!Halt
<1>12. Filer!Restart(w) <=> Books!Restart(w)
  BY DEF Filer!Restart, Books!Restart
<1> QED
  BY <1>1, <1>2, <1>3, <1>4, <1>5, <1>6, <1>7, <1>8, <1>9, <1>10, <1>11, <1>12
  DEF Filer!Step, Books!Step

LEMMA SameEnvironment ==
    ASSUME NEW b \in Batches
    PROVE  Filer!Environment(b) <=> Books!Environment(b)
<1>1. Filer!LeaseExpires(b) <=> Books!LeaseExpires(b)
  BY DEF Filer!ExpireLease, Books!ExpireLease, Filer!stubVars, Books!stubVars,
         Filer!workerVars, Books!workerVars, Filer!BatchOf, Books!BatchOf,
         Filer!LeaseExpires, Books!LeaseExpires
<1>2. Filer!DeliverOrphan(b) <=> Books!DeliverOrphan(b)
  BY DEF Filer!storeVars, Books!storeVars, Filer!Verdicts, Books!Verdicts,
         Filer!stubVars, Books!stubVars, Filer!NoOutcomes, Books!NoOutcomes, Filer!Bare, Books!Bare,
         Filer!ReceiptReply, Books!ReceiptReply, Filer!IntakeReplies, Books!IntakeReplies,
         Filer!findByUTID, Books!findByUTID, Filer!findByReceiptID, Books!findByReceiptID,
         Filer!originalRecords, Books!originalRecords, Filer!FreshReceipts, Books!FreshReceipts,
         Filer!DuplicateReply, Books!DuplicateReply, Filer!IsDuplicate, Books!IsDuplicate,
         Filer!RefuseDuplicate, Books!RefuseDuplicate,
         Filer!FailBeforeRecord, Books!FailBeforeRecord,
         Filer!RecordSubmission, Books!RecordSubmission, Filer!handleIntake, Books!handleIntake,
         Filer!workerVars, Books!workerVars, Filer!DeliverOrphan, Books!DeliverOrphan
<1>3. Filer!Acknowledge(b) <=> Books!Acknowledge(b)
  BY DEF Filer!storeVars, Books!storeVars, Filer!findByUTID, Books!findByUTID,
         Filer!AcknowledgmentAvailable, Books!AcknowledgmentAvailable,
         Filer!workerVars, Books!workerVars, Filer!Acknowledge, Books!Acknowledge
<1> QED
  BY <1>1, <1>2, <1>3 DEF Filer!Environment, Books!Environment

LEMMA SameMachine == Filer!Spec <=> Books!Spec
<1>1. Filer!Init <=> Books!Init
  BY Zenon DEF Filer!StoreInit, Books!StoreInit, Filer!NoOutcomes, Books!NoOutcomes,
               Filer!Bare, Books!Bare, Filer!StubInit, Books!StubInit, Filer!NoWork, Books!NoWork,
               Filer!Init, Books!Init
<1>2. [Filer!Next]_(Filer!vars) <=> [Books!Next]_(Books!vars)
  <2>1. Filer!Next <=> Books!Next
    BY SameSteps, SameEnvironment, Zenon DEF Filer!Next, Books!Next
  <2>2. UNCHANGED Filer!vars <=> UNCHANGED Books!vars
    BY DEF Filer!storeVars, Books!storeVars, Filer!stubVars, Books!stubVars,
           Filer!workerVars, Books!workerVars, Filer!vars, Books!vars
  <2> QED
    BY <2>1, <2>2
<1> QED
  BY <1>1, <1>2, PTL DEF Filer!Spec, Books!Spec

\* FilingSystem's theorems, read on the wire.
LEMMA BooksAreKept ==
    Spec => /\ [](/\ Books!NoFilingRecordedTwice /\ Books!ReceiptIsOnFile
                  /\ Books!SettledAsAcknowledged /\ Books!AllOrNothing)
            /\ Books!ImplementsContract
<1>1. Spec => Books!Spec
  BY WireImplementsSystem, SameMachine DEF ImplementsFilingSystem
<1>2. Books!Spec => []Books!NoFilingRecordedTwice
  BY FilerAssumptions, Books!ExactlyOnce
<1>3. Books!Spec => []Books!ReceiptIsOnFile
  BY FilerAssumptions, Books!ReceiptsAreReal
<1>4. Books!Spec => []Books!SettledAsAcknowledged
  BY FilerAssumptions, Books!ResultsAreTheReceivers
<1>5. Books!Spec => []Books!AllOrNothing
  BY FilerAssumptions, Books!BatchesSettleWhole
<1>6. Books!Spec => Books!ImplementsContract
  BY FilerAssumptions, Books!SystemImplementsContract
<1> QED
  BY <1>1, <1>2, <1>3, <1>4, <1>5, <1>6, PTL

\* The promise of the transmission path, kept by the two programs on the wire:
\* each filing goes on file at most once and is settled, with its batch, by what is
\* on file; or its batch is left to a person (handleIntake, worker.go, ProcessOne).
THEOREM WireImplementsContract == Spec => Filer!ImplementsContract
<1>1. Filer!Contract!Init <=> Books!Contract!Init
  BY DEF Filer!Contract!Init, Books!Contract!Init
<1>2. [Filer!Contract!Next]_(Filer!Contract!vars) <=> [Books!Contract!Next]_(Books!Contract!vars)
  <2>1. Filer!Contract!Next <=> Books!Contract!Next
    BY DEF Filer!Contract!Next, Books!Contract!Next, Filer!Contract!File, Books!Contract!File,
           Filer!Contract!Settle, Books!Contract!Settle, Filer!Contract!GiveUp, Books!Contract!GiveUp,
           Filer!Verdicts, Books!Verdicts
  <2>2. UNCHANGED Filer!Contract!vars <=> UNCHANGED Books!Contract!vars
    BY DEF Filer!Contract!vars, Books!Contract!vars
  <2> QED
    BY <2>1, <2>2
<1> QED
  BY <1>1, <1>2, BooksAreKept, PTL
  DEF Filer!ImplementsContract, Books!ImplementsContract, Filer!Contract!Spec, Books!Contract!Spec

\* What the client makes of the receiver's results is the receiver's judgment of
\* each planned row.
LEMMA VerdictsAreJudgments ==
    ASSUME NEW b \in Batches, NEW r, NEW row \in ToSet(Plan[b].filings)
    PROVE  VerdictsIn(SubmissionOf(b, r).results)[row.key] =
              IF resultFor(row) = "none" THEN "accepted" ELSE "rejected"
<1> DEFINE filings == Plan[b].filings
           results == SubmissionOf(b, r).results
           judged == FrozenResult(row)
<1>1. PICK i \in DOMAIN filings : row = filings[i]
  BY DEF ToSet
<1>2. results = [j \in DOMAIN filings |-> FrozenResult(filings[j])]
  BY DEF SubmissionOf
<1>3. filings \in Seq(PlannedRow(b))
  BY PlanIsPartition
<1>4. \A j \in DOMAIN filings : filings[j].key = row.key => j = i
  BY <1>1, PlanIsPartition
<1>5. judged.key = row.key
  BY ResultsAreValid
<1>6. judged.status = IF resultFor(row) = "none" THEN "Accepted" ELSE "Rejected"
  BY Zenon DEF FrozenResult
<1> HIDE DEF filings
<1>7. /\ DOMAIN results = DOMAIN filings
      /\ \A j \in DOMAIN filings : results[j].key = filings[j].key
      /\ results[i] = judged
  BY <1>1, <1>2, ResultsAreValid, Zenon
<1>8. DOMAIN filings = 1 .. Len(filings)
  BY <1>3
<1> HIDE DEF results, judged
<1>9. ToSet(results) = {results[j] : j \in DOMAIN filings}
  BY <1>7 DEF ToSet
<1>10. \A result \in ToSet(results) : result.key = row.key <=> result = judged
  BY <1>1, <1>4, <1>5, <1>7, <1>9
<1>11. judged \in ToSet(results)
  BY <1>1, <1>7, <1>9
<1>12. (CHOOSE result \in ToSet(results) : result.key = row.key) = judged
  BY <1>10, <1>11, Zenon
<1>13. VerdictsIn(results)[row.key] = Verdict(judged)
  BY <1>5, <1>11, <1>12 DEF VerdictsIn
<1> QED
  BY <1>6, <1>13 DEF Verdict, results

\* For any plan, firm, neighbours and gateway, whatever is shown of a filing is what
\* the receiver's rules say of its planned row, under the receipt in its batch's row
\* and not before that acknowledgment is published.
THEOREM FilingsSettleAsJudged == Spec => []SettledAsJudged
<1>1. ASSUME LedgerInv, Books!NoFilingRecordedTwice, Books!ReceiptIsOnFile,
             Books!SettledAsAcknowledged, Books!AllOrNothing
      PROVE  SettledAsJudged
  <2> SUFFICES ASSUME NEW b \in Batches, NEW row \in ToSet(Plan[b].filings),
                      filing[row.key] # "batched"
               PROVE  /\ \E s \in OurSubmissions : s.utid = UTID[b] /\ s.receipt = receipt[b]
                      /\ receipt[b] \in published
                      /\ filing[row.key] = "accepted" <=> resultFor(row) = "none"
    BY Zenon DEF SettledAsJudged
  <2> DEFINE k == row.key
  <2>1. k \in KeysOf[b] /\ SeenFacts
    BY <1>1, SubmissionsAreSeen DEF KeysOf
  <2>2. PICK q \in published : Has(b, q)
    BY <1>1, <2>1 DEF Books!SettledAsAcknowledged, SeenFacts
  <2>3. \A e \in LedgerSeen : e.batch = b => e = Entry(b, q)
    <3> SUFFICES ASSUME NEW e \in LedgerSeen, e.batch = b PROVE e = Entry(b, q)
      OBVIOUS
    <3>1. PICK c \in Batches, r \in Receipts : Has(c, r) /\ e = Entry(c, r)
      BY <2>1 DEF SeenFacts
    <3>2. c = b
      BY <3>1 DEF Entry
    <3>3. r = q
      BY <2>1, <2>2, <3>1, <3>2 DEF SeenFacts, Has
    <3> QED
      BY <3>1, <3>2, <3>3
  <2>4. receipt[b] = q
    <3>1. state[b] = "acknowledged"
      BY <1>1, <2>1 DEF Books!AllOrNothing
    <3>2. PICK e \in LedgerSeen : e.batch = b /\ e.receipt = receipt[b]
      BY <1>1, <3>1 DEF Books!ReceiptIsOnFile
    <3> QED
      BY <2>3, <3>2 DEF Entry
  <2>5. SubmissionOf(b, q) \in OurSubmissions
        /\ SubmissionOf(b, q).utid = UTID[b] /\ SubmissionOf(b, q).receipt = q
    BY <2>2 DEF Has, OurSubmissions, SubmissionOf
  <2>6. filing[k] = VerdictsIn(SubmissionOf(b, q).results)[k]
    <3>1. PICK e \in LedgerSeen : e.batch = b /\ e.results[k] = filing[k]
      BY <1>1, <2>1 DEF Books!SettledAsAcknowledged
    <3> QED
      BY <2>3, <3>1 DEF Entry
  <2>7. filing[k] = IF resultFor(row) = "none" THEN "accepted" ELSE "rejected"
    BY <2>6, VerdictsAreJudgments
  <2>8. filing[k] = "accepted" <=> resultFor(row) = "none"
    BY <2>7, Zenon
  <2> QED
    BY <2>2, <2>4, <2>5, <2>8, Zenon
<1> QED
  BY <1>1, WireInvariance, BooksAreKept, PTL
=============================================================================
