------------------------------- MODULE Intake -------------------------------
(***************************************************************************)
(* From an export file to planned transmissions, for one firm and tax      *)
(* year: ImportDataset, DetermineDataset and PlanBatches                   *)
(* (postgres/internal/store), each one READ COMMITTED transaction under an *)
(* advisory lock, called by any number of operators and processes at once, *)
(* repeated, and stopped anywhere.                                         *)
(*                                                                         *)
(* Data abstractions.  A file is the sequence of its records, Unreadable   *)
(* where the CSV reader stops with an error, and its SHA-256 is the file   *)
(* itself.  A filing key is injective in client and vendor identity, so a  *)
(* filing is that pair; a batch is the sequence of its filings and its     *)
(* document is computed from it (Wire).  A TIN is its spelling and, once   *)
(* the separators are stripped, its value.  A name stands for all          *)
(* spellings that normalise alike.  Amounts are cents: numeric where SQL   *)
(* says numeric, bounded by Word where it says bigint and in Go.           *)
(***************************************************************************)
EXTENDS Wire, FiniteSets, SequencesExt

CONSTANTS
    Callers, NoCaller,
    Files, NoFile,
    Unreadable,     \* a record that is not CSV, not UTF-8, too wide or too long
    Firm,
    FilingOrder,    \* all filings, as ORDER BY client_id, filing_key has them
    Threshold,      \* 60000 cents
    MaxBatch        \* 100 filings

Filings == ToSet(FilingOrder)
Operations == {"import", "determine", "plan"}

\* Identities are what VendorIdentity makes of a row; nine digits make one a tin.
ASSUME VendorsHaveTINs ==
    \A f \in Filings :
        /\ f.vendor.kind \in {"tin", "missing-tin", "malformed-tin"}
        /\ f.vendor.kind = "tin" => f.vendor.value \in NineDigits

\* ORDER BY client_id first: the filings of a client stand together.
ASSUME FilingOrderIsClientMajor ==
    /\ FilingOrder \in Seq(Filings)
    /\ \A i, j, k \in DOMAIN FilingOrder :
          /\ i # j => FilingOrder[i] # FilingOrder[j]
          /\ i <= j /\ j <= k /\ FilingOrder[i].client = FilingOrder[k].client =>
                FilingOrder[j].client = FilingOrder[i].client

ASSUME FilesAreSequences == \A file \in Files : file \in Seq(ToSet(file))

ASSUME Limits ==
    /\ Threshold \in Nat /\ MaxBatch \in 1..MaxRecords
    /\ NoCaller \notin Callers /\ NoFile \notin Files

VARIABLES
    dataset,     \* the payments and the content hash of datasets, or NoFile
    determined,  \* the determinations row exists
    filing,      \* filings.state, "none" without a row
    batches,     \* submission_batches with their batch_filings in slot order
    locks,       \* holder of each operation's advisory lock
    pc,          \* where each caller's transaction is
    call,        \* its operation and input
    seen,        \* what it has read
    answer       \* what the last call of each caller returned

tables == <<dataset, determined, filing, batches>>
vars == <<tables, locks, pc, call, seen, answer>>

FilingStates == {"none", "blocked_preflight", "ready", "batched"}

\* A caller that is not in a call, and one that has no answer.
NoCall == [op |-> "import", file |-> NoFile]
NoAnswer == [op |-> "import", file |-> NoFile, result |-> "none", counts |-> <<>>]

-----------------------------------------------------------------------------
(* Reading an export *)

\* Mutant: Next reports the end of the rows instead of the error, and the hash
\* of what was read so far is handed out.
ReadFailedSilently(file) == FALSE

\* The copy ends with the reader's error; SHA256 has no value before EOF.
ReadFailed(file) == Contains(file, Unreadable)

\* The records in front of the first unreadable one: what CopyFrom stages.
Staged(file) ==
    LET stop == SelectInSeq(file, LAMBDA row : row = Unreadable)
    IN  IF stop = 0 THEN file ELSE SubSeq(file, 1, stop - 1)

PaymentMethods == {"check", "ach", "wire", "cash", "credit_card", "paypal"}

\* A row of datasets is a row, and NoFile is none.
ASSUME NoFileIsNoDataset ==
    \A file \in Files : NoFile # [rows |-> Staged(file), hash |-> file]

\* The validation query; the row number comes from the reader.
ValidRow(row) ==
    /\ row.client # "" /\ row.name # ""
    /\ row.amount \in -(Word - 1) .. Word - 1
    /\ row.method \in PaymentMethods
    /\ row.withheld \in 0 .. Word - 1

\* The reader's error, an empty export, or a row that is not valid.
Refused(file) ==
    \/ ReadFailed(file)
    \/ Staged(file) = <<>>
    \/ \E i \in DOMAIN Staged(file) : ~ValidRow(Staged(file)[i])

-----------------------------------------------------------------------------
(* What the determination computes from the rows *)

\* The vendor_identity that the import stores with a payment.
VendorIdentity(row) ==
    CASE row.tin.spelling = "blank" -> [kind |-> "missing-tin", value |-> row.name]
      [] row.tin.spelling = "nine digits" -> [kind |-> "tin", value |-> row.tin.value]
      [] OTHER -> [kind |-> "malformed-tin", value |-> row.tin.value]

\* payment_classification_nec_2025_v1.counted
Counted(row) == row.method \in {"check", "ach", "wire", "cash"}

OfVendor(row, f) == row.client = f.client /\ VendorIdentity(row) = f.vendor

\* What each row adds to the two sums of a filing.
CountedAmounts(rows, f) ==
    [i \in DOMAIN rows |->
        IF OfVendor(rows[i], f) /\ Counted(rows[i]) THEN rows[i].amount ELSE 0]
WithheldAmounts(rows, f) ==
    [i \in DOMAIN rows |-> IF OfVendor(rows[i], f) THEN rows[i].withheld ELSE 0]

\* sum() of bigints is numeric: it has no bound.
Total(amounts) ==
    LET upTo[n \in 0 .. Len(amounts)] ==
            IF n = 0 THEN 0 ELSE upTo[n - 1] + amounts[n]
    IN  upTo[Len(amounts)]

Reportable(rows, f) == Total(CountedAmounts(rows, f))
Withholding(rows, f) == Total(WithheldAmounts(rows, f))

\* The HAVING clause: the aggregates that become filings.
Required(rows, f) ==
    /\ \E i \in DOMAIN rows : OfVendor(rows[i], f)
    /\ Reportable(rows, f) >= Threshold \/ Withholding(rows, f) > 0

\* Mutant: numeric columns, so that no sum is refused.
OverflowsNever(rows) == FALSE

\* The casts to bigint, of the aggregates that passed HAVING: error 22003.
Overflows(rows) ==
    \E f \in Filings :
        Required(rows, f) /\ ~({Reportable(rows, f), Withholding(rows, f)} \subseteq Int64)

\* recipient_tin, "" when the vendor has none
RecipientTIN(f) == IF f.vendor.kind = "tin" THEN f.vendor.value ELSE ""

\* Mutant: only a negative amount is blocked.
PreflightNegativeOnly(rows, f) ==
    CASE f.vendor.kind = "missing-tin" -> "TIN_MISSING"
      [] f.vendor.kind = "malformed-tin" -> "TIN_MALFORMED"
      [] RecipientTIN(f) \in ZeroTINs -> "TIN_INVALID"
      [] Reportable(rows, f) < 0 -> "AMOUNT_INVALID"
      [] OTHER -> "none"

\* preflight_reason
Preflight(rows, f) ==
    CASE f.vendor.kind = "missing-tin" -> "TIN_MISSING"
      [] f.vendor.kind = "malformed-tin" -> "TIN_MALFORMED"
      [] RecipientTIN(f) \in ZeroTINs -> "TIN_INVALID"
      [] Reportable(rows, f) <= 0 -> "AMOUNT_INVALID"
      [] OTHER -> "none"

FilingState(rows, f) ==
    IF ~Required(rows, f) THEN "none"
    ELSE IF Preflight(rows, f) = "none" THEN "ready" ELSE "blocked_preflight"

\* A row of filings, as PlanBatches reads it.
FilingRow(rows, f) ==
    [key |-> f, tin |-> RecipientTIN(f),
     reportable |-> Reportable(rows, f), withheld |-> Withholding(rows, f)]

\* Adding up in int64, where zero changes nothing.
WrappedTotal(amounts) ==
    LET upTo[n \in 0 .. Len(amounts)] ==
            IF n = 0 THEN 0 ELSE Wrap(upTo[n - 1] + amounts[n])
    IN  upTo[Len(amounts)]

\* PaymentExplanation: the rows of a vendor in file order, added up in int64.
PaymentExplanation(rows, f) ==
    [reportable |-> WrappedTotal(CountedAmounts(rows, f)),
     withheld |-> WrappedTotal(WithheldAmounts(rows, f))]

-----------------------------------------------------------------------------
(* How PlanBatches groups *)

\* Mutant: the size limit alone ends a group.
GroupEndAnyClient(s, start) ==
    CHOOSE end \in start + 1 .. Len(s) + 1 :
        /\ end - start <= MaxBatch
        /\ end <= Len(s) => end - start = MaxBatch

\* The inner loop: as long as size and client allow.
GroupEnd(s, start) ==
    CHOOSE end \in start + 1 .. Len(s) + 1 :
        /\ end - start <= MaxBatch
        /\ \A i \in start .. end - 1 : s[i].client = s[start].client
        /\ end <= Len(s) => \/ end - start = MaxBatch
                            \/ s[end].client # s[start].client

\* The outer loop: where its n-th pass leaves start.
Starts(s) ==
    LET after[n \in 0 .. Len(s)] ==
            IF n = 0 THEN 1
            ELSE LET start == after[n - 1]
                 IN  IF start > Len(s) THEN start ELSE GroupEnd(s, start)
    IN  after

\* The filings of each pass that is made.
Groups(s) ==
    LET start == Starts(s)
    IN  {SubSeq(s, start[n - 1], start[n] - 1) :
            n \in {m \in 1 .. Len(s) : start[m - 1] <= Len(s)}}

\* ORDER BY client_id, filing_key
InOrder(fs) ==
    LET upTo[n \in 0 .. Len(FilingOrder)] ==
            IF n = 0 THEN <<>>
            ELSE IF FilingOrder[n] \in fs THEN Append(upTo[n - 1], FilingOrder[n])
            ELSE upTo[n - 1]
    IN  upTo[Len(FilingOrder)]

\* Mutant: LIMIT 100 on the rows, not on the batch.
ReadyFilingsFirstPage ==
    LET ready == InOrder({f \in Filings : filing[f] = "ready"})
    IN  {ready[i] : i \in 1 .. IF Len(ready) < MaxBatch THEN Len(ready) ELSE MaxBatch}

ReadyFilings == {f \in Filings : filing[f] = "ready"}

-----------------------------------------------------------------------------
NothingSeen == [exists |-> FALSE, stored |-> NoFile, counts |-> <<>>, plan |-> {}]

InState(state) == Cardinality({f \in Filings : filing[f] = state})

\* Every variable has its shape; a lock has a holder only while a call of that
\* operation is under way.
TypeOK ==
    /\ dataset = NoFile \/ dataset.hash \in Files
    /\ determined \in BOOLEAN
    /\ filing \in [Filings -> FilingStates]
    /\ \A g \in batches : ToSet(g) \subseteq Filings
    /\ locks \in [Operations -> Callers \cup {NoCaller}]
    /\ pc \in [Callers -> {"idle", "waiting", "locked", "read"}]
    /\ call \in [Callers -> [op : Operations, file : Files \cup {NoFile}]]
    /\ \A op \in Operations : locks[op] # NoCaller =>
          call[locks[op]].op = op /\ pc[locks[op]] \in {"locked", "read"}

Init ==
    /\ dataset = NoFile
    /\ determined = FALSE
    /\ filing = [f \in Filings |-> "none"]
    /\ batches = {}
    /\ locks = [op \in Operations |-> NoCaller]
    /\ pc = [c \in Callers |-> "idle"]
    /\ call = [c \in Callers |-> NoCall]
    /\ seen = [c \in Callers |-> NothingSeen]
    /\ answer = [c \in Callers |-> NoAnswer]

Goto(c, step) == pc' = [pc EXCEPT ![c] = step]

\* Mutant: a session lock, which the end of the transaction does not release.
ReturnCountsKeepingLock(c, result, counts) ==
    /\ answer' = [answer EXCEPT ![c] =
            [op |-> call[c].op, file |-> call[c].file, result |-> result, counts |-> counts]]
    /\ call' = [call EXCEPT ![c] = NoCall]
    /\ seen' = [seen EXCEPT ![c] = NothingSeen]
    /\ Goto(c, "idle")
    /\ UNCHANGED locks

\* The transaction is over, committed or rolled back; its lock goes with it.
ReturnCounts(c, result, counts) ==
    /\ answer' = [answer EXCEPT ![c] =
            [op |-> call[c].op, file |-> call[c].file, result |-> result, counts |-> counts]]
    /\ locks' = [op \in Operations |-> IF locks[op] = c THEN NoCaller ELSE locks[op]]
    /\ call' = [call EXCEPT ![c] = NoCall]
    /\ seen' = [seen EXCEPT ![c] = NothingSeen]
    /\ Goto(c, "idle")

Return(c, result) == ReturnCounts(c, result, <<>>)

\* An operator asks.  Any dataset id can be typed in; a determination id comes
\* from an earlier answer (DetermineAndPlan, readiness plan).
Request(c, op, file) ==
    /\ pc[c] = "idle"
    /\ CASE op = "import" -> file \in Files
         [] op = "determine" -> file = NoFile
         [] op = "plan" -> determined /\ file = NoFile
    /\ call' = [call EXCEPT ![c] = [op |-> op, file |-> file]]
    /\ answer' = [answer EXCEPT ![c] = NoAnswer]
    /\ Goto(c, "waiting")
    /\ UNCHANGED <<tables, locks, seen>>

\* Mutant: no lock; only the unique constraints remain.
NoLock(c) ==
    /\ pc[c] = "waiting"
    /\ Goto(c, "locked")
    /\ UNCHANGED <<tables, locks, call, seen, answer>>

\* pg_advisory_xact_lock
Lock(c) ==
    /\ pc[c] = "waiting"
    /\ locks[call[c].op] = NoCaller
    /\ locks' = [locks EXCEPT ![call[c].op] = c]
    /\ Goto(c, "locked")
    /\ UNCHANGED <<tables, call, seen, answer>>

\* The transaction's reads, a new snapshot after the lock was granted: for a
\* determination with the ready and the blocked filings of now, for a plan with
\* the batches that exist.
Read(c) ==
    /\ pc[c] = "locked"
    /\ seen' = [seen EXCEPT ![c] =
            [exists |-> CASE call[c].op = "import" -> dataset # NoFile
                          [] call[c].op = "determine" -> determined
                          [] call[c].op = "plan" -> batches # {},
             stored |-> dataset,
             counts |-> CASE call[c].op = "import" -> <<>>
                          [] call[c].op = "determine" ->
                                <<InState("ready"), InState("blocked_preflight")>>
                          [] call[c].op = "plan" -> <<Cardinality(batches)>>,
             plan |-> ReadyFilings]]
    /\ Goto(c, "read")
    /\ UNCHANGED <<tables, locks, call, answer>>

\* Cancellation, a lost connection, a lock timeout, a killed process: rollback.
Fail(c) ==
    /\ pc[c] # "idle"
    /\ Return(c, "failed")
    /\ UNCHANGED tables

-----------------------------------------------------------------------------
(* The three commits *)

\* Refused before the stored dataset is looked up; the staging is rolled back.
ImportRefused(c) ==
    /\ Refused(call[c].file)
    /\ Return(c, "invalid")
    /\ UNCHANGED tables

\* A stored dataset is compared with the copied rows.
ImportAgain(c) ==
    LET same == /\ seen[c].stored.hash = call[c].file
                /\ Len(seen[c].stored.rows) = Len(Staged(call[c].file))
    IN  /\ seen[c].exists
        /\ Return(c, IF same THEN "existing" ELSE "conflict")
        /\ UNCHANGED tables

\* datasets_firm_year_uk catches an insert that the read did not foresee.
ImportFirst(c) ==
    /\ ~seen[c].exists
    /\ IF dataset = NoFile
         THEN /\ dataset' = [rows |-> Staged(call[c].file), hash |-> call[c].file]
              /\ Return(c, "created")
         ELSE dataset' = dataset /\ Return(c, "conflict")
    /\ UNCHANGED <<determined, filing, batches>>

ImportDataset(c) ==
    /\ pc[c] = "read"
    /\ call[c].op = "import"
    /\ \/ ImportRefused(c)
       \/ ~Refused(call[c].file) /\ (ImportAgain(c) \/ ImportFirst(c))

\* A determination that exists is returned, with its filings counted anew.
DetermineAgain(c) ==
    /\ seen[c].exists
    /\ ReturnCounts(c, "existing", seen[c].counts)
    /\ UNCHANGED tables

DetermineNothing(c) ==
    /\ ~seen[c].exists
    /\ seen[c].stored = NoFile
    /\ Return(c, "not_found")
    /\ UNCHANGED tables

\* One sum out of range fails the statement, and with it the transaction.
DetermineOverflows(c) ==
    /\ ~seen[c].exists
    /\ seen[c].stored # NoFile
    /\ ~determined /\ Overflows(dataset.rows)
    /\ Return(c, "invariant")
    /\ UNCHANGED tables

\* determinations_dataset_ruleset_uk catches a second determination.
DetermineFirst(c) ==
    /\ ~seen[c].exists
    /\ seen[c].stored # NoFile
    /\ IF determined
         THEN UNCHANGED tables /\ Return(c, "conflict")
         ELSE /\ ~Overflows(dataset.rows)
              /\ determined' = TRUE
              /\ filing' = [f \in Filings |-> FilingState(dataset.rows, f)]
              /\ UNCHANGED <<dataset, batches>>
              /\ ReturnCounts(c, "created",
                    <<Cardinality({f \in Filings : filing'[f] = "ready"}),
                      Cardinality({f \in Filings : filing'[f] = "blocked_preflight"})>>)

DetermineDataset(c) ==
    /\ pc[c] = "read"
    /\ call[c].op = "determine"
    /\ \/ DetermineAgain(c)
       \/ DetermineNothing(c)
       \/ DetermineOverflows(c)
       \/ DetermineFirst(c)

\* Batches, links and filing states in one transaction; batch_filings_filing_uk
\* and the (firm, UTID) key catch filings that were planned since the read.
PlanBatches(c) ==
    /\ pc[c] = "read"
    /\ call[c].op = "plan"
    /\ LET planned == seen[c].plan
           groups == Groups(InOrder(planned))
       IN  IF \E f \in planned : filing[f] # "ready"
             THEN UNCHANGED tables /\ Return(c, "conflict")
             ELSE /\ batches' = batches \cup groups
                  /\ filing' = [f \in Filings |->
                                  IF f \in planned THEN "batched" ELSE filing[f]]
                  /\ UNCHANGED <<dataset, determined>>
                  /\ ReturnCounts(c, "planned",
                        Append(seen[c].counts, Cardinality(groups)))

Next ==
    \E c \in Callers :
        \/ \E op \in Operations, file \in Files \cup {NoFile} : Request(c, op, file)
        \/ Lock(c)
        \/ Read(c)
        \/ ImportDataset(c)
        \/ DetermineDataset(c)
        \/ PlanBatches(c)
        \/ Fail(c)

Spec == Init /\ [][Next]_vars

-----------------------------------------------------------------------------
(* Safety *)

\* An import that reports success has every record of its own file in the
\* database, however many files were offered at the same time and however a
\* file breaks off (ImportDataset, paymentCopySource, Source.SHA256).
ImportIsTruthful ==
    \A c \in Callers :
        answer[c].op = "import" /\ answer[c].result \in {"created", "existing"} =>
            dataset.rows = answer[c].file /\ dataset.hash = answer[c].file

\* Repeating a call, also at the same time, never ends in a conflict: only a
\* different file does (the advisory locks of all three operations).
RepeatsNeverConflict ==
    \A c \in Callers :
        answer[c].result = "conflict" =>
            answer[c].op = "import" /\ answer[c].file # dataset.hash

\* Where ORDER BY puts a filing.
Position(f) == CHOOSE n \in DOMAIN FilingOrder : FilingOrder[n] = f

\* What the transmission side relies on: batches are disjoint, hold one client
\* and 1 to MaxBatch filings in key order, and hold exactly the batched
\* filings (PlanBatches, also when it is repeated after a failure).
PlanIsPartition ==
    /\ \A f \in Filings :
          Cardinality({g \in batches : f \in ToSet(g)}) = IF filing[f] = "batched" THEN 1 ELSE 0
    /\ \A g \in batches :
          /\ Len(g) \in 1..MaxBatch
          /\ \A i, j \in DOMAIN g :
                /\ g[i].client = g[j].client
                /\ i < j => Position(g[i]) < Position(g[j])

\* A plan that reports success leaves no filing unsent, and its two counts add
\* up to all batches there are (PlanBatches).
PlanAnswerIsTrue(c) ==
    LET counts == answer[c].counts
    IN  answer[c].op = "plan" /\ answer[c].result = "planned" =>
            /\ InState("ready") = 0
            /\ counts[1] + counts[2] = Cardinality(batches)

\* A determination is answered with all its blocked filings; with all others as
\* ready when it is new, and with those that were ready at some moment of the
\* call when it is repeated: filings only ever leave that state.
DetermineAnswerIsTrue(c) ==
    LET counts == answer[c].counts
        unblocked == InState("ready") + InState("batched")
    IN  answer[c].op = "determine" /\ answer[c].result \in {"created", "existing"} =>
            /\ counts[2] = InState("blocked_preflight")
            /\ answer[c].result = "created" => counts[1] = unblocked
            /\ counts[1] \in InState("ready") .. unblocked

\* The payments listed for a filing add up to its amounts, although the list is
\* added up in int64 and the filing in numeric (PaymentExplanation).
ExplanationAgrees(f) ==
    filing[f] # "none" =>
        PaymentExplanation(dataset.rows, f) =
            [reportable |-> Reportable(dataset.rows, f),
             withheld |-> Withholding(dataset.rows, f)]

\* What the operator is told is so, also when other calls have moved the rows on
\* (DetermineDataset, PlanBatches, PaymentExplanation).
AnswersAreTrue ==
    /\ \A c \in Callers : PlanAnswerIsTrue(c) /\ DetermineAnswerIsTrue(c)
    /\ \A f \in Filings : ExplanationAgrees(f)

\* Every planned document is one the receiver reads, and it reads the firm, the
\* client, the TINs and the exact cents of the batch's filings, each of them a
\* filing of that client (canonicalXML and formatCents against
\* decodeTransmission and parseCents).
DocumentsAreUnderstood ==
    \A g \in batches :
        LET rows == [i \in DOMAIN g |-> FilingRow(dataset.rows, g[i])]
            doc == DocumentOf(Firm, g[1].client, rows)
            transmission == decodeTransmission(doc)
        IN  /\ Readable(doc)
            /\ transmission.firm = Firm
            /\ transmission.records = rows
            /\ \A i \in DOMAIN g : transmission.client = g[i].client

\* The firm's preflight and the receiver apply the same rule: what is sent would
\* be read and accepted, what is held back would not (DetermineDataset's SQL and
\* the stub's parseCents and resultFor).
PreflightAgreesWithReceiver ==
    \A f \in Filings :
        LET record == Detail(FilingRow(dataset.rows, f))
        IN  filing[f] # "none" =>
                (filing[f] # "blocked_preflight" <=>
                    ReadableRecord(record) /\ resultFor(ReadRecord(record)) = "none")
=============================================================================
