-------------------------------- MODULE Wire ---------------------------------
(***************************************************************************)
(* The transmission document, as the planner writes it                     *)
(* (postgres/internal/store/identity.go) and as the receiver reads it      *)
(* (irs/internal/stub/server.go): two implementations of one format that   *)
(* share no code.                                                          *)
(*                                                                         *)
(* Data abstractions.  SHA-256 over length-prefixed values is injective,   *)
(* so an identity is the tuple of what it is computed from.  A document is *)
(* the record of its elements; "strict" says that it is one well-formed    *)
(* tree of known elements with one manifest, group and header, and "blank" *)
(* names the elements that are empty or absent.  A money text is its sign, *)
(* its digits before the point and the two after it.                       *)
(***************************************************************************)
EXTENDS Integers, Sequences

CONSTANTS
    Word,        \* 2^63: an int64 is one of -Word .. Word - 1
    MaxRecords,  \* 100 records in a submission
    NineDigits,  \* the TINs of exactly nine digits
    ZeroTINs     \* those of them that begin with 000

ASSUME WireLimits == Word \in Nat \ {0} /\ MaxRecords \in Nat \ {0}
ASSUME TINSpellings == ZeroTINs \subseteq NineDigits /\ "" \notin NineDigits

Int64 == -Word .. Word - 1

\* What int64 arithmetic keeps of a mathematical result.
Wrap(n) == ((n + Word) % (2 * Word)) - Word

-----------------------------------------------------------------------------
(* Money *)

MoneyTexts == [negative : BOOLEAN, dollars : Int, cents : Int]

\* Go's / and % truncate towards zero.
Quotient(n, d) == IF n < 0 THEN -((-n) \div d) ELSE n \div d
Remainder(n, d) == IF n < 0 THEN -((-n) % d) ELSE n % d

\* Mutant: only whole dollars have a sign.
formatCentsUnsigned(cents) ==
    LET value == IF cents < 0 THEN Wrap(Wrap(-(cents + 1)) + 1) ELSE cents
    IN  [negative |-> cents <= -100,
         dollars |-> Quotient(value, 100), cents |-> Remainder(value, 100)]

\* -(value + 1) and value++ are two int64 steps; the second one overflows for
\* the least int64, which is then printed with a minus in front of each half.
formatCents(cents) ==
    LET value == IF cents < 0 THEN Wrap(Wrap(-(cents + 1)) + 1) ELSE cents
    IN  [negative |-> cents < 0,
         dollars |-> Quotient(value, 100), cents |-> Remainder(value, 100)]

\* moneyPattern: an optional minus, digits, a point, two digits.
MatchesMoneyPattern(text) == text.dollars >= 0 /\ text.cents \in 0..99

CentsIn(text) ==
    LET magnitude == 100 * text.dollars + text.cents
    IN  IF text.negative THEN -magnitude ELSE magnitude

\* parseCents returns CentsIn(text) rather than an error.
ParsesAsCents(text) == MatchesMoneyPattern(text) /\ CentsIn(text) \in Int64

-----------------------------------------------------------------------------
(* Writing a document *)

\* The UTID: a UUID from the digest of firm, client, year and filing keys, and
\* the firm in clear.
batchIdentity(firm, client, keys) ==
    [uuid |-> <<firm, client, keys>>, firm |-> firm]

\* The xmlDetail of a planned filing.
Detail(filing) ==
    [id |-> filing.key, tin |-> filing.tin, blank |-> {},
     compensation |-> formatCents(filing.reportable),
     withheld |-> formatCents(filing.withheld)]

Details(filings) == [i \in DOMAIN filings |-> Detail(filings[i])]

canonicalXML(firm, client, utid, details) ==
    [strict |-> TRUE, blank |-> {}, utid |-> utid, transmitter |-> firm,
     type |-> "O", year |-> "2025", client |-> client, form |-> "1099-NEC",
     count |-> Len(details), records |-> details]

\* What PlanBatches stores for a batch of one client.
DocumentOf(firm, client, filings) ==
    LET keys == [i \in DOMAIN filings |-> filings[i].key]
    IN  canonicalXML(firm, client, batchIdentity(firm, client, keys), Details(filings))

-----------------------------------------------------------------------------
(* Reading it *)

RequiredElements == {"UniqueTransmissionId", "TransmitterControlCd", "SubmissionId", "ClientId"}
RequiredOfRecord == {"RecordId", "NonemployeeCompensationAmt", "FederalIncomeTaxWithheldAmt"}

ReadableRecord(record) ==
    /\ record.blank \cap RequiredOfRecord = {}
    /\ ParsesAsCents(record.compensation)
    /\ ParsesAsCents(record.withheld)

\* decodeTransmission returns a transmission rather than an error.
Readable(doc) ==
    /\ doc.strict
    /\ doc.blank \cap RequiredElements = {}
    /\ doc.type = "O" /\ doc.year = "2025" /\ doc.form = "1099-NEC"
    /\ doc.utid.firm = doc.transmitter
    /\ Len(doc.records) \in 1..MaxRecords
    /\ doc.count = Len(doc.records)
    /\ \A i \in DOMAIN doc.records : ReadableRecord(doc.records[i])
    /\ \A i, j \in DOMAIN doc.records : doc.records[i].id = doc.records[j].id => i = j

ReadRecord(record) ==
    [key |-> record.id, tin |-> record.tin,
     reportable |-> CentsIn(record.compensation), withheld |-> CentsIn(record.withheld)]

\* The transmission of a readable document.
decodeTransmission(doc) ==
    [firm |-> doc.transmitter, client |-> doc.client, utid |-> doc.utid,
     records |-> [i \in DOMAIN doc.records |-> ReadRecord(doc.records[i])]]

\* The reason for which the receiver rejects a record, in its order.
resultFor(record) ==
    CASE record.tin = "" -> "TIN_MISSING"
      [] record.tin # "" /\ record.tin \notin NineDigits -> "TIN_MALFORMED"
      [] record.tin \in ZeroTINs -> "TIN_INVALID"
      [] record.tin \in NineDigits \ ZeroTINs /\ record.reportable <= 0 -> "AMOUNT_INVALID"
      [] OTHER -> "none"
=============================================================================
