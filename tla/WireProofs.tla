----------------------------- MODULE WireProofs ------------------------------
(* What is written by one side of the wire is read by the other. *)
EXTENDS Wire, TLAPS

(***************************************************************************)
(* The two int64 steps of formatCents are exact unless the amount is the   *)
(* least int64.                                                            *)
(***************************************************************************)
LEMMA SmallRemainder ==
    ASSUME NEW m \in Nat \ {0}, NEW a \in 0 .. m - 1
    PROVE  a % m = a
OBVIOUS

\* A sum that an int64 holds is kept as it is.
LEMMA WrapInRange ==
    ASSUME NEW n \in Int64
    PROVE  Wrap(n) = n
<1>1. Word \in Nat \ {0} /\ n \in Int /\ -Word <= n /\ n <= Word - 1
  BY WireLimits DEF Int64
<1> DEFINE m == 2 * Word
           a == n + Word
<1>2. m \in Nat \ {0} /\ a \in 0 .. m - 1
  BY <1>1
<1> HIDE DEF m, a
<1>3. a % m = a
  BY <1>2, SmallRemainder
<1>4. (n + Word) % (2 * Word) = n + Word
  BY <1>3 DEF a, m
<1>5. QED
  BY <1>1, <1>4 DEF Wrap

\* The remainder is the one that leaves a multiple.
LEMMA RemainderIsUnique ==
    ASSUME NEW m \in Nat \ {0}, NEW k \in Int, NEW r \in 0 .. m - 1
    PROVE  (m * k + r) % m = r
<1> DEFINE y == m * k + r
           q == y \div m
           s == y % m
<1>1. y \in Int
  OBVIOUS
<1>2. q \in Int /\ s \in 0 .. m - 1 /\ y = m * q + s
  <2> HIDE DEF y
  <2> QED
    BY <1>1
<1>3. m * (k - q) = s - r
  <2>1. m * k + r = m * q + s
    BY <1>2
  <2> HIDE DEF q, s
  <2>2. m * (k - q) = m * k - m * q
    BY <1>2
  <2>3. m * k \in Int /\ m * q \in Int
    BY <1>2
  <2> QED
    BY <1>2, <2>1, <2>2, <2>3
<1> DEFINE d == k - q
<1>4. d \in Int /\ m * d = s - r /\ s - r < m /\ s - r > -m
  BY <1>2, <1>3
<1> HIDE DEF d, q, s, y
<1>5. ~(d >= 1)
  <2> SUFFICES ASSUME d >= 1 PROVE FALSE
    OBVIOUS
  <2>1. m * d >= m
    BY <1>4
  <2> QED
    BY <1>2, <1>4, <2>1
<1>6. ~(d <= -1)
  <2> SUFFICES ASSUME d <= -1 PROVE FALSE
    OBVIOUS
  <2>1. m * d <= -m
    BY <1>4
  <2> QED
    BY <1>2, <1>4, <2>1
<1>7. d = 0
  BY <1>4, <1>5, <1>6
<1> QED
  BY <1>2, <1>4, <1>7 DEF s, y

\* Of a sum in int64, it does not matter when it was cut to 64 bits.
LEMMA WrapAdds ==
    ASSUME NEW a \in Int, NEW b \in Int
    PROVE  Wrap(a) \in Int64 /\ Wrap(Wrap(a) + b) = Wrap(a + b)
<1> DEFINE m == 2 * Word
           x == a + Word
           q == x \div m
           r == x % m
           y == r + b
           p == y \div m
           s == y % m
<1>1. Word \in Nat \ {0} /\ m \in Nat \ {0} /\ x \in Int
  BY WireLimits
<1>2. q \in Int /\ r \in 0 .. m - 1 /\ x = m * q + r
  <2> HIDE DEF m, x
  <2> QED
    BY <1>1
<1>3. y \in Int /\ p \in Int /\ s \in 0 .. m - 1 /\ y = m * p + s
  <2>1. y \in Int
    BY <1>2
  <2> HIDE DEF m, y
  <2> QED
    BY <1>1, <2>1
<1>4. x + b = m * (q + p) + s /\ q + p \in Int
  <2>1. x + b = (m * q + r) + b /\ y = r + b
    BY <1>2
  <2> HIDE DEF m, x, q, r, y, p, s
  <2>2. m * (q + p) = m * q + m * p /\ m * q \in Int /\ m * p \in Int
    BY <1>1, <1>2, <1>3
  <2> QED
    BY <1>1, <1>2, <1>3, <2>1, <2>2
<1>5. (x + b) % m = s
  <2> DEFINE k == q + p
  <2>1. k \in Int /\ x + b = m * k + s
    BY <1>4
  <2> HIDE DEF m, x, s, k
  <2> QED
    BY <1>1, <1>3, <2>1, RemainderIsUnique
<1>6. Wrap(a) = r - Word
  BY DEF Wrap
<1>7. Wrap(Wrap(a) + b) = s - Word
  <2>1. (r - Word + b) + Word = r + b
    BY <1>1, <1>2
  <2> QED
    BY <1>6, <2>1 DEF Wrap
<1>8. Wrap(a + b) = s - Word
  <2>1. (a + b) + Word = x + b
    BY <1>1
  <2> QED
    BY <1>5, <2>1 DEF Wrap
<1>9. r - Word \in -Word .. Word - 1
  <2> HIDE DEF r
  <2> QED
    BY <1>1, <1>2
<1> QED
  BY <1>6, <1>7, <1>8, <1>9 DEF Int64

\* The magnitude that formatCents computes is exact.
LEMMA MagnitudeIsExact ==
    ASSUME NEW cents \in Int64 \ {-Word}, cents < 0
    PROVE  Wrap(Wrap(-(cents + 1)) + 1) = -cents
<1>1. -(cents + 1) \in Int64 /\ -cents \in Int64
  BY WireLimits DEF Int64
<1>2. Wrap(-(cents + 1)) = -(cents + 1)
  BY <1>1, WrapInRange
<1>3. -(cents + 1) + 1 = -cents
  BY WireLimits DEF Int64
<1>4. QED
  BY <1>1, <1>2, <1>3, WrapInRange

(***************************************************************************)
(* Splitting an amount at the point and joining it again.                  *)
(***************************************************************************)
LEMMA SplitAtPoint ==
    ASSUME NEW v \in Nat
    PROVE  /\ v \div 100 \in Nat /\ v % 100 \in 0..99
           /\ 100 * (v \div 100) + (v % 100) = v
OBVIOUS

(***************************************************************************)
(* Every amount but the least int64 comes back as it was: identity.go's    *)
(* formatCents and the receiver's parseCents agree.                        *)
(***************************************************************************)
THEOREM MoneySurvives ==
    ASSUME NEW cents \in Int64 \ {-Word}
    PROVE  ParsesAsCents(formatCents(cents)) /\ CentsIn(formatCents(cents)) = cents
<1> DEFINE v == IF cents < 0 THEN -cents ELSE cents
<1>1. v \in Nat /\ cents \in Int /\ cents \in Int64
  BY WireLimits DEF Int64
<1>2. formatCents(cents) =
        [negative |-> cents < 0, dollars |-> v \div 100, cents |-> v % 100]
  <2>1. CASE cents < 0
    <3>1. Wrap(Wrap(-(cents + 1)) + 1) = v /\ ~(v < 0)
      BY <2>1, <1>1, MagnitudeIsExact
    <3>2. QED
      BY <2>1, <3>1, Zenon DEF formatCents, Quotient, Remainder
  <2>2. CASE ~(cents < 0)
    BY <2>2, Zenon DEF formatCents, Quotient, Remainder
  <2>3. QED
    BY <2>1, <2>2
<1> HIDE DEF v
<1>3. /\ v \div 100 \in Nat /\ v % 100 \in 0..99
      /\ 100 * (v \div 100) + (v % 100) = v
  BY <1>1, SplitAtPoint
<1>4. /\ formatCents(cents).dollars = v \div 100 /\ formatCents(cents).cents = v % 100
      /\ formatCents(cents).negative = (cents < 0)
  BY <1>2
<1>5. CentsIn(formatCents(cents)) = cents
  <2>1. CentsIn(formatCents(cents)) = IF cents < 0 THEN -v ELSE v
    BY <1>3, <1>4, Zenon DEF CentsIn
  <2>2. QED
    BY <1>1, <2>1 DEF v
<1>6. MatchesMoneyPattern(formatCents(cents))
  BY <1>3, <1>4 DEF MatchesMoneyPattern
<1>7. QED
  BY <1>1, <1>5, <1>6 DEF ParsesAsCents

(***************************************************************************)
(* The least int64 is written with a minus in either half, and the money   *)
(* pattern of the receiver does not match that.                            *)
(***************************************************************************)
LEMMA LeastIsUnreadable == ~ParsesAsCents(formatCents(-Word))
<1>1. Word \in Nat \ {0} /\ Word - 1 \in Int64
  BY WireLimits DEF Int64
<1>2. Wrap(-(-Word + 1)) = Word - 1
  <2>1. -(-Word + 1) = Word - 1
    BY <1>1
  <2>2. QED
    BY <1>1, <2>1, WrapInRange
<1>3. Wrap(Wrap(-(-Word + 1)) + 1) = -Word
  <2>1. (Word + Word) % (2 * Word) = 0
    <3>1. Word + Word = 2 * Word /\ 2 * Word \in Nat \ {0}
      BY <1>1
    <3> DEFINE m == 2 * Word
    <3> HIDE DEF m
    <3>2. m \in Nat \ {0} => m % m = 0
      OBVIOUS
    <3>3. QED
      BY <3>1, <3>2 DEF m
  <2>2. Wrap(Word) = -Word
    BY <1>1, <2>1 DEF Wrap
  <2>3. Word - 1 + 1 = Word
    BY <1>1
  <2>4. QED
    BY <1>2, <2>2, <2>3
<1>4. -Word < 0 /\ -(-Word) = Word
  BY <1>1
<1>5. /\ formatCents(-Word).dollars = -(Word \div 100)
      /\ formatCents(-Word).cents = -(Word % 100)
  BY <1>3, <1>4, Zenon DEF formatCents, Quotient, Remainder
<1>6. /\ Word \div 100 \in Nat /\ Word % 100 \in 0..99
      /\ 100 * (Word \div 100) + (Word % 100) = Word
  BY <1>1, SplitAtPoint
<1> DEFINE dollars == Word \div 100
           cents == Word % 100
<1> HIDE DEF dollars, cents
<1>7. ~(-dollars >= 0 /\ -cents \in 0..99)
  BY <1>1, <1>6 DEF dollars, cents
<1>8. QED
  BY <1>5, <1>7, Zenon DEF ParsesAsCents, MatchesMoneyPattern, dollars, cents

(***************************************************************************)
(* One record of a document, written and read again.                       *)
(***************************************************************************)
Amounts == Int64 \ {-Word}

\* A record is read with the key, the TIN and the amounts it was written with.
LEMMA DetailSurvives ==
    ASSUME NEW Keys, NEW TINs,
           NEW f \in [key : Keys, tin : TINs, reportable : Amounts, withheld : Amounts]
    PROVE  ReadableRecord(Detail(f)) /\ ReadRecord(Detail(f)) = f
<1>1. f.reportable \in Int64 \ {-Word} /\ f.withheld \in Int64 \ {-Word}
  BY DEF Amounts
<1>2. /\ ParsesAsCents(formatCents(f.reportable))
      /\ CentsIn(formatCents(f.reportable)) = f.reportable
      /\ ParsesAsCents(formatCents(f.withheld))
      /\ CentsIn(formatCents(f.withheld)) = f.withheld
  BY <1>1, MoneySurvives
<1>3. /\ Detail(f).id = f.key /\ Detail(f).tin = f.tin /\ Detail(f).blank = {}
      /\ Detail(f).compensation = formatCents(f.reportable)
      /\ Detail(f).withheld = formatCents(f.withheld)
  BY DEF Detail
<1>4. ReadableRecord(Detail(f))
  BY <1>2, <1>3, Zenon DEF ReadableRecord
<1>5. ReadRecord(Detail(f)) =
        [key |-> f.key, tin |-> f.tin, reportable |-> f.reportable, withheld |-> f.withheld]
  BY <1>2, <1>3, Zenon DEF ReadRecord
<1>6. f = [key |-> f.key, tin |-> f.tin, reportable |-> f.reportable, withheld |-> f.withheld]
  BY SMT
<1>7. QED
  BY <1>4, <1>5, <1>6, Zenon

\* Filings in a batch of n: distinct keys, and sums in range.
BatchRows(Keys, TINs, n) ==
    {filings \in [1..n -> [key : Keys, tin : TINs, reportable : Amounts, withheld : Amounts]] :
        \A i, j \in 1..n : filings[i].key = filings[j].key => i = j}

\* The receiver takes the document, and reads what was put into it.
IsReadAs(doc, firm, client, filings) ==
    /\ Readable(doc)
    /\ decodeTransmission(doc).firm = firm
    /\ decodeTransmission(doc).client = client
    /\ decodeTransmission(doc).records = filings

(***************************************************************************)
(* A planned document of 1 to MaxRecords filings with distinct keys and    *)
(* sums in range is one the receiver accepts as well-formed, and what it   *)
(* reads is the firm, the client and the filings that were planned:        *)
(* canonicalXML and decodeTransmission.                                    *)
(***************************************************************************)
THEOREM DocumentSurvives ==
    ASSUME NEW Keys, NEW TINs, NEW firm, NEW client, NEW n \in 1..MaxRecords,
           NEW filings \in BatchRows(Keys, TINs, n)
    PROVE  IsReadAs(DocumentOf(firm, client, filings), firm, client, filings)
<1> USE DEF BatchRows
<1> DEFINE doc == DocumentOf(firm, client, filings)
           records == Details(filings)
<1>1. /\ doc.strict = TRUE /\ doc.blank = {}
      /\ doc.type = "O" /\ doc.year = "2025" /\ doc.form = "1099-NEC"
      /\ doc.utid.firm = firm /\ doc.transmitter = firm /\ doc.client = client
      /\ doc.count = Len(records) /\ doc.records = records
  BY Zenon DEF DocumentOf, canonicalXML, batchIdentity
<1>2. /\ DOMAIN records = 1..n
      /\ \A i \in 1..n : records[i] = Detail(filings[i])
  BY DEF Details
<1>3. n \in Nat /\ Len(records) = n
  BY <1>2, WireLimits
<1>4. \A i \in 1..n : ReadableRecord(records[i]) /\ ReadRecord(records[i]) = filings[i]
  <2>1. SUFFICES ASSUME NEW i \in 1..n
                 PROVE  ReadableRecord(records[i]) /\ ReadRecord(records[i]) = filings[i]
    OBVIOUS
  <2>2. filings[i] \in [key : Keys, tin : TINs, reportable : Amounts, withheld : Amounts]
    OBVIOUS
  <2>3. ReadableRecord(Detail(filings[i])) /\ ReadRecord(Detail(filings[i])) = filings[i]
    BY <2>2, DetailSurvives
  <2>4. QED
    BY <1>2, <2>3, Zenon
<1>5. \A i \in 1..n : records[i].id = filings[i].key
  BY <1>2 DEF Detail
<1> HIDE DEF doc, records
<1>6. Readable(doc)
  <2>1. \A i \in DOMAIN doc.records : ReadableRecord(doc.records[i])
    BY <1>1, <1>2, <1>4, Zenon
  <2>2. \A i, j \in DOMAIN doc.records : doc.records[i].id = doc.records[j].id => i = j
    <3>1. \A i, j \in 1..n : records[i].id = records[j].id => i = j
      BY <1>5
    <3>2. QED
      BY <1>1, <1>2, <3>1, Zenon
  <2>3. Len(doc.records) \in 1..MaxRecords /\ doc.count = Len(doc.records)
    BY <1>1, <1>3, Zenon
  <2>4. QED
    BY <1>1, <2>1, <2>2, <2>3, Zenon DEF Readable
<1>7. /\ decodeTransmission(doc).firm = firm /\ decodeTransmission(doc).client = client
      /\ decodeTransmission(doc).records = [i \in 1..n |-> ReadRecord(records[i])]
  BY <1>1, <1>2, Zenon DEF decodeTransmission
<1>8. [i \in 1..n |-> ReadRecord(records[i])] = filings
  BY <1>4
<1>9. QED
  BY <1>6, <1>7, <1>8, Zenon DEF doc, IsReadAs
=============================================================================
