\* One batch of two filings, two workers, every fault, no timing assumption.
CONSTANTS
    w1 = w1  w2 = w2  b1 = b1  b2 = b2  f1 = f1  f2 = f2
    r1 = r1  r2 = r2
    Workers = {w1, w2}
    Batches = {b1}
    Filings = {f1, f2}
    FilingsOf <- OnePair
    Receipts = {r1, r2}
    NoWorker = NoWorker
    NoReceipt = NoReceipt
    NoBatch = NoBatch
    MaxAttempts = 3
    Faults = {"unavailable", "refused", "incomplete"}
    LeaseCoversCalls = FALSE
    FenceDrainsNetwork = FALSE
SPECIFICATION Spec
SYMMETRY WorkersAndReceipts
INVARIANTS
    TypeOK
    NoFilingRecordedTwice
    ReceiptIsOnFile
    SettledAsAcknowledged
    AllOrNothing
PROPERTIES
    LiveClaimIsExclusive
    ImplementsContract
