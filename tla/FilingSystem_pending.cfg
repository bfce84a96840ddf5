\* A pending acknowledgment is given up for one unavailable poll.
CONSTANTS
    w1 = w1  w2 = w2  b1 = b1  b2 = b2  f1 = f1  f2 = f2
    r1 = r1  r2 = r2
    Workers = {w1, w2}
    Batches = {b1}
    Filings = {f1, f2}
    FilingsOf <- OnePair
    Receipts = {r1, r2}
    NoWorker = NoWorker
    NoReceipt = NoReceipt
    NoBatch = NoBatch
    MaxAttempts = 3
    Faults = {"unavailable"}
    LeaseCoversCalls = TRUE
    FenceDrainsNetwork = TRUE
SPECIFICATION Spec
SYMMETRY WorkersAndReceipts
PROPERTIES
    PendingStaysPollable
