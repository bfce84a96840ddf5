\* Three clients, two batches, one held filing, two workers; leases cover calls and
\* the fence outlasts stray requests.
CONSTANTS
    w1 = w1  w2 = w2  b1 = b1  b2 = b2  f1 = f1  f2 = f2  f3 = f3
    r1 = r1  r2 = r2
    Workers = {w1, w2}
    Batches = {b1, b2}
    Filings = {f1, f2}
    FilingsOf <- TwoBatches
    Receipts = {r1, r2}
    NoWorker = NoWorker
    NoReceipt = NoReceipt
    NoBatch = NoBatch
    MaxAttempts = 2
    Faults = {"unavailable"}
    LeaseCoversCalls = TRUE
    FenceDrainsNetwork = TRUE
    ClientOrder <- ThreeClients
    Held = {f3}
    ClientOf <- TwoOnA
SPECIFICATION UnwatchedSpec
SYMMETRY WorkersAndReceipts
INVARIANTS
    SubmitOnlyUnfiled
    NoEarlyGiveUp
    FullyFiledIsTrue
    AttentionIsExplained
    FirmHeadlineIsWorst

    
