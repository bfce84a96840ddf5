\* Liveness of transmission and of what is shown: one batch under way, another
\* client held back, somebody reading the client page.
CONSTANTS
    w1 = w1  w2 = w2  b1 = b1  b2 = b2  f1 = f1  f2 = f2  f3 = f3
    r1 = r1  r2 = r2
    Workers = {w1, w2}
    Batches = {b1}
    Filings = {f1}
    FilingsOf <- OneFiling
    Receipts = {r1}
    NoWorker = NoWorker
    NoReceipt = NoReceipt
    NoBatch = NoBatch
    MaxAttempts = 2
    Faults = {"unavailable", "refused"}
    LeaseCoversCalls = TRUE
    FenceDrainsNetwork = FALSE
    ClientOrder <- TwoClients
    Held = {f3}
    ClientOf <- OneHeld
SPECIFICATION FairViewSpec

    
PROPERTIES
    EveryBatchIsResolved
    
    NobodyWaitsUnseen
