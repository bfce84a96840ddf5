\* One worker, one batch, a neighbour firm, a gateway that answers by itself.
CONSTANTS
    w1 = w1  b1 = b1  r1 = r1  r2 = r2  r3 = r3
    Word = 128
    MaxRecords = 2
    NineDigits = {"111", "222", "000"}
    ZeroTINs = {"000"}
    Workers = {w1}
    NoWorker = NoWorker
    Batches = {b1}
    NoBatch = NoBatch
    Receipts = {r1, r2, r3}
    NoReceipt = NoReceipt
    MaxAttempts = 3
    Firm = "ours"
    Plan <- OneBatch
    Initial = 3
    Maximum = 100
    GatewayResponses <- SomeResponses
    OtherRequests <- SomeRequests
SPECIFICATION Spec
PROPERTIES
    ServerErrorsAreRetried
