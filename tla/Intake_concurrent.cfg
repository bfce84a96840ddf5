\* Three callers, six files, batches of at most two filings, int64 of 8 bits.
CONSTANTS
    c1 = c1  c2 = c2  c3 = c3
    Callers = {c1, c2, c3}
    NoCaller = NoCaller
    Files <- AllFiles
    NoFile = NoFile
    Unreadable = Unreadable
    Firm = "F"
    FilingOrder <- AllFilings
    Threshold = 6
    MaxBatch = 2
    Word = 128
    MaxRecords = 2
    NineDigits <- TINs
    ZeroTINs <- TINsWithZeros
SPECIFICATION Spec
SYMMETRY AnyCaller
INVARIANTS
    TypeOK
    ImportIsTruthful
    RepeatsNeverConflict
    PlanIsPartition
    AnswersAreTrue
    DocumentsAreUnderstood
    PreflightAgreesWithReceiver
