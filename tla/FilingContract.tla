--------------------------- MODULE FilingContract ---------------------------
(***************************************************************************)
(* What transmission promises, without workers, leases, retries or calls.  *)
(* A batch goes on file at the receiver at most once; the local books      *)
(* settle a batch as a whole, after it is on file and with the results     *)
(* that are on file; or the batch is given up for a person to look at,     *)
(* whether or not it is on file by then or later.                          *)
(***************************************************************************)
CONSTANTS Batches, Filings, FilingsOf, Receipts, Verdicts

VARIABLES
    onFile,   \* per filing, the <<receipt, verdict>> pairs the receiver holds
    books,    \* per filing, "batched" or its settled verdict
    givenUp   \* batches left to a person

vars == <<onFile, books, givenUp>>

Init ==
    /\ onFile = [f \in Filings |-> {}]
    /\ books = [f \in Filings |-> "batched"]
    /\ givenUp = {}

File(b) ==
    /\ \A f \in FilingsOf[b] : onFile[f] = {}
    /\ \E r \in Receipts, results \in [FilingsOf[b] -> Verdicts] :
         onFile' = [f \in Filings |-> IF f \in FilingsOf[b]
                                        THEN {<<r, results[f]>>} ELSE onFile[f]]
    /\ UNCHANGED <<books, givenUp>>

Settle(b) ==
    /\ b \notin givenUp
    /\ \A f \in FilingsOf[b] : books[f] = "batched"
    /\ \E r \in Receipts, results \in [FilingsOf[b] -> Verdicts] :
         /\ \A f \in FilingsOf[b] : onFile[f] = {<<r, results[f]>>}
         /\ books' = [f \in Filings |-> IF f \in FilingsOf[b]
                                          THEN results[f] ELSE books[f]]
    /\ UNCHANGED <<onFile, givenUp>>

GiveUp(b) ==
    /\ b \notin givenUp
    /\ \A f \in FilingsOf[b] : books[f] = "batched"
    /\ givenUp' = givenUp \cup {b}
    /\ UNCHANGED <<onFile, books>>

Next == \E b \in Batches : File(b) \/ Settle(b) \/ GiveUp(b)

Spec == Init /\ [][Next]_vars
=============================================================================
