--------------------------- MODULE MCFilingSystem ---------------------------
(* Constants of FilingSystem for TLC. *)
EXTENDS FilingSystem, TLC

CONSTANTS w1, w2, b1, b2, f1, f2, r1, r2

OneFiling == b1 :> {f1}
OnePair == b1 :> {f1, f2}
TwoBatches == b1 :> {f1} @@ b2 :> {f2}

WorkersAndReceipts == Permutations(Workers) \cup Permutations(Receipts)
=============================================================================
