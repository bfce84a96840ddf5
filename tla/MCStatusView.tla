---------------------------- MODULE MCStatusView ----------------------------
(* Constants of StatusView for TLC: a client with batches, a second one with a *)
(* filing that is held back, and a third without filings.                     *)
EXTENDS StatusView, TLC

CONSTANTS w1, w2, b1, b2, f1, f2, f3, r1, r2

OneFiling == b1 :> {f1}
TwoBatches == b1 :> {f1} @@ b2 :> {f2}

ThreeClients == <<"A", "B", "C">>
TwoClients == <<"A", "B">>
TwoOnA == f1 :> "A" @@ f2 :> "A" @@ f3 :> "B"
OneHeld == f1 :> "A" @@ f3 :> "B"

\* Nobody opens the client page.
UnwatchedNext == Work \/ \E b \in Batches : TimePasses(b)
UnwatchedSpec == ViewInit /\ [][UnwatchedNext]_viewVars

WorkersAndReceipts == Permutations(Workers) \cup Permutations(Receipts)
=============================================================================
