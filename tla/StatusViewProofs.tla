-------------------------- MODULE StatusViewProofs --------------------------
(***************************************************************************)
(* For any clients, filings and batches: "fully filed" is true and final,  *)
(* the two queries of the client page agree also across its two            *)
(* transactions, and the firm's headline is its worst client's.            *)
(***************************************************************************)
EXTENDS StatusView, FilingSystemProofs, InductionLemmas

-----------------------------------------------------------------------------
(* The filing system under the view *)

\* Only filings of a batch are ever settled.
SettledHaveBatch ==
    \A f \in Filings : filing[f] # "batched" => \E b \in Batches : f \in FilingsOf[b]

\* Recording settles the filings of a batch that has no acknowledgment yet, and
\* never moves a batch that has one.
LEMMA RecordSettlesOnce ==
    ASSUME TypeOK, NEW w \in Workers, Record(w)
    PROVE  /\ \A b \in Batches : state[b] = "acknowledged" => state'[b] = "acknowledged"
           /\ \A f \in Filings : filing'[f] # filing[f] =>
                 \E b \in Batches : f \in FilingsOf[b] /\ state[b] # "acknowledged"
<1> DEFINE b == BatchOf(w)
<1>1. b \in Batches /\ Apply(w)
  BY BusyWorkerHasBatch DEF Record, Steps
<1>2. \A c \in Batches \ {b} : state'[c] = state[c]
  BY <1>1, ApplyNeedsLiveClaim
<1>3. state[b] # "acknowledged"
  BY <1>1 DEF Apply, RecordSubmitAccepted, RecordSubmitUnknown, RecordReferenceFound,
              RecordReferenceNotFound, RecordAcknowledgmentPending, RecordStatusUnavailable,
              CompleteAcknowledgment, terminalTransition, eventTransition, RowMatches,
              FromStates, BatchStates, Terminal
<1>4. \A f \in Filings : filing'[f] # filing[f] => f \in FilingsOf[b]
  BY <1>1 DEF Apply, RecordSubmitAccepted, RecordSubmitUnknown, RecordReferenceFound,
              RecordReferenceNotFound, RecordAcknowledgmentPending, RecordStatusUnavailable,
              CompleteAcknowledgment, terminalTransition, eventTransition, TypeOK, StoreTypeOK
<1> QED
  BY <1>1, <1>2, <1>3, <1>4

\* No other step settles a filing or moves an acknowledged batch.
LEMMA AcknowledgedStays ==
    ASSUME TypeOK, [Next]_vars
    PROVE  /\ \A b \in Batches : state[b] = "acknowledged" => state'[b] = "acknowledged"
           /\ \A f \in Filings : filing'[f] # filing[f] =>
                 \E b \in Batches : f \in FilingsOf[b] /\ state[b] # "acknowledged"
<1>1. ASSUME NEW w \in Workers, NEW c \in Batches, Claim(w, c)
      PROVE  /\ UNCHANGED filing
             /\ \A b \in Batches : state[b] = "acknowledged" => state'[b] = state[b]
  BY <1>1 DEF Claim, ClaimNextBatch, Claimable, Terminal, TypeOK, StoreTypeOK
<1>2. ASSUME NEW w \in Workers, Step(w), ~Record(w), \A c \in Batches : ~Claim(w, c)
      PROVE  UNCHANGED <<state, filing>>
  BY <1>2 DEF Step, AcquireCallPermit, AcquireTimesOut, Submit, Status, StatusIncomplete,
              CallFails, Answer, Finish, RecordFails, Halt, Restart, storeVars
<1>3. ASSUME NEW c \in Batches, Environment(c) PROVE UNCHANGED <<state, filing>>
  BY <1>3 DEF Environment, LeaseExpires, ExpireLease, DeliverOrphan, Acknowledge, storeVars
<1>4. CASE UNCHANGED vars
  BY <1>4 DEF vars, storeVars
<1> QED
  BY <1>1, <1>2, <1>3, <1>4, RecordSettlesOnce DEF Next

-----------------------------------------------------------------------------
(* Headlines *)

\* What "fully filed" amounts to.
FullyFiled(c) ==
    /\ \A f \in FilingsOfClient(c) : FilingState(f) = "accepted"
    /\ \A b \in BatchesOfClient(c) : state[b] = "acknowledged"

ViewTypeOK ==
    /\ held \in [Held -> {"blocked_preflight", "ready"}]
    /\ overdue \subseteq Batches

\* A count is zero when no row is counted.
LEMMA CountIsZero ==
    ASSUME NEW c, NEW s
    PROVE  Count(c, s) = 0 <=> \A f \in FilingsOfClient(c) : FilingState(f) # s
<1> DEFINE rows == {f \in FilingsOfClient(c) : FilingState(f) = s}
<1>1. rows \in SUBSET (Filings \cup Held)
  BY BatchesHaveOneClient DEF FilingsOfClient
<1>2. IsFiniteSet(rows)
  BY <1>1, FilingsAreFinite, FS_Subset
<1>3. Cardinality(rows) = 0 <=> rows = {}
  BY <1>2, FS_EmptySet
<1>4. rows = {} <=> \A f \in FilingsOfClient(c) : FilingState(f) # s
  OBVIOUS
<1> HIDE DEF rows
<1> QED
  BY <1>3, <1>4 DEF Count, rows

\* The states in which a filing can be.
LEMMA FilingStates ==
    ASSUME TypeOK, ViewTypeOK, NEW c, NEW f \in FilingsOfClient(c)
    PROVE  /\ f \in Filings \cup Held
           /\ FilingState(f) \in {"batched", "accepted", "rejected", "blocked_preflight", "ready"}
           /\ FilingState(f) \notin {"blocked_preflight", "ready"} =>
                 f \in Filings /\ FilingState(f) = filing[f]
<1>1. f \in Filings \cup Held
  BY BatchesHaveOneClient DEF FilingsOfClient
<1> QED
  BY <1>1 DEF FilingState, ViewTypeOK, TypeOK, StoreTypeOK, Verdicts

\* A batch belongs to the one client of its filings.
LEMMA BatchesClient ==
    ASSUME NEW b \in Batches, NEW c
    PROVE  /\ b \in BatchesOfClient(c) <=> \E f \in FilingsOf[b] : ClientOf[f] = c
           /\ \A f \in FilingsOf[b] : f \in Filings /\ FilingState(f) = filing[f]
BY BatchesPartitionFilings, BatchesHaveOneClient DEF BatchesOfClient, FilingsOfClient, FilingState

\* The headline "fully filed" says that every filing is accepted.
LEMMA HeadlineFullyFiled ==
    ASSUME TypeOK, AllOrNothing, ViewTypeOK, NEW c
    PROVE  headline(c) = "fully_filed" <=> FullyFiled(c)
<1>1. headline(c) = "fully_filed" <=>
        ~Attention(c) /\ ~Awaiting(c) /\ Count(c, "ready") = 0 /\ Count(c, "batched") = 0
  BY DEF headline
<1>2. ASSUME ~Attention(c), ~Awaiting(c), Count(c, "ready") = 0, Count(c, "batched") = 0
      PROVE  FullyFiled(c)
  <2>1. \A f \in FilingsOfClient(c) : FilingState(f) \notin {"ready", "batched", "blocked_preflight", "rejected"}
    BY <1>2, CountIsZero DEF Attention
  <2>2. \A f \in FilingsOfClient(c) : FilingState(f) = "accepted"
    BY <2>1, FilingStates
  <2>3. ASSUME NEW b \in BatchesOfClient(c) PROVE state[b] = "acknowledged"
    <3>1. b \in Batches /\ FilingsOf[b] # {} /\ FilingsOf[b] \subseteq FilingsOfClient(c)
      BY BatchesPartitionFilings DEF BatchesOfClient
    <3>2. PICK f \in FilingsOf[b] : filing[f] = "accepted"
      BY <2>2, <3>1, BatchesClient
    <3> QED
      BY <3>1, <3>2 DEF AllOrNothing
  <2> QED
    BY <2>2, <2>3 DEF FullyFiled
<1>3. ASSUME FullyFiled(c)
      PROVE  ~Attention(c) /\ ~Awaiting(c) /\ Count(c, "ready") = 0 /\ Count(c, "batched") = 0
  <2>1. Count(c, "ready") = 0 /\ Count(c, "batched") = 0
    BY <1>3, CountIsZero DEF FullyFiled
  <2> QED
    BY <1>3, <2>1 DEF FullyFiled, Attention, Awaiting, Stale
<1> QED
  BY <1>1, <1>2, <1>3

\* The two queries agree, in every state.
LEMMA QueriesAgree ==
    ASSUME NEW c
    PROVE  headline(c) = "needs_attention" <=> Exceptions(c) # {}
<1>1. headline(c) = "needs_attention" <=> Attention(c)
  BY DEF headline
<1>2. Attention(c) => Exceptions(c) # {}
  BY DEF Attention, Exceptions
<1>3. Exceptions(c) # {} => Attention(c)
  BY DEF Attention, Exceptions
<1> QED
  BY <1>1, <1>2, <1>3

-----------------------------------------------------------------------------
(* The invariant *)

\* A page that was headed "fully filed" has a client that is still so.
PageInv ==
    /\ page.step = "headed" /\ page.headline = "fully_filed" => FullyFiled(page.client)
    /\ FullyFiledPageIsClean

ViewInv == FiledInv /\ SettledHaveBatch /\ ViewTypeOK /\ PageInv

\* Once a client is fully filed, neither the filing system nor time changes
\* that.
LEMMA FullyFiledStays ==
    ASSUME FiledInv, ViewTypeOK, NEW c, FullyFiled(c), [Next]_vars, UNCHANGED held
    PROVE  FullyFiled(c)'
<1>1. \A b \in BatchesOfClient(c) : state'[b] = "acknowledged"
  BY AcknowledgedStays DEF FullyFiled, BatchesOfClient, FiledInv
<1>2. ASSUME NEW f \in FilingsOfClient(c) PROVE FilingState(f)' = "accepted"
  <2>1. FilingState(f) = "accepted"
    BY DEF FullyFiled
  <2>2. f \in Filings \cup Held /\ ClientOf[f] = c
    BY BatchesHaveOneClient DEF FilingsOfClient
  <2>3. CASE f \in Held
    BY <2>1, <2>3 DEF FilingState
  <2>4. CASE f \notin Held
    <3>1. filing'[f] = filing[f]
      <4>1. \A b \in Batches : f \in FilingsOf[b] => state[b] = "acknowledged"
        BY <2>2, BatchesClient DEF FullyFiled
      <4> QED
        BY <2>2, <2>4, <4>1, AcknowledgedStays DEF FiledInv
    <3> QED
      BY <2>1, <2>4, <3>1 DEF FilingState
  <2> QED
    BY <2>3, <2>4
<1>3. FilingsOfClient(c)' = FilingsOfClient(c) /\ BatchesOfClient(c)' = BatchesOfClient(c)
  BY DEF FilingsOfClient, BatchesOfClient
<1> QED
  BY <1>1, <1>2, <1>3 DEF FullyFiled

\* At first nothing is settled, nothing overdue and no page open.
LEMMA InitView == ViewInit => ViewInv
<1> SUFFICES ASSUME ViewInit PROVE ViewInv
  OBVIOUS
<1>1. SettledHaveBatch
  BY DEF ViewInit, Init, StoreInit, SettledHaveBatch
<1>2. PageInv
  BY DEF ViewInit, NoPage, PageInv, FullyFiledPageIsClean
<1> QED
  BY <1>1, <1>2, InitFiled DEF ViewInit, ViewInv, ViewTypeOK

\* Every step of the filing system, of time and of the reader keeps it.
LEMMA NextView == ViewInv /\ [ViewNext]_viewVars => ViewInv'
<1> SUFFICES ASSUME ViewInv, [ViewNext]_viewVars PROVE ViewInv'
  OBVIOUS
<1>1. [Next]_vars /\ UNCHANGED held
  BY DEF ViewNext, Work, TimePasses, ReadStatus, ReadExceptions, viewVars
<1>2. FiledInv'
  BY <1>1, NextFiled DEF ViewInv
<1>3. SettledHaveBatch'
  BY <1>1, AcknowledgedStays DEF ViewInv, FiledInv, SettledHaveBatch
<1>4. ViewTypeOK'
  BY DEF ViewInv, ViewTypeOK, ViewNext, Work, TimePasses, ReadStatus, ReadExceptions, viewVars
<1>5. ASSUME UNCHANGED page PROVE PageInv'
  <2>0. PICK c : c = page.client
    OBVIOUS
  <2>1. page.step = "headed" /\ page.headline = "fully_filed" => FullyFiled(c)'
    BY <1>1, <2>0, FullyFiledStays DEF ViewInv, PageInv
  <2>2. page'.client = c /\ page' = page
    BY <1>5, <2>0
  <2>3. page'.step = "headed" /\ page'.headline = "fully_filed" => FullyFiled(page.client)'
    BY <2>1, <2>2 DEF FullyFiled
  <2> QED
    BY <2>2, <2>3 DEF ViewInv, PageInv, FullyFiledPageIsClean
<1>6. ASSUME NEW c \in Clients, ReadStatus(c) PROVE PageInv'
  <2>1. UNCHANGED <<vars, held, overdue>> /\ page' = Headed(c)
    BY <1>6 DEF ReadStatus
  <2>2. page'.step = "headed" /\ page'.client = c /\ page'.headline = headline(c)
    BY <2>1 DEF Headed
  <2>3. headline(c) = "fully_filed" => FullyFiled(c)'
    BY <1>1, HeadlineFullyFiled, FullyFiledStays DEF ViewInv, FiledInv, BooksInv
  <2> QED
    BY <2>2, <2>3 DEF PageInv, FullyFiledPageIsClean
<1>7. ASSUME ReadExceptions PROVE PageInv'
  <2>1. page.step = "headed" /\ page' = Shown(page)
    BY <1>7 DEF ReadExceptions
  <2>2. /\ page'.step = "shown" /\ page'.headline = page.headline
        /\ page'.listed = Exceptions(page.client)
    BY <2>1 DEF Shown
  <2>3. page.headline = "fully_filed" => Exceptions(page.client) = {}
    <3> SUFFICES ASSUME page.headline = "fully_filed" PROVE Exceptions(page.client) = {}
      OBVIOUS
    <3>1. headline(page.client) = "fully_filed"
      BY <2>1, HeadlineFullyFiled DEF ViewInv, FiledInv, BooksInv, PageInv
    <3> QED
      BY <3>1, QueriesAgree
  <2> QED
    BY <2>2, <2>3 DEF PageInv, FullyFiledPageIsClean
<1> QED
  BY <1>2, <1>3, <1>4, <1>5, <1>6, <1>7 DEF ViewInv, ViewNext, Work, TimePasses, viewVars

\* The view and the filing system under it are sound in every reachable state.
LEMMA ViewInvariance == ViewSpec => []ViewInv
BY InitView, NextView, PTL DEF ViewSpec

-----------------------------------------------------------------------------
\* A client shown as fully filed is so: each of its required filings is on file
\* at the receiver and published as accepted.
THEOREM FullyFiledMeansAccepted == ViewSpec => []FullyFiledIsTrue
<1>1. ViewInv => FullyFiledIsTrue
  <2> SUFFICES ASSUME ViewInv, NEW c \in Clients, headline(c) = "fully_filed",
                      NEW f \in FilingsOfClient(c)
               PROVE  \E s \in ledger : /\ s.batch \in acked
                                        /\ f \in FilingsOf[s.batch]
                                        /\ s.results[f] = "accepted"
    BY DEF FullyFiledIsTrue
  <2>1. FilingState(f) = "accepted"
    BY HeadlineFullyFiled DEF ViewInv, FiledInv, BooksInv, FullyFiled
  <2>2. f \in Filings /\ filing[f] = "accepted"
    BY <2>1, FilingStates DEF ViewInv, FiledInv
  <2>3. PICK b \in Batches : f \in FilingsOf[b]
    BY <2>2 DEF ViewInv, SettledHaveBatch
  <2> QED
    BY <2>2, <2>3 DEF ViewInv, FiledInv, BooksInv, SettledAsAcknowledged
<1> QED
  BY <1>1, ViewInvariance, PTL

\* The status query says "needs attention" exactly when the exceptions query
\* finds something.
THEOREM AttentionHasAReason == ViewSpec => []AttentionIsExplained
<1>1. AttentionIsExplained
  BY QueriesAgree DEF AttentionIsExplained
<1> QED
  BY <1>1, PTL

\* A page that says "fully filed" lists no exception, whatever happened between
\* its two transactions.
THEOREM CleanPages == ViewSpec => []FullyFiledPageIsClean
<1>1. ViewInv => FullyFiledPageIsClean
  BY DEF ViewInv, PageInv
<1> QED
  BY <1>1, ViewInvariance, PTL

\* No late reply, retry or passing of time takes "fully filed" back.
THEOREM FullyFiledStaysFinal == ViewSpec => FullyFiledIsFinal
<1>1. ViewInv /\ ViewInv' /\ [ViewNext]_viewVars =>
        [\A c \in Clients : headline(c) = "fully_filed" => headline(c)' = "fully_filed"]_viewVars
  <2> SUFFICES ASSUME ViewInv, ViewInv', [ViewNext]_viewVars, NEW c \in Clients,
                      headline(c) = "fully_filed"
               PROVE  headline(c)' = "fully_filed"
    OBVIOUS
  <2>1. [Next]_vars /\ UNCHANGED held
    BY DEF ViewNext, Work, TimePasses, ReadStatus, ReadExceptions, viewVars
  <2>2. FullyFiled(c)
    BY HeadlineFullyFiled DEF ViewInv, FiledInv, BooksInv
  <2>3. FullyFiled(c)'
    BY <2>1, <2>2, FullyFiledStays DEF ViewInv
  <2>4. (headline(c) = "fully_filed" <=> FullyFiled(c))'
    <3>1. TypeOK' /\ AllOrNothing' /\ ViewTypeOK'
      BY DEF ViewInv, FiledInv, BooksInv
    <3>2. TypeOK /\ AllOrNothing /\ ViewTypeOK => (headline(c) = "fully_filed" <=> FullyFiled(c))
      BY HeadlineFullyFiled
    <3>3. (TypeOK /\ AllOrNothing /\ ViewTypeOK => (headline(c) = "fully_filed" <=> FullyFiled(c)))'
      BY HeadlineFullyFiled, PTL
    <3> QED
      BY <3>1, <3>3
  <2> QED
    BY <2>3, <2>4
<1> QED
  BY <1>1, ViewInvariance, PTL DEF ViewSpec, FullyFiledIsFinal

-----------------------------------------------------------------------------
(* The firm's headline *)

Headlines == {"needs_attention", "awaiting_the_irs", "fully_filed", "partially_filed"}

\* A headline is one of the statuses, whatever the clients are.
LEMMA HeadlineType == \A c : headline(c) \in Headlines
BY DEF headline, Headlines

\* One round of the loop keeps the worse of the two headlines.
LEMMA CombineIsWorse ==
    ASSUME NEW h \in Headlines, NEW c \in Headlines
    PROVE  /\ Combine(h, c) =
                           IF "needs_attention" \in {h, c} THEN "needs_attention"
                           ELSE IF "awaiting_the_irs" \in {h, c} THEN "awaiting_the_irs"
                           ELSE IF "partially_filed" \in {h, c} THEN "partially_filed"
                           ELSE "fully_filed"
           /\ Combine(h, c) \in Headlines
BY DEF Combine, Headlines

\* The loop's intermediate results are well defined.
LEMMA HeadlineAfterDef ==
    /\ HeadlineAfter \in [0..Len(ClientOrder) -> Headlines]
    /\ HeadlineAfter[0] = "fully_filed"
    /\ \A n \in 1..Len(ClientOrder) :
          HeadlineAfter[n] = Combine(HeadlineAfter[n - 1], headline(ClientOrder[n]))
<1> DEFINE N == Len(ClientOrder)
           round == [x \in (1..N) \X Headlines |-> Combine(x[2], headline(ClientOrder[x[1]]))]
           Loop(g) == [n \in 0..N |-> IF n = 0 THEN "fully_filed"
                                       ELSE Combine(g[n - 1], headline(ClientOrder[n]))]
<1>1. N \in Nat
  BY ClientsAreListed
<1>2. "fully_filed" \in Headlines
  BY DEF Headlines
<1>3. round \in [(1..N) \X Headlines -> Headlines]
  <2>1. ASSUME NEW x \in (1..N) \X Headlines
        PROVE  Combine(x[2], headline(ClientOrder[x[1]])) \in Headlines
    BY CombineIsWorse, HeadlineType
  <2> QED
    BY <2>1
<1> HIDE DEF N
<1>4. PICK g \in [0..N -> Headlines] : IsComputedBy(g, N, "fully_filed", round)
  <2> HIDE DEF round
  <2> QED
    BY <1>1, <1>2, <1>3, PrefixRecursion
<1>5. \A n \in 1..N : n - 1 \in 0..N /\ round[<<n, g[n - 1]>>] = Combine(g[n - 1], headline(ClientOrder[n]))
  BY <1>1
<1> HIDE DEF round
<1>6. g = Loop(g)
  <2>1. g = [n \in 0..N |-> g[n]]
    OBVIOUS
  <2>2. ASSUME NEW n \in 0..N
        PROVE  g[n] = IF n = 0 THEN "fully_filed" ELSE Combine(g[n - 1], headline(ClientOrder[n]))
    <3>1. g[n] = IF n = 0 THEN "fully_filed" ELSE round[<<n, g[n - 1]>>]
      BY <1>4 DEF IsComputedBy
    <3>2. n # 0 => n \in 1..N
      BY <1>1
    <3> QED
      BY <1>5, <3>1, <3>2
  <2> QED
    BY <2>1, <2>2
<1>7. HeadlineAfter = CHOOSE h : h = Loop(h)
  BY DEF HeadlineAfter, N
<1> HIDE DEF Loop
<1>8. HeadlineAfter = Loop(HeadlineAfter)
  BY <1>6, <1>7
<1>9. /\ DOMAIN HeadlineAfter = 0..N /\ HeadlineAfter = [n \in 0..N |-> HeadlineAfter[n]]
      /\ HeadlineAfter[0] = "fully_filed"
      /\ \A n \in 1..N : HeadlineAfter[n] = Combine(HeadlineAfter[n - 1], headline(ClientOrder[n]))
  BY <1>1, <1>8 DEF Loop
<1> DEFINE T == {n \in 0..N : HeadlineAfter[n] \notin Headlines}
<1>10. T = {}
  <2> SUFFICES ASSUME T # {} PROVE FALSE
    OBVIOUS
  <2>1. PICK m \in T : \A n \in T : m <= n
    <3>1. T \in SUBSET Nat
      BY <1>1
    <3> HIDE DEF T
    <3> QED
      BY <3>1, LeastNatural
  <2>2. m \in 1..N /\ m - 1 \in 0..N /\ m - 1 \notin T
    BY <1>1, <1>2, <1>9, <2>1
  <2>3. HeadlineAfter[m] = Combine(HeadlineAfter[m - 1], headline(ClientOrder[m]))
    BY <1>9, <2>2
  <2>4. HeadlineAfter[m] \in Headlines
    BY <2>2, <2>3, CombineIsWorse, HeadlineType
  <2> QED
    BY <2>1, <2>4
<1> QED
  BY <1>9, <1>10 DEF N

\* The firm's headline is its worst client's, in whatever order they come.
THEOREM FirmHeadlineIsItsWorst == ViewSpec => []FirmHeadlineIsWorst
<1> DEFINE N == Len(ClientOrder)
           Worst(n) ==
             IF \E i \in 1..n : headline(ClientOrder[i]) = "needs_attention" THEN "needs_attention"
             ELSE IF \E i \in 1..n : headline(ClientOrder[i]) = "awaiting_the_irs" THEN "awaiting_the_irs"
             ELSE IF \E i \in 1..n : headline(ClientOrder[i]) = "partially_filed" THEN "partially_filed"
             ELSE "fully_filed"
           T == {n \in 0..N : HeadlineAfter[n] # Worst(n)}
<1>1. N \in Nat
  BY ClientsAreListed
<1>2. HeadlineAfter[0] = Worst(0)
  <2>1. 1..0 = {}
    OBVIOUS
  <2> QED
    BY <2>1, HeadlineAfterDef
<1> HIDE DEF N
<1>3. ASSUME NEW m \in 1..N, HeadlineAfter[m - 1] = Worst(m - 1) PROVE HeadlineAfter[m] = Worst(m)
  <2>1. HeadlineAfter[m] = Combine(HeadlineAfter[m - 1], headline(ClientOrder[m]))
    BY HeadlineAfterDef DEF N
  <2>2. HeadlineAfter[m - 1] \in Headlines /\ headline(ClientOrder[m]) \in Headlines
    BY HeadlineAfterDef, HeadlineType, <1>1 DEF N
  <2>3. 1..m = (1..(m - 1)) \cup {m}
    BY <1>1
  <2> QED
    BY <1>3, <2>1, <2>2, <2>3, CombineIsWorse DEF Headlines
<1> HIDE DEF Worst
<1>4. T = {}
  <2> SUFFICES ASSUME T # {} PROVE FALSE
    OBVIOUS
  <2>1. PICK m \in T : \A n \in T : m <= n
    <3>1. T \in SUBSET Nat
      BY <1>1
    <3> HIDE DEF T
    <3> QED
      BY <3>1, LeastNatural
  <2>2. m \in 1..N /\ m - 1 \in 0..N /\ m - 1 \notin T
    BY <1>1, <1>2, <2>1
  <2> QED
    BY <1>3, <2>1, <2>2
<1>5. FirmHeadline = Worst(N)
  BY <1>1, <1>4 DEF FirmHeadline, N
<1>6. Clients = {ClientOrder[i] : i \in 1..N} /\ \A c \in Clients : headline(c) \in Headlines
  BY ClientsAreListed, HeadlineType DEF Clients, ToSet, N
<1>7. Worst(N) =
        IF \E c \in Clients : headline(c) = "needs_attention" THEN "needs_attention"
        ELSE IF \E c \in Clients : headline(c) = "awaiting_the_irs" THEN "awaiting_the_irs"
        ELSE IF \E c \in Clients : headline(c) = "partially_filed" THEN "partially_filed"
        ELSE "fully_filed"
  BY <1>6 DEF Worst
<1> HIDE DEF T
<1>8. FirmHeadlineIsWorst
  BY <1>5, <1>6, <1>7 DEF FirmHeadlineIsWorst, Headlines
<1> QED
  BY <1>8, PTL
=============================================================================
