----------------------------- MODULE StatusView -----------------------------
(***************************************************************************)
(* What people see while FilingSystem runs: ClientStatus, FirmStatus and   *)
(* Exceptions (postgres/internal/store/status.go), each one SQL statement  *)
(* over the committed rows, and the client page (service/internal/web),    *)
(* which asks for a client's status and for its exceptions in two          *)
(* transactions.                                                           *)
(*                                                                         *)
(* Data abstractions.  A filing outside every batch stays as the           *)
(* determination left it (Intake plans batches).  RETRY_EXHAUSTED and      *)
(* INVARIANT_FAILURE are one exception type, and so are the reasons of a   *)
(* rejection.  "Older than 30 minutes" is membership in overdue.           *)
(***************************************************************************)
EXTENDS FilingSystem, FiniteSets, SequencesExt

CONSTANTS
    ClientOrder,   \* the firm's clients, ORDER BY id
    Held,          \* filings outside every batch
    ClientOf       \* client of each filing, planned or held

Clients == ToSet(ClientOrder)

ASSUME ClientsAreListed == ClientOrder \in Seq(Clients)

ASSUME BatchesHaveOneClient ==
    /\ Held \cap Filings = {}
    /\ ClientOf \in [Filings \cup Held -> Clients]
    /\ \A b \in Batches : \A f, g \in FilingsOf[b] : ClientOf[f] = ClientOf[g]

\* The counts of a status are counts of rows.
ASSUME FilingsAreFinite == IsFiniteSet(Filings \cup Held)

VARIABLES
    held,      \* state of the held filings, never changed
    overdue,   \* batches with submitted_at < clock_timestamp() - 30 minutes
    page       \* one reader's client page

viewVars == <<vars, held, overdue, page>>

-----------------------------------------------------------------------------
(* The projections *)

FilingState(f) == IF f \in Held THEN held[f] ELSE filing[f]
FilingsOfClient(c) == {f \in DOMAIN ClientOf : ClientOf[f] = c}
BatchesOfClient(c) == {b \in Batches : FilingsOf[b] \subseteq FilingsOfClient(c)}

\* One of facts.status.Counts.
Count(c, s) == Cardinality({f \in FilingsOfClient(c) : FilingState(f) = s})

\* Mutant: a poll that found nothing yet ends the watch.
StaleSubmittedOnly(b) == state[b] = "submitted" /\ b \in overdue

\* Submitted more than 30 minutes ago and not acknowledged.
Stale(b) == state[b] \in {"submitted", "awaiting_ack"} /\ b \in overdue

\* Mutant: a rejection is no reason for attention.
AttentionWithoutRejected(c) ==
    \/ \E f \in FilingsOfClient(c) : FilingState(f) = "blocked_preflight"
    \/ \E b \in BatchesOfClient(c) : state[b] = "invariant_failed" \/ Stale(b)

Attention(c) ==
    \/ \E f \in FilingsOfClient(c) : FilingState(f) \in {"blocked_preflight", "rejected"}
    \/ \E b \in BatchesOfClient(c) : state[b] = "invariant_failed" \/ Stale(b)

Awaiting(c) ==
    \E b \in BatchesOfClient(c) :
        state[b] \in {"submitting", "submit_unknown", "submitted", "awaiting_ack"}

\* Mutant: pending filings do not count as unfinished.
headlineIgnoringPending(c) ==
    CASE Attention(c) -> "needs_attention"
      [] ~Attention(c) /\ Awaiting(c) -> "awaiting_the_irs"
      [] ~Attention(c) /\ ~Awaiting(c) /\ Count(c, "ready") = 0 -> "fully_filed"
      [] OTHER -> "partially_filed"

headline(c) ==
    CASE Attention(c) -> "needs_attention"
      [] ~Attention(c) /\ Awaiting(c) -> "awaiting_the_irs"
      [] ~Attention(c) /\ ~Awaiting(c) /\ Count(c, "ready") = 0
            /\ Count(c, "batched") = 0 -> "fully_filed"
      [] OTHER -> "partially_filed"

\* One round of FirmStatus's loop: the firm's headline so far and a client's.
Combine(firm, client) ==
    CASE client = "needs_attention" -> client
      [] client = "awaiting_the_irs" /\ firm # "needs_attention" -> client
      [] client = "partially_filed" /\ firm = "fully_filed" -> client
      [] OTHER -> firm

\* Mutant: a later client's headline replaces the firm's.
FirmHeadlineOfLast ==
    FoldLeft(LAMBDA firm, c : IF headline(c) # "fully_filed" THEN headline(c) ELSE firm,
             "fully_filed", ClientOrder)

\* The firm's headline after its first n clients.
HeadlineAfter[n \in 0..Len(ClientOrder)] ==
    IF n = 0 THEN "fully_filed"
    ELSE Combine(HeadlineAfter[n - 1], headline(ClientOrder[n]))

FirmHeadline == HeadlineAfter[Len(ClientOrder)]

\* Mutant: the stale submissions are left out of the UNION.
ExceptionsWithoutStale(c) ==
    {<<"preflight", f>> : f \in {g \in FilingsOfClient(c) : FilingState(g) = "blocked_preflight"}}
    \cup {<<"rejected", f>> : f \in {g \in FilingsOfClient(c) : FilingState(g) = "rejected"}}
    \cup {<<"given_up", b>> : b \in {d \in BatchesOfClient(c) : state[d] = "invariant_failed"}}

Exceptions(c) ==
    {<<"preflight", f>> : f \in {g \in FilingsOfClient(c) : FilingState(g) = "blocked_preflight"}}
    \cup {<<"rejected", f>> : f \in {g \in FilingsOfClient(c) : FilingState(g) = "rejected"}}
    \cup {<<"given_up", b>> : b \in {d \in BatchesOfClient(c) : state[d] = "invariant_failed"}}
    \cup {<<"unacknowledged", b>> : b \in {d \in BatchesOfClient(c) : Stale(d)}}

-----------------------------------------------------------------------------
NoPage == [step |-> "closed"]
Headed(c) == [step |-> "headed", client |-> c, headline |-> headline(c)]
Shown(p) == [step |-> "shown", client |-> p.client, headline |-> p.headline,
             listed |-> Exceptions(p.client)]

ViewInit ==
    /\ Init
    /\ held \in [Held -> {"blocked_preflight", "ready"}]
    /\ overdue = {}
    /\ page = NoPage

\* FilingSystem runs on, whoever looks.
Work == Next /\ UNCHANGED <<held, overdue, page>>

\* Thirty minutes after submitted_at, which is set once and kept.
TimePasses(b) ==
    /\ b \notin overdue
    /\ state[b] \in {"submitted", "awaiting_ack"}
    /\ overdue' = overdue \cup {b}
    /\ UNCHANGED <<vars, held, page>>

\* The client page's first transaction, and its second.
ReadStatus(c) ==
    /\ page.step # "headed"
    /\ page' = Headed(c)
    /\ UNCHANGED <<vars, held, overdue>>

ReadExceptions ==
    /\ page.step = "headed"
    /\ page' = Shown(page)
    /\ UNCHANGED <<vars, held, overdue>>

ViewNext ==
    \/ Work
    \/ \E b \in Batches : TimePasses(b)
    \/ \E c \in Clients : ReadStatus(c)
    \/ ReadExceptions

ViewSpec == ViewInit /\ [][ViewNext]_viewVars

FairViewSpec ==
    ViewSpec /\ Fairness /\ \A b \in Batches : WF_viewVars(TimePasses(b))

-----------------------------------------------------------------------------
(* Properties *)

\* "Fully filed" is the truth: every filing of the client that is required is
\* on file at the receiver, which has published its acceptance (headline,
\* counts of ready and batched filings, CompleteAcknowledgment).
FullyFiledIsTrue ==
    \A c \in Clients : headline(c) = "fully_filed" =>
        \A f \in FilingsOfClient(c) :
            \E s \in ledger : /\ s.batch \in acked
                              /\ f \in FilingsOf[s.batch]
                              /\ s.results[f] = "accepted"

\* The status query and the exceptions query, written twice, agree: a client
\* needs attention exactly when the list has something to attend to.
AttentionIsExplained ==
    \A c \in Clients : headline(c) = "needs_attention" <=> Exceptions(c) # {}

\* The firm's headline is its worst client's, in whatever order clients come
\* (FirmStatus's loop).
FirmHeadlineIsWorst ==
    FirmHeadline =
        CASE \E c \in Clients : headline(c) = "needs_attention" -> "needs_attention"
          [] /\ \A c \in Clients : headline(c) # "needs_attention"
             /\ \E c \in Clients : headline(c) = "awaiting_the_irs" -> "awaiting_the_irs"
          [] \A c \in Clients : headline(c) = "fully_filed" -> "fully_filed"
          [] OTHER -> "partially_filed"

\* Between the page's two transactions the client may move on, but a page that
\* says "fully filed" never lists an exception (server.client).
FullyFiledPageIsClean ==
    page.step = "shown" /\ page.headline = "fully_filed" => page.listed = {}

\* A client that is fully filed stays so: no late reply, retry or passing of
\* time takes it back.
FullyFiledIsFinal ==
    [][\A c \in Clients : headline(c) = "fully_filed" => headline(c)' = "fully_filed"]_viewVars

\* Nothing waits unseen: once processes stop crashing, a client whose filings
\* are all planned ends up fully filed or in front of a person, also when the
\* receiver never acknowledges (the 30-minute exception).
NobodyWaitsUnseen ==
    EventuallyUndisturbed =>
        \A c \in Clients :
            Count(c, "ready") = 0 =>
                <>[](headline(c) \in {"fully_filed", "needs_attention"})
=============================================================================
