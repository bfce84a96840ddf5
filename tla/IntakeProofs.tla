---------------------------- MODULE IntakeProofs -----------------------------
(***************************************************************************)
(* What Intake promises an operator, and why: the advisory locks keep what *)
(* a transaction has read true until it commits, a dataset never changes,  *)
(* a filing's state is decided once, from sums that fit a bigint, the plan *)
(* is a partition of the ready filings into batches of one client that the *)
(* receiver can read, and what a caller was told stays true.               *)
(***************************************************************************)
EXTENDS Intake, WireProofs, InductionLemmas

\* Variables that are functions, and locks that are held by whom they say.
LockInv ==
    /\ pc \in [Callers -> {"idle", "waiting", "locked", "read"}]
    /\ call \in [Callers -> [op : Operations, file : Files \cup {NoFile}]]
    /\ locks \in [Operations -> Callers \cup {NoCaller}]
    /\ seen = [c \in Callers |-> seen[c]]
    /\ answer = [c \in Callers |-> answer[c]]
    /\ \A c \in Callers :
          /\ pc[c] \in {"locked", "read"} => locks[call[c].op] = c
          /\ pc[c] # "idle" /\ call[c].op = "import" => call[c].file \in Files

\* A dataset is the whole of an accepted file.
Whole(data) ==
    /\ data # NoFile
    /\ \E file \in Files : /\ ~Refused(file) /\ Staged(file) = file
                          /\ data = [rows |-> Staged(file), hash |-> file]

\* Filings come from a determination, a determination from a dataset.
DataInv ==
    /\ dataset = NoFile \/ Whole(dataset)
    /\ determined \in BOOLEAN
    /\ determined => dataset # NoFile
    /\ filing \in [Filings -> FilingStates]
    /\ ~determined => \A f \in Filings : filing[f] = "none"

\* What one transaction has read is still so.
SeenIsSo(c) ==
    /\ call[c].op = "import" =>
          /\ seen[c].exists <=> dataset # NoFile
          /\ seen[c].exists => seen[c].stored = dataset
    /\ call[c].op = "determine" =>
          /\ seen[c].exists <=> determined
          /\ seen[c].stored # NoFile => dataset # NoFile
    /\ call[c].op = "plan" =>
          \A f \in seen[c].plan : f \in Filings /\ filing[f] = "ready"

SeenInv == \A c \in Callers : pc[c] = "read" => SeenIsSo(c)

\* One answer is what the operator may be told.
AnswerIsSo(a) ==
    /\ a.op = "import" /\ a.result \in {"created", "existing"} =>
          dataset # NoFile /\ dataset.rows = a.file /\ dataset.hash = a.file
    /\ a.result = "conflict" =>
          a.op = "import" /\ dataset # NoFile /\ a.file # dataset.hash

AnswerInv == \A c \in Callers : AnswerIsSo(answer[c])

\* A filing's state was decided by the rule, from sums that fit.
Decided(data, f, state) ==
    state # "none" =>
        /\ Reportable(data.rows, f) \in Int64 /\ Withholding(data.rows, f) \in Int64
        /\ state = "blocked_preflight" <=> Preflight(data.rows, f) # "none"

RuleInv == \A f \in Filings : Decided(dataset, f, filing[f])

IInv == LockInv /\ DataInv /\ SeenInv /\ AnswerInv /\ RuleInv

-----------------------------------------------------------------------------
(* What a readable file stages is the file. *)
LEMMA ReadableIsWhole ==
    ASSUME NEW file, ~ReadFailed(file)
    PROVE  Staged(file) = file
<1>1. {i \in 1 .. Len(file) : file[i] = Unreadable} = {}
  BY DEF ReadFailed, Contains
<1>2. SelectInSeq(file, LAMBDA row : row = Unreadable) = 0
  BY <1>1 DEF SelectInSeq
<1>3. QED
  BY <1>2 DEF Staged

-----------------------------------------------------------------------------
(* The steps.  The end of a transaction that changed no table. *)
LEMMA ReturnKeepsLocks ==
    ASSUME LockInv, NEW c \in Callers, NEW result, NEW counts,
           ReturnCounts(c, result, counts)
    PROVE  LockInv' /\ (\A d \in Callers : pc'[d] = "read" =>
                          d # c /\ pc[d] = "read" /\ call'[d] = call[d] /\ seen'[d] = seen[d])
<1>1. NoCall \in [op : Operations, file : Files \cup {NoFile}]
  BY DEF NoCall, Operations
<1>2. /\ pc' = [pc EXCEPT ![c] = "idle"] /\ call' = [call EXCEPT ![c] = NoCall]
      /\ seen' = [seen EXCEPT ![c] = NothingSeen]
      /\ locks' = [op \in Operations |-> IF locks[op] = c THEN NoCaller ELSE locks[op]]
  BY DEF ReturnCounts, Goto
<1>3. \A d \in Callers : pc'[d] = IF d = c THEN "idle" ELSE pc[d]
  BY <1>2 DEF LockInv
<1>4. \A d \in Callers : d # c => call'[d] = call[d] /\ seen'[d] = seen[d]
  BY <1>2 DEF LockInv
<1>5. pc' \in [Callers -> {"idle", "waiting", "locked", "read"}]
  BY <1>2 DEF LockInv
<1>6. call' \in [Callers -> [op : Operations, file : Files \cup {NoFile}]]
  BY <1>1, <1>2 DEF LockInv
<1>7. locks' \in [Operations -> Callers \cup {NoCaller}]
  BY <1>2 DEF LockInv
<1>8. seen' = [d \in Callers |-> seen'[d]]
  BY <1>2 DEF LockInv
<1>9. answer' = [d \in Callers |-> answer'[d]]
  BY DEF LockInv, ReturnCounts
<1>10. \A d \in Callers : pc'[d] \in {"locked", "read"} => locks'[call'[d].op] = d
  BY <1>2, <1>3, <1>4 DEF LockInv
<1>11. \A d \in Callers : pc'[d] # "idle" /\ call'[d].op = "import" => call'[d].file \in Files
  BY <1>3, <1>4 DEF LockInv
<1>12. QED
  BY <1>3, <1>4, <1>5, <1>6, <1>7, <1>8, <1>9, <1>10, <1>11 DEF LockInv

\* A return answers its own call, and leaves every other answer alone.
LEMMA AnswerOf ==
    ASSUME LockInv, NEW c \in Callers, NEW result, NEW counts,
           ReturnCounts(c, result, counts)
    PROVE  /\ answer'[c].op = call[c].op /\ answer'[c].file = call[c].file
           /\ answer'[c].result = result
           /\ \A d \in Callers : d # c => answer'[d] = answer[d]
BY DEF LockInv, ReturnCounts

\* A call that only reads, or fails, returns without disturbing the rest.
LEMMA ReturnKeepsIInv ==
    ASSUME IInv, NEW c \in Callers, NEW result, NEW counts,
           ReturnCounts(c, result, counts), UNCHANGED tables,
           AnswerIsSo([op |-> call[c].op, file |-> call[c].file, result |-> result])
    PROVE  IInv'
<1>1. /\ LockInv'
      /\ \A d \in Callers : pc'[d] = "read" =>
            d # c /\ pc[d] = "read" /\ call'[d] = call[d] /\ seen'[d] = seen[d]
  BY ReturnKeepsLocks DEF IInv
<1>2. DataInv' /\ RuleInv'
  BY DEF IInv, DataInv, Whole, RuleInv, tables
<1>3. SeenInv'
  BY <1>1 DEF IInv, SeenInv, SeenIsSo, tables
<1>4. AnswerInv'
  <2>1. SUFFICES ASSUME NEW d \in Callers PROVE AnswerIsSo(answer[d])'
    BY DEF AnswerInv
  <2>2. CASE d = c
    BY <2>2, AnswerOf DEF IInv, AnswerIsSo, tables
  <2>3. CASE d # c
    BY <2>3, AnswerOf DEF IInv, AnswerInv, AnswerIsSo, tables
  <2>4. QED
    BY <2>2, <2>3
<1>5. QED
  BY <1>1, <1>2, <1>3, <1>4 DEF IInv

\* Before the first call nothing is stored and nobody has been told anything.
LEMMA InitIsSafe == Init => IInv
<1>1. SUFFICES ASSUME Init PROVE IInv
  OBVIOUS
<1>2. LockInv
  BY <1>1 DEF Init, LockInv, NoCall, Operations
<1>3. DataInv
  BY <1>1 DEF Init, DataInv, FilingStates
<1>4. SeenInv
  BY <1>1 DEF Init, SeenInv
<1>5. AnswerInv
  BY <1>1 DEF Init, AnswerInv, AnswerIsSo, NoAnswer
<1>6. RuleInv
  BY <1>1 DEF Init, RuleInv, Decided
<1>7. QED
  BY <1>2, <1>3, <1>4, <1>5, <1>6 DEF IInv

(* A new call: nothing is read, nothing is answered. *)
LEMMA RequestIsSafe ==
    ASSUME IInv, NEW c \in Callers, NEW op \in Operations,
           NEW file \in Files \cup {NoFile}, Request(c, op, file)
    PROVE  IInv'
<1>1. /\ pc[c] = "idle" /\ pc' = [pc EXCEPT ![c] = "waiting"]
      /\ call' = [call EXCEPT ![c] = [op |-> op, file |-> file]]
      /\ answer' = [answer EXCEPT ![c] = NoAnswer]
      /\ UNCHANGED <<tables, locks, seen>>
  BY DEF Request, Goto
<1>2. \A d \in Callers : d # c => pc'[d] = pc[d] /\ call'[d] = call[d] /\ answer'[d] = answer[d]
  BY <1>1 DEF IInv, LockInv
<1>3. pc'[c] = "waiting" /\ answer'[c] = NoAnswer
  BY <1>1 DEF IInv, LockInv
<1>4. LockInv'
  <2>1. /\ pc' \in [Callers -> {"idle", "waiting", "locked", "read"}]
        /\ call' \in [Callers -> [op : Operations, file : Files \cup {NoFile}]]
    BY <1>1 DEF IInv, LockInv
  <2>2. answer' = [d \in Callers |-> answer'[d]]
    BY <1>1 DEF IInv, LockInv
  <2>3. \A d \in Callers : pc'[d] \in {"locked", "read"} => locks'[call'[d].op] = d
    BY <1>1, <1>2, <1>3 DEF IInv, LockInv
  <2>4. \A d \in Callers : pc'[d] # "idle" /\ call'[d].op = "import" => call'[d].file \in Files
    <3>1. op = "import" => file \in Files
      BY DEF Request
    <3>2. call'[c].op = op /\ call'[c].file = file
      BY <1>1 DEF IInv, LockInv
    <3>3. QED
      BY <1>2, <3>1, <3>2 DEF IInv, LockInv
  <2>5. QED
    BY <1>1, <2>1, <2>2, <2>3, <2>4 DEF IInv, LockInv
<1>5. DataInv' /\ RuleInv'
  BY <1>1 DEF IInv, DataInv, Whole, RuleInv, tables
<1>6. SeenInv'
  BY <1>1, <1>2, <1>3 DEF IInv, SeenInv, SeenIsSo, tables
<1>7. AnswerInv'
  BY <1>1, <1>2, <1>3 DEF IInv, AnswerInv, AnswerIsSo, NoAnswer, tables
<1>8. QED
  BY <1>4, <1>5, <1>6, <1>7 DEF IInv

\* Taking an advisory lock tells nobody anything, and only the taker reads under it.
LEMMA LockIsSafe ==
    ASSUME IInv, NEW c \in Callers, Lock(c)
    PROVE  IInv'
<1>1. /\ pc[c] = "waiting" /\ locks[call[c].op] = NoCaller
      /\ locks' = [locks EXCEPT ![call[c].op] = c]
      /\ pc' = [pc EXCEPT ![c] = "locked"]
      /\ UNCHANGED <<tables, call, seen, answer>>
  BY DEF Lock, Goto
<1>2. call[c].op \in Operations
  BY DEF IInv, LockInv
<1>3. \A d \in Callers : pc'[d] = IF d = c THEN "locked" ELSE pc[d]
  BY <1>1 DEF IInv, LockInv
<1>4. LockInv'
  <2>1. /\ pc' \in [Callers -> {"idle", "waiting", "locked", "read"}]
        /\ locks' \in [Operations -> Callers \cup {NoCaller}]
    BY <1>1, <1>2 DEF IInv, LockInv
  <2>2. \A d \in Callers : pc'[d] \in {"locked", "read"} => locks'[call'[d].op] = d
    <3>1. SUFFICES ASSUME NEW d \in Callers, pc'[d] \in {"locked", "read"}
                   PROVE  locks'[call[d].op] = d
      BY <1>1
    <3>2. CASE d = c
      BY <1>1, <1>2, <3>2 DEF IInv, LockInv
    <3>3. CASE d # c
      <4>1. locks[call[d].op] = d /\ call[d].op \in Operations
        BY <1>3, <3>1, <3>3 DEF IInv, LockInv
      <4>2. call[d].op # call[c].op
        BY <1>1, <4>1, Limits
      <4>3. QED
        BY <1>1, <4>1, <4>2 DEF IInv, LockInv
    <3>4. QED
      BY <3>2, <3>3
  <2>3. \A d \in Callers : pc'[d] # "idle" /\ call'[d].op = "import" => call'[d].file \in Files
    BY <1>1, <1>3 DEF IInv, LockInv
  <2>4. QED
    BY <1>1, <2>1, <2>2, <2>3 DEF IInv, LockInv
<1>5. DataInv' /\ RuleInv'
  BY <1>1 DEF IInv, DataInv, Whole, RuleInv, tables
<1>6. SeenInv' /\ AnswerInv'
  BY <1>1, <1>3 DEF IInv, SeenInv, SeenIsSo, AnswerInv, AnswerIsSo, tables
<1>7. QED
  BY <1>4, <1>5, <1>6 DEF IInv

(* What is read under the lock is what is there. *)
LEMMA ReadIsSafe ==
    ASSUME IInv, NEW c \in Callers, Read(c)
    PROVE  IInv'
<1>1. /\ pc[c] = "locked" /\ pc' = [pc EXCEPT ![c] = "read"]
      /\ UNCHANGED <<tables, locks, call, answer>>
  BY DEF Read, Goto
<1>2. \A d \in Callers : pc'[d] = IF d = c THEN "read" ELSE pc[d]
  BY <1>1 DEF IInv, LockInv
<1>3. /\ \A d \in Callers : d # c => seen'[d] = seen[d]
      /\ seen' = [d \in Callers |-> seen'[d]]
  BY DEF Read, IInv, LockInv
<1>4. /\ seen'[c].exists = CASE call[c].op = "import" -> dataset # NoFile
                             [] call[c].op = "determine" -> determined
                             [] call[c].op = "plan" -> batches # {}
      /\ seen'[c].stored = dataset
      /\ seen'[c].plan = ReadyFilings
  BY DEF Read, IInv, LockInv
<1>5. LockInv'
  <2>1. pc' \in [Callers -> {"idle", "waiting", "locked", "read"}]
    BY <1>1 DEF IInv, LockInv
  <2>2. \A d \in Callers : pc'[d] \in {"locked", "read"} => locks'[call'[d].op] = d
    BY <1>1, <1>2 DEF IInv, LockInv
  <2>3. \A d \in Callers : pc'[d] # "idle" /\ call'[d].op = "import" => call'[d].file \in Files
    BY <1>1, <1>2 DEF IInv, LockInv
  <2>4. QED
    BY <1>1, <1>3, <2>1, <2>2, <2>3 DEF IInv, LockInv
<1>6. DataInv' /\ RuleInv'
  BY <1>1 DEF IInv, DataInv, Whole, RuleInv, tables
<1>7. SeenInv'
  <2>1. SUFFICES ASSUME NEW d \in Callers, pc'[d] = "read" PROVE SeenIsSo(d)'
    BY DEF SeenInv
  <2>2. CASE d = c
    <3>1. /\ call[c].op = "import" => seen'[c].exists = (dataset # NoFile)
          /\ call[c].op = "determine" => seen'[c].exists = determined
          /\ seen'[c].stored = dataset /\ seen'[c].plan = ReadyFilings
      BY <1>4
    <3>2. call' = call /\ dataset' = dataset /\ determined' = determined /\ filing' = filing
      BY <1>1 DEF tables
    <3>3. /\ determined \in BOOLEAN
          /\ determined => dataset # NoFile
      BY DEF IInv, DataInv
    <3>4. \A f \in ReadyFilings : f \in Filings /\ filing[f] = "ready"
      BY DEF ReadyFilings
    <3>5. QED
      BY <2>2, <3>1, <3>2, <3>3, <3>4, Zenon DEF SeenIsSo
  <2>3. CASE d # c
    BY <1>1, <1>2, <1>3, <2>1, <2>3 DEF IInv, SeenInv, SeenIsSo, tables
  <2>4. QED
    BY <2>2, <2>3
<1>8. AnswerInv'
  BY <1>1 DEF IInv, AnswerInv, AnswerIsSo, tables
<1>9. QED
  BY <1>5, <1>6, <1>7, <1>8 DEF IInv

(* A failed transaction. *)
LEMMA FailIsSafe ==
    ASSUME IInv, NEW c \in Callers, Fail(c)
    PROVE  IInv'
<1>1. AnswerIsSo([op |-> call[c].op, file |-> call[c].file, result |-> "failed"])
  BY DEF AnswerIsSo
<1>2. QED
  BY <1>1, ReturnKeepsIInv DEF Fail, Return

(* A dataset is stored once, and a file that is told to be in it is in it. *)
LEMMA ImportRefusedIsSafe ==
    ASSUME IInv, NEW c \in Callers, ImportRefused(c)
    PROVE  IInv'
<1>1. AnswerIsSo([op |-> call[c].op, file |-> call[c].file, result |-> "invalid"])
  BY DEF AnswerIsSo
<1>2. QED
  BY <1>1, ReturnKeepsIInv DEF ImportRefused, Return

\* A second import of the stored file only reports the row counts that are there.
LEMMA ImportAgainIsSafe ==
    ASSUME IInv, NEW c \in Callers, pc[c] = "read", call[c].op = "import",
           ~Refused(call[c].file), ImportAgain(c)
    PROVE  IInv'
<1> DEFINE file == call[c].file
           same == /\ seen[c].stored.hash = file
                   /\ Len(seen[c].stored.rows) = Len(Staged(file))
<1>1. seen[c].stored = dataset /\ dataset # NoFile
  BY DEF IInv, SeenInv, SeenIsSo, ImportAgain
<1>2. Staged(file) = file
  BY ReadableIsWhole DEF Refused
<1>3. PICK stored \in Files :
         dataset = [rows |-> Staged(stored), hash |-> stored] /\ Staged(stored) = stored
  BY <1>1 DEF IInv, DataInv, Whole
<1>4. same <=> dataset.hash = file
  BY <1>1, <1>2, <1>3
<1>5. dataset.hash = file => dataset.rows = file
  BY <1>3
<1> HIDE DEF same, file
<1>6. AnswerIsSo([op |-> call[c].op, file |-> call[c].file,
                  result |-> IF same THEN "existing" ELSE "conflict"])
  BY <1>1, <1>4, <1>5 DEF AnswerIsSo, file
<1>7. ReturnCounts(c, IF same THEN "existing" ELSE "conflict", <<>>) /\ UNCHANGED tables
  BY Zenon DEF ImportAgain, Return, same, file
<1>8. QED
  BY <1>6, <1>7, ReturnKeepsIInv

\* The first import stores what it read of the file, before it tells its caller.
LEMMA ImportFirstIsSafe ==
    ASSUME IInv, NEW c \in Callers, pc[c] = "read", call[c].op = "import",
           ~Refused(call[c].file), ImportFirst(c)
    PROVE  IInv'
<1> DEFINE file == call[c].file
           data == [rows |-> Staged(file), hash |-> file]
<1>1. dataset = NoFile
  BY DEF IInv, SeenInv, SeenIsSo, ImportFirst
<1>2. /\ dataset' = data /\ ReturnCounts(c, "created", <<>>)
      /\ UNCHANGED <<determined, filing, batches>>
  BY <1>1 DEF ImportFirst, Return
<1>3. Staged(file) = file
  BY ReadableIsWhole DEF Refused
<1>4. file \in Files /\ data # NoFile
  BY <1>3, NoFileIsNoDataset DEF IInv, LockInv
<1>5. Whole(dataset')
  BY <1>2, <1>3, <1>4 DEF Whole
<1>6. /\ LockInv'
      /\ \A d \in Callers : pc'[d] = "read" =>
            d # c /\ pc[d] = "read" /\ call'[d] = call[d] /\ seen'[d] = seen[d]
  BY <1>2, ReturnKeepsLocks DEF IInv
<1>7. determined = FALSE /\ \A f \in Filings : filing[f] = "none"
  BY <1>1 DEF IInv, DataInv
<1>8. DataInv'
  BY <1>2, <1>5, <1>7 DEF IInv, DataInv, Whole
<1>9. RuleInv'
  BY <1>2, <1>7 DEF RuleInv, Decided
<1>10. SeenInv'
  <2>1. SUFFICES ASSUME NEW d \in Callers, pc'[d] = "read" PROVE SeenIsSo(d)'
    BY DEF SeenInv
  <2>2. call[d].op # "import"
    BY <1>6, <2>1 DEF IInv, LockInv
  <2>3. QED
    BY <1>2, <1>4, <1>6, <2>1, <2>2 DEF IInv, SeenInv, SeenIsSo
<1>11. AnswerInv'
  <2>1. SUFFICES ASSUME NEW d \in Callers PROVE AnswerIsSo(answer[d])'
    BY DEF AnswerInv
  <2>2. CASE d = c
    BY <1>2, <1>3, <1>4, <2>2, AnswerOf DEF IInv, AnswerIsSo
  <2>3. CASE d # c
    BY <1>1, <1>2, <2>3, AnswerOf DEF IInv, AnswerInv, AnswerIsSo
  <2>4. QED
    BY <2>2, <2>3
<1>12. QED
  BY <1>6, <1>8, <1>9, <1>10, <1>11 DEF IInv

\* Import, whichever of the two it turns out to be.
LEMMA ImportIsSafe ==
    ASSUME IInv, NEW c \in Callers, ImportDataset(c)
    PROVE  IInv'
<1>1. pc[c] = "read" /\ call[c].op = "import"
  BY DEF ImportDataset
<1>2. \/ ImportRefused(c)
      \/ ~Refused(call[c].file) /\ ImportAgain(c)
      \/ ~Refused(call[c].file) /\ ImportFirst(c)
  BY DEF ImportDataset
<1>3. QED
  BY <1>1, <1>2, ImportRefusedIsSafe, ImportAgainIsSafe, ImportFirstIsSafe

(* A determination that writes nothing. *)
LEMMA DetermineWritesNothing ==
    ASSUME IInv, NEW c \in Callers,
           DetermineAgain(c) \/ DetermineNothing(c) \/ DetermineOverflows(c),
           call[c].op = "determine"
    PROVE  IInv'
<1>1. \A result \in {"existing", "not_found", "invariant"} :
         AnswerIsSo([op |-> call[c].op, file |-> call[c].file, result |-> result])
  BY DEF AnswerIsSo
<1>2. CASE DetermineAgain(c)
  <2>1. ReturnCounts(c, "existing", seen[c].counts) /\ UNCHANGED tables
    BY <1>2, Zenon DEF DetermineAgain
  <2>2. QED
    BY <1>1, <2>1, ReturnKeepsIInv
<1>3. CASE DetermineNothing(c)
  <2>1. ReturnCounts(c, "not_found", <<>>) /\ UNCHANGED tables
    BY <1>3, Zenon DEF DetermineNothing, Return
  <2>2. QED
    BY <1>1, <2>1, ReturnKeepsIInv
<1>4. CASE DetermineOverflows(c)
  <2>1. ReturnCounts(c, "invariant", <<>>) /\ UNCHANGED tables
    BY <1>4, Zenon DEF DetermineOverflows, Return
  <2>2. QED
    BY <1>1, <2>1, ReturnKeepsIInv
<1>5. QED
  BY <1>2, <1>3, <1>4

(* The rule decides a filing, and only when its sums fit. *)
LEMMA DecidedByRule ==
    ASSUME NEW data, NEW f \in Filings, ~Overflows(data.rows)
    PROVE  /\ Decided(data, f, FilingState(data.rows, f))
           /\ FilingState(data.rows, f) \in FilingStates
<1>1. Required(data.rows, f) =>
         Reportable(data.rows, f) \in Int64 /\ Withholding(data.rows, f) \in Int64
  BY DEF Overflows
<1>2. QED
  BY <1>1 DEF Decided, FilingState, FilingStates

\* The first determination decides every filing, from the stored rows.
LEMMA DetermineFirstIsSafe ==
    ASSUME IInv, NEW c \in Callers, pc[c] = "read", call[c].op = "determine",
           DetermineFirst(c)
    PROVE  IInv'
<1>1. determined = FALSE /\ dataset # NoFile
  BY DEF IInv, SeenInv, SeenIsSo, DetermineFirst, DataInv
<1>2. /\ ~Overflows(dataset.rows) /\ determined' = TRUE
      /\ filing' = [f \in Filings |-> FilingState(dataset.rows, f)]
      /\ dataset' = dataset
      /\ \E counts : ReturnCounts(c, "created", counts)
  BY <1>1, Zenon DEF DetermineFirst
<1>3. PICK counts : ReturnCounts(c, "created", counts)
  BY <1>2
<1>4. /\ LockInv'
      /\ \A d \in Callers : pc'[d] = "read" =>
            d # c /\ pc[d] = "read" /\ call'[d] = call[d] /\ seen'[d] = seen[d]
  BY <1>3, ReturnKeepsLocks DEF IInv
<1>5. \A f \in Filings : /\ Decided(dataset, f, FilingState(dataset.rows, f))
                         /\ FilingState(dataset.rows, f) \in FilingStates
  BY <1>2, DecidedByRule
<1>6. DataInv'
  BY <1>1, <1>2, <1>5 DEF IInv, DataInv, Whole
<1>7. RuleInv'
  BY <1>2, <1>5 DEF RuleInv
<1>8. SeenInv'
  <2>1. SUFFICES ASSUME NEW d \in Callers, pc'[d] = "read" PROVE SeenIsSo(d)'
    BY DEF SeenInv
  <2>2. call[d].op # "determine"
    BY <1>4, <2>1 DEF IInv, LockInv
  <2>3. call[d].op = "plan" => \A f \in seen[d].plan : FALSE
    BY <1>1, <1>4, <2>1 DEF IInv, SeenInv, SeenIsSo, DataInv
  <2>4. QED
    BY <1>2, <1>4, <2>1, <2>2, <2>3 DEF IInv, SeenInv, SeenIsSo
<1>9. AnswerInv'
  BY <1>2, <1>3, AnswerOf DEF IInv, AnswerInv, AnswerIsSo
<1>10. QED
  BY <1>4, <1>6, <1>7, <1>8, <1>9 DEF IInv

\* Determination, the first or a later one.
LEMMA DetermineIsSafe ==
    ASSUME IInv, NEW c \in Callers, DetermineDataset(c)
    PROVE  IInv'
BY DetermineWritesNothing, DetermineFirstIsSafe DEF DetermineDataset

(* A plan finds what it read as it read it, and moves ready filings only. *)
LEMMA PlanIsSafe ==
    ASSUME IInv, NEW c \in Callers, PlanBatches(c)
    PROVE  IInv'
<1> DEFINE planned == seen[c].plan
<1>1. pc[c] = "read" /\ call[c].op = "plan"
  BY DEF PlanBatches
<1>2. \A f \in planned : f \in Filings /\ filing[f] = "ready"
  BY <1>1 DEF IInv, SeenInv, SeenIsSo
<1>3. /\ filing' = [f \in Filings |-> IF f \in planned THEN "batched" ELSE filing[f]]
      /\ UNCHANGED <<dataset, determined>>
      /\ \E counts : ReturnCounts(c, "planned", counts)
  BY <1>2, Zenon DEF PlanBatches
<1>4. PICK counts : ReturnCounts(c, "planned", counts)
  BY <1>3
<1>5. /\ LockInv'
      /\ \A d \in Callers : pc'[d] = "read" =>
            d # c /\ pc[d] = "read" /\ call'[d] = call[d] /\ seen'[d] = seen[d]
  BY <1>4, ReturnKeepsLocks DEF IInv
<1> HIDE DEF planned
<1>6. DataInv'
  <2>1. filing' \in [Filings -> FilingStates]
    BY <1>3 DEF IInv, DataInv, FilingStates
  <2>2. ~determined => \A f \in Filings : filing'[f] = "none"
    BY <1>2, <1>3 DEF IInv, DataInv
  <2>3. QED
    BY <1>3, <2>1, <2>2 DEF IInv, DataInv, Whole
<1>7. RuleInv'
  <2>1. SUFFICES ASSUME NEW f \in Filings PROVE Decided(dataset, f, filing'[f])
    BY <1>3 DEF RuleInv
  <2>2. CASE f \in planned
    <3>1. Decided(dataset, f, "ready") /\ filing'[f] = "batched"
      BY <1>2, <1>3, <2>2 DEF IInv, RuleInv
    <3>2. QED
      BY <3>1 DEF Decided
  <2>3. CASE f \notin planned
    BY <1>3, <2>3 DEF IInv, RuleInv
  <2>4. QED
    BY <2>2, <2>3
<1>8. SeenInv'
  <2>1. SUFFICES ASSUME NEW d \in Callers, pc'[d] = "read" PROVE SeenIsSo(d)'
    BY DEF SeenInv
  <2>2. call[d].op # "plan"
    BY <1>1, <1>5, <2>1 DEF IInv, LockInv
  <2>3. QED
    BY <1>3, <1>5, <2>1, <2>2 DEF IInv, SeenInv, SeenIsSo
<1>9. AnswerInv'
  BY <1>1, <1>3, <1>4, AnswerOf DEF IInv, AnswerInv, AnswerIsSo
<1>10. QED
  BY <1>5, <1>6, <1>7, <1>8, <1>9 DEF IInv

\* Every step keeps the inductive invariant.
LEMMA StepIsSafe == IInv /\ [Next]_vars => IInv'
<1>1. SUFFICES ASSUME IInv, [Next]_vars PROVE IInv'
  OBVIOUS
<1>2. CASE UNCHANGED vars
  <2>1. UNCHANGED <<dataset, determined, filing, locks, pc, call, seen, answer>>
    BY <1>2 DEF vars, tables
  <2>2. QED
    BY <1>1, <2>1 DEF IInv, LockInv, DataInv, Whole, SeenInv, SeenIsSo, AnswerInv,
                      AnswerIsSo, RuleInv
<1>3. CASE Next
  BY <1>1, <1>3, RequestIsSafe, LockIsSafe, ReadIsSafe, ImportIsSafe, DetermineIsSafe,
     PlanIsSafe, FailIsSafe DEF Next
<1>4. QED
  BY <1>1, <1>2, <1>3

\* The inductive invariant holds in every reachable state.
LEMMA Safety == Spec => []IInv
<1>1. QED
  BY InitIsSafe, StepIsSafe, PTL DEF Spec

-----------------------------------------------------------------------------
(***************************************************************************)
(* What an import reports as stored is stored, all of it, for any files    *)
(* and any number of callers: ImportDataset under its advisory lock.       *)
(***************************************************************************)
THEOREM ImportsAreTruthful == Spec => []ImportIsTruthful
<1>1. IInv => ImportIsTruthful
  BY DEF IInv, AnswerInv, AnswerIsSo, ImportIsTruthful
<1>2. QED
  BY <1>1, Safety, PTL

(***************************************************************************)
(* Only a different file conflicts: what a transaction read under its lock *)
(* is still so when it writes, in all three operations.                    *)
(***************************************************************************)
THEOREM OnlyOtherFilesConflict == Spec => []RepeatsNeverConflict
<1>1. IInv => RepeatsNeverConflict
  BY DEF IInv, AnswerInv, AnswerIsSo, RepeatsNeverConflict
<1>2. QED
  BY <1>1, Safety, PTL

-----------------------------------------------------------------------------
(* The two sums of a filing *)

\* Adding up a column is well defined: nothing to begin with, then row by row.
LEMMA TotalDef ==
    ASSUME NEW amounts \in Seq(Int)
    PROVE  \E upTo \in [0..Len(amounts) -> Int] :
              /\ Total(amounts) = upTo[Len(amounts)]
              /\ upTo[0] = 0
              /\ \A n \in 1..Len(amounts) : upTo[n] = upTo[n - 1] + amounts[n]
<1> DEFINE N == Len(amounts)
           Numbers == Int
           step == [x \in (1..N) \X Numbers |-> x[2] + amounts[x[1]]]
           Loop(g) == [n \in 0..N |-> IF n = 0 THEN 0 ELSE g[n - 1] + amounts[n]]
<1>1. N \in Nat /\ \A n \in 1..N : amounts[n] \in Int
  OBVIOUS
<1> HIDE DEF N
<1>2. 0 \in Numbers /\ step \in [(1..N) \X Numbers -> Numbers]
  BY <1>1
<1>3. PICK g \in [0..N -> Numbers] : IsComputedBy(g, N, 0, step)
  <2> HIDE DEF step, Numbers
  <2> QED
    BY <1>1, <1>2, PrefixRecursion
<1>4. \A n \in 1..N : n - 1 \in 0..N /\ step[<<n, g[n - 1]>>] = g[n - 1] + amounts[n]
  BY <1>1
<1> HIDE DEF step
<1>5. \A n \in 0..N : g[n] = IF n = 0 THEN 0 ELSE g[n - 1] + amounts[n]
  <2>1. \A n \in 0..N : g[n] = IF n = 0 THEN 0 ELSE step[<<n, g[n - 1]>>]
    BY <1>3, Zenon DEF IsComputedBy
  <2>2. \A n \in 0..N : n # 0 => n \in 1..N
    BY <1>1
  <2> QED
    BY <1>4, <2>1, <2>2, Zenon
<1>6. g = Loop(g)
  <2>1. g = [n \in 0..N |-> g[n]]
    OBVIOUS
  <2> QED
    BY <2>1, <1>5
<1> DEFINE upTo == CHOOSE h : h = Loop(h)
<1>7. Total(amounts) = upTo[N]
  BY DEF Total, N
<1> HIDE DEF Loop
<1>8. upTo = Loop(upTo)
  BY <1>6
<1> HIDE DEF upTo
<1>9. upTo = [n \in 0..N |-> IF n = 0 THEN 0 ELSE upTo[n - 1] + amounts[n]]
  BY <1>8 DEF Loop
<1>10. DOMAIN upTo = 0..N /\ upTo[0] = 0 /\ \A n \in 1..N : upTo[n] = upTo[n - 1] + amounts[n]
  BY <1>1, <1>9
<1>11. \A n \in 0..N : upTo[n] \in Int
  <2> DEFINE S == {n \in 0..N : upTo[n] \in Int}
  <2>1. 0 \in S
    BY <1>1, <1>10
  <2>2. ASSUME NEW n \in 1..N, n - 1 \in S PROVE n \in S
    <3>1. n \in 0..N /\ upTo[n - 1] \in Int
      BY <1>1, <2>2
    <3>2. upTo[n] = upTo[n - 1] + amounts[n] /\ amounts[n] \in Int
      BY <1>1, <1>10
    <3>3. upTo[n] \in Int
      BY <3>1, <3>2
    <3> QED
      BY <3>1, <3>3
  <2> HIDE DEF S
  <2>3. 0..N \subseteq S
    BY <1>1, <2>1, <2>2, PrefixInduction
  <2> QED
    BY <2>3 DEF S
<1>12. upTo \in [0..N -> Int]
  BY <1>9, <1>10, <1>11
<1> QED
  BY <1>7, <1>10, <1>12 DEF N

\* What is not negative adds up to what is not negative.
LEMMA TotalOfNaturals ==
    ASSUME NEW amounts \in Seq(Nat)
    PROVE  Total(amounts) \in Nat
<1>1. amounts \in Seq(Int) /\ Len(amounts) \in Nat
  OBVIOUS
<1>2. PICK upTo \in [0..Len(amounts) -> Int] :
              /\ Total(amounts) = upTo[Len(amounts)]
              /\ upTo[0] = 0
              /\ \A n \in 1..Len(amounts) : upTo[n] = upTo[n - 1] + amounts[n]
  BY <1>1, TotalDef
<1> DEFINE N == Len(amounts)
           S == {n \in 0..N : upTo[n] >= 0}
<1>3. 0 \in S /\ \A n \in 1..N : n - 1 \in S => n \in S
  <2>1. 0 \in S
    BY <1>1, <1>2
  <2>2. ASSUME NEW n \in 1..N, n - 1 \in S PROVE n \in S
    <3>1. n \in 0..N /\ n - 1 \in 0..N /\ upTo[n - 1] >= 0
      BY <1>1, <2>2
    <3>2. upTo[n] = upTo[n - 1] + amounts[n] /\ amounts[n] \in Nat
      BY <1>2
    <3>3. upTo[n - 1] \in Int
      BY <3>1
    <3>4. upTo[n] >= 0
      BY <3>1, <3>2, <3>3
    <3> QED
      BY <3>1, <3>4
  <2> QED
    BY <2>1, <2>2
<1> HIDE DEF S
<1>4. 0..N \subseteq S
  BY <1>1, <1>3, PrefixInduction
<1> QED
  BY <1>1, <1>2, <1>4 DEF S

\* An int64 total is the true one as soon as the true one fits, whatever the
\* running sums do on the way.
LEMMA WrappedIsTotal ==
    ASSUME NEW amounts \in Seq(Int), Total(amounts) \in Int64
    PROVE  WrappedTotal(amounts) = Total(amounts)
<1> DEFINE N == Len(amounts)
           Loop(g) == [n \in 0..N |-> IF n = 0 THEN 0 ELSE Wrap(g[n - 1] + amounts[n])]
<1>1. N \in Nat /\ \A n \in 1..N : amounts[n] \in Int
  OBVIOUS
<1>2. PICK upTo \in [0..N -> Int] :
              /\ Total(amounts) = upTo[N]
              /\ upTo[0] = 0
              /\ \A n \in 1..N : upTo[n] = upTo[n - 1] + amounts[n]
  BY TotalDef
<1> HIDE DEF N
<1> DEFINE wrapped == [n \in 0..N |-> Wrap(upTo[n])]
<1>3. Wrap(0) = 0
  <2>1. 0 \in Int64
    BY WireLimits DEF Int64
  <2> QED
    BY <2>1, WrapInRange
<1>4. ASSUME NEW n \in 1..N PROVE Wrap(upTo[n]) = Wrap(Wrap(upTo[n - 1]) + amounts[n])
  <2>1. upTo[n - 1] \in Int /\ amounts[n] \in Int /\ upTo[n] = upTo[n - 1] + amounts[n]
    BY <1>1, <1>2
  <2> QED
    BY <2>1, WrapAdds
<1>5. wrapped = Loop(wrapped)
  <2>1. ASSUME NEW n \in 0..N
        PROVE  Wrap(upTo[n]) = IF n = 0 THEN 0 ELSE Wrap(wrapped[n - 1] + amounts[n])
    <3>1. CASE n = 0
      BY <1>2, <1>3, <3>1
    <3>2. CASE n # 0
      <4>1. n \in 1..N /\ n - 1 \in 0..N
        BY <1>1, <3>2
      <4>2. wrapped[n - 1] = Wrap(upTo[n - 1])
        BY <4>1
      <4> QED
        BY <1>4, <3>2, <4>1, <4>2
    <3> QED
      BY <3>1, <3>2
  <2> QED
    BY <2>1
<1> DEFINE chosen == CHOOSE h : h = Loop(h)
<1>6. WrappedTotal(amounts) = chosen[N]
  BY DEF WrappedTotal, N
<1> HIDE DEF Loop, wrapped
<1>7. chosen = Loop(chosen)
  BY <1>5
<1> HIDE DEF chosen
<1>8. /\ chosen[0] = 0
      /\ \A n \in 1..N : chosen[n] = Wrap(chosen[n - 1] + amounts[n])
  <2>1. \A n \in 0..N : chosen[n] = IF n = 0 THEN 0 ELSE Wrap(chosen[n - 1] + amounts[n])
    BY <1>7 DEF Loop
  <2>2. 0 \in 0..N /\ \A n \in 1..N : n \in 0..N /\ n # 0
    BY <1>1
  <2> QED
    BY <2>1, <2>2, Zenon
<1> DEFINE S == {n \in 0..N : chosen[n] = Wrap(upTo[n])}
<1>9. 0 \in S /\ \A n \in 1..N : n - 1 \in S => n \in S
  <2>1. 0 \in 0..N /\ \A n \in 1..N : n \in 0..N
    BY <1>1
  <2> QED
    BY <1>2, <1>3, <1>4, <1>8, <2>1
<1> HIDE DEF S
<1>10. 0..N \subseteq S
  BY <1>1, <1>9, PrefixInduction
<1>11. chosen[N] = Wrap(upTo[N])
  BY <1>1, <1>10 DEF S
<1> QED
  BY <1>2, <1>6, <1>11, WrapInRange

\* The columns of an accepted file are numbers, and nobody withholds less than
\* nothing.
LEMMA ColumnsAreNumbers ==
    ASSUME NEW file \in Files, ~Refused(file), NEW f
    PROVE  /\ CountedAmounts(file, f) \in Seq(Int)
           /\ WithheldAmounts(file, f) \in Seq(Nat)
           /\ Withholding(file, f) \in Nat /\ Reportable(file, f) \in Int
<1>1. Staged(file) = file
  BY ReadableIsWhole DEF Refused
<1>2. \A i \in DOMAIN file : ValidRow(file[i])
  BY <1>1 DEF Refused
<1>3. Len(file) \in Nat /\ DOMAIN file = 1..Len(file)
  BY FilesAreSequences
<1>4. \A i \in 1..Len(file) : file[i].amount \in Int /\ file[i].withheld \in Nat
  <2>1. -(Word - 1) .. Word - 1 \subseteq Int /\ 0 .. Word - 1 \subseteq Nat
    BY WireLimits
  <2> QED
    BY <1>2, <1>3, <2>1, Zenon DEF ValidRow
<1>5. CountedAmounts(file, f) \in Seq(Int)
  <2>1. CountedAmounts(file, f) \in [1..Len(file) -> Int]
    BY <1>3, <1>4 DEF CountedAmounts
  <2> QED
    BY <1>3, <2>1
<1>6. WithheldAmounts(file, f) \in Seq(Nat)
  <2>1. WithheldAmounts(file, f) \in [1..Len(file) -> Nat]
    BY <1>3, <1>4 DEF WithheldAmounts
  <2> QED
    BY <1>3, <2>1
<1>7. Reportable(file, f) \in Int
  <2>1. ASSUME NEW amounts \in Seq(Int) PROVE Total(amounts) \in Int
    <3>1. Len(amounts) \in 0..Len(amounts)
      OBVIOUS
    <3> QED
      BY <3>1, TotalDef
  <2> QED
    BY <1>5, <2>1 DEF Reportable
<1> QED
  BY <1>5, <1>6, <1>7, TotalOfNaturals DEF Withholding

(* The rule in SQL and the receiver's, for sums that fit a bigint. *)
LEMMA OneRule ==
    ASSUME NEW rows, NEW f \in Filings,
           Reportable(rows, f) \in Int64, Withholding(rows, f) \in Int64,
           Withholding(rows, f) >= 0
    PROVE  LET record == Detail(FilingRow(rows, f))
           IN  Preflight(rows, f) = "none" <=>
                  ReadableRecord(record) /\ resultFor(ReadRecord(record)) = "none"
<1> DEFINE r == Reportable(rows, f)
           w == Withholding(rows, f)
           tin == RecipientTIN(f)
           record == Detail(FilingRow(rows, f))
           read == ReadRecord(record)
<1>1. /\ record.compensation = formatCents(r) /\ record.withheld = formatCents(w)
      /\ record.blank = {} /\ record.tin = tin
  BY DEF Detail, FilingRow
<1>2. /\ read.tin = tin
      /\ read.reportable = CentsIn(formatCents(r))
  BY <1>1 DEF ReadRecord
<1>3. \/ f.vendor.kind = "tin" /\ tin \in NineDigits /\ tin # ""
      \/ f.vendor.kind \in {"missing-tin", "malformed-tin"} /\ tin = ""
  BY VendorsHaveTINs, TINSpellings DEF RecipientTIN
<1>4. w \in Int64 \ {-Word}
  BY WireLimits DEF Int64
<1>5. ReadableRecord(record) <=> ParsesAsCents(formatCents(r))
  <2>1. ParsesAsCents(formatCents(w))
    BY <1>4, MoneySurvives
  <2>2. QED
    BY <1>1, <2>1, Zenon DEF ReadableRecord
<1>6. r \in Int64
  OBVIOUS
<1>7. Preflight(rows, f) = "none" <=>
         f.vendor.kind = "tin" /\ tin \notin ZeroTINs /\ ~(r <= 0)
  BY <1>3 DEF Preflight
<1> HIDE DEF r, w, tin, record, read
<1>8. CASE tin = ""
  <2>1. resultFor(read) = "TIN_MISSING"
    BY <1>2, <1>8, TINSpellings DEF resultFor
  <2>2. f.vendor.kind # "tin"
    BY <1>3, <1>8, TINSpellings
  <2>3. QED
    BY <1>7, <2>1, <2>2 DEF record, read
<1>9. CASE tin # "" /\ r = -Word
  <2>1. ~ReadableRecord(record)
    BY <1>5, <1>9, LeastIsUnreadable, Zenon
  <2>2. r <= 0
    <3>1. -Word <= 0
      BY WireLimits
    <3>2. QED
      BY <1>9, <3>1, Zenon
  <2>3. QED
    BY <1>7, <2>1, <2>2, Zenon DEF record
<1>10. CASE tin # "" /\ r # -Word
  <2>1. ParsesAsCents(formatCents(r)) /\ CentsIn(formatCents(r)) = r
    BY <1>6, <1>10, MoneySurvives
  <2>2. resultFor(read) = "none" <=> tin \notin ZeroTINs /\ ~(r <= 0)
    BY <1>2, <1>3, <1>10, <2>1 DEF resultFor
  <2>3. QED
    BY <1>3, <1>5, <1>7, <1>10, <2>1, <2>2 DEF record, read
<1>11. QED
  BY <1>8, <1>9, <1>10

(***************************************************************************)
(* What the firm holds back is what the receiver would not take, for every *)
(* amount: DetermineDataset's preflight_reason, formatCents, the stub's    *)
(* parseCents and resultFor.                                               *)
(***************************************************************************)
THEOREM PreflightAgrees == Spec => []PreflightAgreesWithReceiver
<1>1. IInv => PreflightAgreesWithReceiver
  <2>1. SUFFICES ASSUME IInv, NEW f \in Filings, filing[f] # "none"
                 PROVE  LET record == Detail(FilingRow(dataset.rows, f))
                        IN  filing[f] # "blocked_preflight" <=>
                              /\ ReadableRecord(record)
                              /\ resultFor(ReadRecord(record)) = "none"
    BY DEF PreflightAgreesWithReceiver
  <2>2. /\ Reportable(dataset.rows, f) \in Int64 /\ Withholding(dataset.rows, f) \in Int64
        /\ filing[f] = "blocked_preflight" <=> Preflight(dataset.rows, f) # "none"
    BY <2>1 DEF IInv, RuleInv, Decided
  <2>3. Withholding(dataset.rows, f) >= 0
    <3>1. Whole(dataset)
      BY <2>1 DEF IInv, DataInv
    <3>2. PICK file \in Files : ~Refused(file) /\ dataset.rows = file
      BY <3>1 DEF Whole
    <3>3. QED
      BY <3>2, ColumnsAreNumbers
  <2>4. QED
    BY <2>2, <2>3, OneRule
<1>2. QED
  BY <1>1, Safety, PTL

\* The explanation of a filing adds up to its amounts, since these fit a bigint.
LEMMA ExplanationsAgree ==
    ASSUME IInv, NEW f \in Filings
    PROVE  ExplanationAgrees(f)
<1> SUFFICES ASSUME filing[f] # "none"
             PROVE  PaymentExplanation(dataset.rows, f) =
                        [reportable |-> Reportable(dataset.rows, f),
                         withheld |-> Withholding(dataset.rows, f)]
  BY DEF ExplanationAgrees
<1>1. Reportable(dataset.rows, f) \in Int64 /\ Withholding(dataset.rows, f) \in Int64
  BY DEF IInv, RuleInv, Decided
<1>2. PICK file \in Files : ~Refused(file) /\ dataset.rows = file
  BY DEF IInv, DataInv, Whole
<1>3. /\ CountedAmounts(file, f) \in Seq(Int)
      /\ WithheldAmounts(file, f) \in Seq(Int)
  <2>1. \A s \in Seq(Nat) : s \in Seq(Int)
    OBVIOUS
  <2> QED
    BY <1>2, <2>1, ColumnsAreNumbers
<1>4. /\ WrappedTotal(CountedAmounts(file, f)) = Total(CountedAmounts(file, f))
      /\ WrappedTotal(WithheldAmounts(file, f)) = Total(WithheldAmounts(file, f))
  BY <1>1, <1>2, <1>3, WrappedIsTotal DEF Reportable, Withholding
<1> QED
  BY <1>2, <1>4 DEF PaymentExplanation, Reportable, Withholding

-----------------------------------------------------------------------------
(* Filings in order *)

\* In a list of filings no filing stands behind one with a higher key.
Sorted(s) ==
    \A i, j \in DOMAIN s : i < j => Position(s[i]) < Position(s[j])

\* Every filing has one position in the canonical order.
LEMMA PositionIsIndex ==
    /\ Len(FilingOrder) \in Nat /\ DOMAIN FilingOrder = 1..Len(FilingOrder)
    /\ Filings = {FilingOrder[n] : n \in 1..Len(FilingOrder)}
    /\ \A n \in 1..Len(FilingOrder) : Position(FilingOrder[n]) = n
    /\ \A f \in Filings : Position(f) \in 1..Len(FilingOrder) /\ FilingOrder[Position(f)] = f
<1>1. Len(FilingOrder) \in Nat /\ DOMAIN FilingOrder = 1..Len(FilingOrder)
  BY FilingOrderIsClientMajor
<1>2. Filings = {FilingOrder[n] : n \in 1..Len(FilingOrder)}
  BY <1>1, Zenon DEF Filings, ToSet
<1>3. \A i, j \in 1..Len(FilingOrder) : FilingOrder[i] = FilingOrder[j] => i = j
  BY <1>1, FilingOrderIsClientMajor
<1>4. \A n \in 1..Len(FilingOrder) : Position(FilingOrder[n]) = n
  BY <1>1, <1>3 DEF Position
<1> QED
  BY <1>1, <1>2, <1>4

\* The first n filings of the order, as far as they are in fs.
IsUpTo(s, fs, n) ==
    /\ s \in Seq(Filings) /\ Sorted(s)
    /\ \A i \in DOMAIN s : s[i] \in fs /\ Position(s[i]) <= n
    /\ \A m \in 1..n : FilingOrder[m] \in fs => \E i \in DOMAIN s : s[i] = FilingOrder[m]

\* Going one filing further appends it, or leaves it out.
LEMMA OneMoreInOrder ==
    ASSUME NEW fs \in SUBSET Filings, NEW n \in 1..Len(FilingOrder), NEW s,
           IsUpTo(s, fs, n - 1)
    PROVE  IsUpTo(IF FilingOrder[n] \in fs THEN Append(s, FilingOrder[n]) ELSE s, fs, n)
<1>1. /\ n \in Nat /\ n - 1 \in Nat /\ FilingOrder[n] \in Filings /\ Position(FilingOrder[n]) = n
      /\ 1..n = (1..(n - 1)) \cup {n}
  BY PositionIsIndex
<1>2. /\ s \in Seq(Filings) /\ Len(s) \in Nat /\ DOMAIN s = 1..Len(s)
      /\ \A i \in 1..Len(s) : s[i] \in fs /\ Position(s[i]) <= n - 1 /\ Position(s[i]) \in Nat
      /\ \A i, j \in 1..Len(s) : i < j => Position(s[i]) < Position(s[j])
      /\ \A m \in 1..(n - 1) : FilingOrder[m] \in fs => \E i \in 1..Len(s) : s[i] = FilingOrder[m]
  <2>1. /\ s \in Seq(Filings) /\ Len(s) \in Nat /\ DOMAIN s = 1..Len(s)
    BY DEF IsUpTo
  <2>2. \A f \in Filings : Position(f) \in Nat
    BY PositionIsIndex
  <2> QED
    BY <2>1, <2>2 DEF IsUpTo, Sorted
<1>3. CASE FilingOrder[n] \notin fs
  <2>1. \A i \in 1..Len(s) : Position(s[i]) <= n
    BY <1>1, <1>2
  <2>2. \A m \in 1..n : FilingOrder[m] \in fs => \E i \in 1..Len(s) : s[i] = FilingOrder[m]
    BY <1>1, <1>2, <1>3
  <2> QED
    BY <1>2, <1>3, <2>1, <2>2 DEF IsUpTo, Sorted
<1>4. CASE FilingOrder[n] \in fs
  <2> DEFINE t == Append(s, FilingOrder[n])
             k == Len(s) + 1
  <2>1. /\ t \in Seq(Filings) /\ Len(t) = k /\ DOMAIN t = 1..k /\ t[k] = FilingOrder[n]
        /\ \A i \in 1..Len(s) : t[i] = s[i]
        /\ 1..k = (1..Len(s)) \cup {k} /\ k \in Nat
    BY <1>1, <1>2
  <2> HIDE DEF t, k
  <2>2. ASSUME NEW i \in 1..k PROVE t[i] \in fs /\ Position(t[i]) <= n
    <3>1. CASE i = k
      BY <1>1, <1>4, <2>1, <3>1
    <3>2. CASE i # k
      <4>1. i \in 1..Len(s)
        BY <2>1, <3>2
      <4>2. t[i] = s[i] /\ s[i] \in fs /\ Position(s[i]) <= n - 1 /\ Position(s[i]) \in Nat
        BY <1>2, <2>1, <4>1
      <4> QED
        BY <1>1, <4>2
    <3> QED
      BY <3>1, <3>2
  <2>3. ASSUME NEW i \in 1..k, NEW j \in 1..k, i < j PROVE Position(t[i]) < Position(t[j])
    <3>1. i \in 1..Len(s)
      BY <1>2, <2>1, <2>3 DEF k
    <3>2. CASE j = k
      <4>1. Position(t[j]) = n /\ Position(t[i]) <= n - 1 /\ Position(t[i]) \in Nat
        BY <1>1, <1>2, <2>1, <3>1, <3>2
      <4> QED
        BY <1>1, <4>1
    <3>3. CASE j # k
      BY <1>2, <2>1, <2>3, <3>1, <3>3
    <3> QED
      BY <3>2, <3>3
  <2>4. ASSUME NEW m \in 1..n, FilingOrder[m] \in fs
        PROVE  \E i \in 1..k : t[i] = FilingOrder[m]
    <3>1. CASE m = n
      BY <2>1, <3>1
    <3>2. CASE m # n
      <4>1. PICK i \in 1..Len(s) : s[i] = FilingOrder[m]
        BY <1>1, <1>2, <2>4, <3>2
      <4>2. i \in 1..k /\ t[i] = FilingOrder[m]
        BY <2>1, <4>1
      <4> QED
        BY <4>2
    <3> QED
      BY <3>1, <3>2
  <2>5. IsUpTo(t, fs, n)
    BY <2>1, <2>2, <2>3, <2>4, Zenon DEF IsUpTo, Sorted
  <2> QED
    BY <1>4, <2>5 DEF t
<1> QED
  BY <1>3, <1>4

\* The rows a plan reads: the filings asked for, each once, in key order.
LEMMA InOrderIsSorted ==
    ASSUME NEW fs \in SUBSET Filings
    PROVE  /\ InOrder(fs) \in Seq(Filings) /\ Sorted(InOrder(fs))
           /\ {InOrder(fs)[i] : i \in DOMAIN InOrder(fs)} = fs
<1> DEFINE N == Len(FilingOrder)
           Lists == Seq(Filings)
           Pass(n, s) == IF FilingOrder[n] \in fs THEN Append(s, FilingOrder[n]) ELSE s
           step == [x \in (1..N) \X Lists |-> Pass(x[1], x[2])]
           Loop(g) == [n \in 0..N |-> IF n = 0 THEN <<>> ELSE Pass(n, g[n - 1])]
<1>1. N \in Nat /\ \A n \in 1..N : FilingOrder[n] \in Filings
  BY PositionIsIndex
<1> HIDE DEF N
<1>2. <<>> \in Lists /\ step \in [(1..N) \X Lists -> Lists]
  <2>1. ASSUME NEW n \in 1..N, NEW s \in Lists PROVE Pass(n, s) \in Lists
    BY <1>1
  <2> HIDE DEF Lists, Pass
  <2>2. <<>> \in Lists
    BY DEF Lists
  <2> QED
    BY <2>1, <2>2
<1>3. PICK g \in [0..N -> Lists] : IsComputedBy(g, N, <<>>, step)
  <2> HIDE DEF step, Lists
  <2> QED
    BY <1>1, <1>2, PrefixRecursion
<1> HIDE DEF Lists, Pass
<1>4. \A n \in 1..N : n - 1 \in 0..N /\ step[<<n, g[n - 1]>>] = Pass(n, g[n - 1])
  BY <1>1
<1> HIDE DEF step
<1>5. \A n \in 0..N : g[n] = IF n = 0 THEN <<>> ELSE Pass(n, g[n - 1])
  <2>1. \A n \in 0..N : n # 0 => n \in 1..N
    BY <1>1
  <2> QED
    BY <1>3, <1>4, <2>1, Zenon DEF IsComputedBy
<1>6. g = Loop(g)
  <2>1. g = [n \in 0..N |-> g[n]]
    OBVIOUS
  <2> QED
    BY <2>1, <1>5
<1> DEFINE upTo == CHOOSE h : h = Loop(h)
<1>7. InOrder(fs) = upTo[N]
  BY DEF InOrder, N, Pass
<1> HIDE DEF Loop
<1>8. upTo = Loop(upTo)
  BY <1>6
<1> HIDE DEF upTo
<1>9. upTo[0] = <<>> /\ \A n \in 1..N : upTo[n] = Pass(n, upTo[n - 1])
  <2>1. \A n \in 0..N : upTo[n] = IF n = 0 THEN <<>> ELSE Pass(n, upTo[n - 1])
    BY <1>8 DEF Loop
  <2>2. 0 \in 0..N /\ \A n \in 1..N : n \in 0..N /\ n # 0
    BY <1>1
  <2> QED
    BY <2>1, <2>2, Zenon
<1> DEFINE S == {n \in 0..N : IsUpTo(upTo[n], fs, n)}
<1>10. 0 \in S
  <2>1. IsUpTo(<<>>, fs, 0)
    BY DEF IsUpTo, Sorted
  <2> QED
    BY <1>1, <1>9, <2>1
<1>11. \A n \in 1..N : n - 1 \in S => n \in S
  <2> SUFFICES ASSUME NEW n \in 1..N, n - 1 \in S PROVE n \in S
    OBVIOUS
  <2>1. IsUpTo(upTo[n - 1], fs, n - 1) /\ upTo[n] = Pass(n, upTo[n - 1]) /\ n \in 0..N
    BY <1>1, <1>9
  <2>2. IsUpTo(Pass(n, upTo[n - 1]), fs, n)
    BY <2>1, OneMoreInOrder DEF N, Pass
  <2> QED
    BY <2>1, <2>2
<1> HIDE DEF S
<1>12. 0..N \subseteq S
  BY <1>1, <1>10, <1>11, PrefixInduction
<1>13. IsUpTo(InOrder(fs), fs, N)
  BY <1>1, <1>7, <1>12 DEF S
<1>14. fs \subseteq {FilingOrder[n] : n \in 1..N}
  BY PositionIsIndex DEF N
<1> QED
  BY <1>13, <1>14 DEF IsUpTo

-----------------------------------------------------------------------------
(* The groups of a sorted list *)

\* The inner loop ends: behind at least one filing, all of one client.
LEMMA GroupEndIs ==
    ASSUME NEW s \in Seq(Filings), NEW start \in 1..Len(s)
    PROVE  /\ GroupEnd(s, start) \in start + 1 .. Len(s) + 1
           /\ GroupEnd(s, start) - start <= MaxBatch
           /\ \A i \in start .. GroupEnd(s, start) - 1 : s[i].client = s[start].client
<1> DEFINE L == Len(s)
           Ends(end) == /\ end - start <= MaxBatch
                        /\ \A i \in start .. end - 1 : s[i].client = s[start].client
                        /\ end <= L => \/ end - start = MaxBatch
                                       \/ s[end].client # s[start].client
           T == {e \in start + 1 .. L + 1 :
                    e = L + 1 \/ e - start = MaxBatch \/ s[e].client # s[start].client}
<1>1. L \in Nat /\ MaxBatch \in Nat \ {0} /\ start \in 1..L
  BY Limits
<1> HIDE DEF L
<1>2. L + 1 \in T /\ T \in SUBSET Nat
  BY <1>1
<1>3. PICK e \in T : \A x \in T : e <= x
  <2> HIDE DEF T
  <2> QED
    BY <1>2, LeastNatural
<1>4. e \in start + 1 .. L + 1 /\ e \in Nat
  BY <1>1, <1>3
<1>5. e - start <= MaxBatch
  <2> SUFFICES ASSUME e - start > MaxBatch PROVE FALSE
    BY <1>1, <1>4
  <2>1. start + MaxBatch \in T
    BY <1>1, <1>4
  <2> HIDE DEF T
  <2> QED
    BY <1>1, <1>3, <1>4, <2>1
<1>6. ASSUME NEW i \in start .. e - 1 PROVE s[i].client = s[start].client
  <2>1. CASE i = start
    BY <2>1
  <2>2. CASE i # start
    <3>1. i \in start + 1 .. L + 1 /\ i < e
      BY <1>1, <1>4, <2>2
    <3>2. i \notin T
      <4> HIDE DEF T
      <4> QED
        BY <1>1, <1>3, <1>4, <3>1
    <3> QED
      BY <3>1, <3>2
  <2> QED
    BY <2>1, <2>2
<1>7. e <= L => \/ e - start = MaxBatch
                \/ s[e].client # s[start].client
  BY <1>1, <1>3, <1>4
<1>8. Ends(e)
  BY <1>5, <1>6, <1>7
<1>9. GroupEnd(s, start) = CHOOSE end \in start + 1 .. L + 1 : Ends(end)
  BY DEF GroupEnd, L
<1> HIDE DEF Ends
<1>10. GroupEnd(s, start) \in start + 1 .. L + 1 /\ Ends(GroupEnd(s, start))
  BY <1>4, <1>8, <1>9
<1> QED
  BY <1>10 DEF Ends, L

\* The outer loop begins with the first filing, makes way with each pass, and
\* comes to the end.
LEMMA StartsAdvance ==
    ASSUME NEW s \in Seq(Filings)
    PROVE  /\ Starts(s) \in [0..Len(s) -> 1..Len(s) + 1]
           /\ Starts(s)[0] = 1 /\ Starts(s)[Len(s)] = Len(s) + 1
           /\ \A n \in 1..Len(s) :
                Starts(s)[n] = IF Starts(s)[n - 1] > Len(s) THEN Starts(s)[n - 1]
                               ELSE GroupEnd(s, Starts(s)[n - 1])
           /\ \A n \in 1..Len(s) : \A m \in 0..n : Starts(s)[m] <= Starts(s)[n]
<1> DEFINE L == Len(s)
           Places == 1..L + 1
           Pass(p) == IF p > L THEN p ELSE GroupEnd(s, p)
           step == [x \in (1..L) \X Places |-> Pass(x[2])]
           Loop(g) == [n \in 0..L |-> IF n = 0 THEN 1 ELSE Pass(g[n - 1])]
           after == Starts(s)
<1>1. L \in Nat
  OBVIOUS
<1>2. \A p \in Places : Pass(p) \in Places /\ p <= Pass(p) /\ (p <= L => p + 1 <= Pass(p))
  <2> SUFFICES ASSUME NEW p \in Places
               PROVE  Pass(p) \in Places /\ p <= Pass(p) /\ (p <= L => p + 1 <= Pass(p))
    OBVIOUS
  <2>1. CASE p > L
    BY <1>1, <2>1
  <2>2. CASE ~(p > L)
    <3>1. p \in 1..L
      BY <1>1, <2>2
    <3>2. GroupEnd(s, p) \in p + 1 .. L + 1
      BY <3>1, GroupEndIs
    <3>3. Pass(p) \in p + 1 .. L + 1
      BY <2>2, <3>2
    <3> HIDE DEF Pass, L
    <3> QED
      BY <1>1, <3>1, <3>3
  <2> QED
    BY <2>1, <2>2
<1>3. 1 \in Places
  BY <1>1
<1>4. Starts(s) = CHOOSE h : h = Loop(h)
  BY DEF Starts
<1> HIDE DEF L, Places, Pass
<1>5. step \in [(1..L) \X Places -> Places]
  BY <1>2
<1>6. PICK g \in [0..L -> Places] : IsComputedBy(g, L, 1, step)
  <2> HIDE DEF step
  <2> QED
    BY <1>1, <1>3, <1>5, PrefixRecursion
<1>7. \A n \in 1..L : n - 1 \in 0..L /\ step[<<n, g[n - 1]>>] = Pass(g[n - 1])
  BY <1>1
<1> HIDE DEF step
<1>8. g = Loop(g)
  <2>1. g = [n \in 0..L |-> g[n]]
    OBVIOUS
  <2>2. \A n \in 0..L : n # 0 => n \in 1..L
    BY <1>1
  <2>3. \A n \in 0..L : g[n] = IF n = 0 THEN 1 ELSE Pass(g[n - 1])
    BY <1>6, <1>7, <2>2, Zenon DEF IsComputedBy
  <2> QED
    BY <2>1, <2>3
<1> HIDE DEF Loop
<1>9. after = Loop(after)
  BY <1>4, <1>8
<1> HIDE DEF after
<1>10. after[0] = 1 /\ (\A n \in 1..L : after[n] = Pass(after[n - 1])) /\ DOMAIN after = 0..L
       /\ after = [n \in 0..L |-> after[n]]
  <2>1. after = [n \in 0..L |-> IF n = 0 THEN 1 ELSE Pass(after[n - 1])]
    BY <1>9 DEF Loop
  <2>2. 0 \in 0..L /\ \A n \in 1..L : n \in 0..L /\ n # 0
    BY <1>1
  <2>3. \A n \in 0..L : after[n] = IF n = 0 THEN 1 ELSE Pass(after[n - 1])
    BY <2>1
  <2>4. DOMAIN after = 0..L /\ after = [n \in 0..L |-> after[n]]
    BY <2>1
  <2> QED
    BY <2>2, <2>3, <2>4, Zenon
<1> DEFINE S == {n \in 0..L : after[n] \in Places /\ after[n] >= n + 1}
<1>11. 0..L \subseteq S
  <2>1. 0 \in S
    BY <1>1, <1>3, <1>10
  <2>2. ASSUME NEW n \in 1..L, n - 1 \in S PROVE n \in S
    <3>1. after[n] = Pass(after[n - 1]) /\ after[n - 1] \in Places /\ after[n - 1] >= n
      <4>1. after[n - 1] \in Places /\ after[n - 1] >= (n - 1) + 1
        BY <2>2
      <4>2. (n - 1) + 1 = n
        BY <1>1
      <4> QED
        BY <1>10, <4>1, <4>2
    <3>2. after[n] \in Places /\ after[n - 1] <= after[n]
          /\ (after[n - 1] <= L => after[n - 1] + 1 <= after[n])
      BY <1>2, <3>1
    <3>3. after[n] \in Nat /\ after[n - 1] \in Nat /\ n \in 0..L /\ n \in Nat
      BY <1>1, <3>1, <3>2 DEF Places
    <3>4. after[n] >= n + 1
      <4>1. CASE after[n - 1] <= L
        BY <3>1, <3>2, <3>3, <4>1
      <4>2. CASE ~(after[n - 1] <= L)
        BY <1>1, <3>2, <3>3, <4>2
      <4> QED
        BY <4>1, <4>2
    <3> QED
      BY <3>2, <3>3, <3>4
  <2> HIDE DEF S
  <2> QED
    BY <1>1, <2>1, <2>2, PrefixInduction
<1>12. after \in [0..L -> Places]
  BY <1>10, <1>11
<1>13. after[L] = L + 1
  BY <1>1, <1>11 DEF Places
<1> DEFINE R == {n \in 0..L : \A m \in 0..n : after[m] <= after[n]}
<1>14. 0..L \subseteq R
  <2>1. 0 \in R
    BY <1>1, <1>10
  <2>2. ASSUME NEW n \in 1..L, n - 1 \in R PROVE n \in R
    <3>1. after[n - 1] <= after[n] /\ after[n - 1] \in Nat /\ after[n] \in Nat
      <4>1. n - 1 \in 0..L /\ n \in 0..L /\ Places \subseteq Nat
        BY <1>1 DEF Places
      <4>2. after[n - 1] \in Places /\ after[n] \in Places /\ after[n] = Pass(after[n - 1])
        BY <1>10, <1>12, <4>1
      <4> QED
        BY <1>2, <4>1, <4>2
    <3>2. ASSUME NEW m \in 0..n PROVE after[m] <= after[n]
      <4>1. CASE m = n
        BY <3>1, <4>1
      <4>2. CASE m # n
        <5>1. m \in 0..(n - 1) /\ after[m] \in Nat
          BY <1>1, <1>12, <4>2 DEF Places
        <5>2. after[m] <= after[n - 1]
          BY <2>2, <5>1
        <5> QED
          BY <3>1, <5>1, <5>2
      <4> QED
        BY <4>1, <4>2
    <3> QED
      BY <3>2
  <2> HIDE DEF R
  <2> QED
    BY <1>1, <2>1, <2>2, PrefixInduction
<1>15. \A n \in 1..L : after[n] = IF after[n - 1] > L THEN after[n - 1] ELSE GroupEnd(s, after[n - 1])
  BY <1>10 DEF Pass
<1>16. \A n \in 1..L : \A m \in 0..n : after[m] <= after[n]
  BY <1>1, <1>14
<1> QED
  BY <1>10, <1>12, <1>13, <1>15, <1>16 DEF L, Places, after

\* What the transmission side relies on, of one batch.
IsBatch(g) ==
    /\ g \in Seq(Filings) /\ Len(g) \in 1..MaxBatch /\ Sorted(g)
    /\ \A i, j \in DOMAIN g : g[i].client = g[j].client

Members(g) == {g[i] : i \in DOMAIN g}

\* A sorted list names nothing twice.
LEMMA SortedIsInjective ==
    ASSUME NEW s \in Seq(Filings), Sorted(s), NEW i \in 1..Len(s), NEW j \in 1..Len(s),
           s[i] = s[j]
    PROVE  i = j
<1>1. Position(s[i]) \in Nat /\ Position(s[j]) = Position(s[i])
  BY PositionIsIndex
<1>2. ~(i < j) /\ ~(j < i)
  BY <1>1 DEF Sorted
<1> QED
  BY <1>2

\* A pass of the outer loop makes a batch of what lies between two starts.
LEMMA PassIsBatch ==
    ASSUME NEW s \in Seq(Filings), Sorted(s), NEW n \in 1..Len(s),
           Starts(s)[n - 1] <= Len(s)
    PROVE  LET a == Starts(s)[n - 1]
               b == Starts(s)[n]
               g == SubSeq(s, a, b - 1)
           IN  /\ IsBatch(g)
               /\ Members(g) = {s[i] : i \in a .. b - 1}
               /\ a \in 1..Len(s) /\ b \in a + 1 .. Len(s) + 1
<1> DEFINE L == Len(s)
           a == Starts(s)[n - 1]
           b == Starts(s)[n]
           g == SubSeq(s, a, b - 1)
<1>1. L \in Nat /\ n - 1 \in 0..L /\ a \in 1..L
  <2>1. L \in Nat /\ n - 1 \in 0..L
    OBVIOUS
  <2>2. Starts(s) \in [0..L -> 1..L + 1]
    BY StartsAdvance
  <2> HIDE DEF L
  <2>3. a \in 1..L + 1
    BY <2>1, <2>2
  <2> QED
    BY <2>1, <2>3 DEF L
<1>2. b = GroupEnd(s, a)
  BY <1>1, StartsAdvance
<1>3. /\ b \in a + 1 .. L + 1 /\ b - a <= MaxBatch
      /\ \A i \in a .. b - 1 : s[i].client = s[a].client
  BY <1>1, <1>2, GroupEndIs
<1>4. \A i \in 1..L : s[i] \in Filings
  OBVIOUS
<1>5. /\ Len(g) = b - a /\ DOMAIN g = 1..(b - a)
      /\ \A i \in 1..(b - a) : g[i] = s[a + i - 1]
  <2> HIDE DEF a, b
  <2> QED
    BY <1>1, <1>3
<1>6. g \in Seq(Filings)
  <2> HIDE DEF a, b
  <2> QED
    BY <1>1, <1>3
<1> HIDE DEF a, b, g, L
<1>7. \A i \in 1..(b - a) : a + i - 1 \in a .. b - 1 /\ a + i - 1 \in 1..L
  BY <1>1, <1>3
<1>8. \A i \in a .. b - 1 : i - a + 1 \in 1..(b - a) /\ a + (i - a + 1) - 1 = i
  BY <1>1, <1>3
<1>9. Members(g) = {s[i] : i \in a .. b - 1}
  <2>1. ASSUME NEW f \in Members(g) PROVE f \in {s[i] : i \in a .. b - 1}
    BY <1>5, <1>7 DEF Members
  <2>2. ASSUME NEW i \in a .. b - 1 PROVE s[i] \in Members(g)
    <3>1. g[i - a + 1] = s[i]
      BY <1>5, <1>8
    <3> QED
      BY <1>5, <1>8, <3>1 DEF Members
  <2> QED
    BY <2>1, <2>2
<1>10. Len(g) \in 1..MaxBatch
  BY <1>1, <1>3, <1>5, Limits
<1>11. \A i, j \in DOMAIN g : g[i].client = g[j].client
  <2>1. ASSUME NEW i \in DOMAIN g PROVE g[i].client = s[a].client
    <3>1. g[i] = s[a + i - 1] /\ i \in 1..(b - a)
      BY <1>5
    <3>2. a + i - 1 \in a .. b - 1
      BY <1>7, <3>1
    <3> QED
      BY <1>3, <3>1, <3>2
  <2> QED
    BY <2>1
<1>12. Sorted(g)
  <2> SUFFICES ASSUME NEW i \in DOMAIN g, NEW j \in DOMAIN g, i < j
               PROVE  Position(g[i]) < Position(g[j])
    BY DEF Sorted
  <2>1. a + i - 1 \in 1..L /\ a + j - 1 \in 1..L /\ a + i - 1 < a + j - 1
        /\ g[i] = s[a + i - 1] /\ g[j] = s[a + j - 1]
    <3>1. i \in 1..(b - a) /\ j \in 1..(b - a)
      BY <1>5
    <3>2. g[i] = s[a + i - 1] /\ g[j] = s[a + j - 1]
      BY <1>5, <3>1
    <3>3. a + i - 1 \in 1..L /\ a + j - 1 \in 1..L
      BY <1>7, <3>1
    <3>4. a \in Int /\ b \in Int
      BY <1>1, <1>3
    <3>5. a + i - 1 < a + j - 1
      BY <3>1, <3>4
    <3> QED
      BY <3>2, <3>3, <3>5
  <2> QED
    BY <2>1 DEF Sorted, L
<1> QED
  BY <1>1, <1>3, <1>6, <1>9, <1>10, <1>11, <1>12, Zenon DEF IsBatch, a, b, g, L

\* Two slices, one behind the other, have no place in common.
LEMMA SlicesAreApart ==
    ASSUME NEW L \in Nat, NEW a \in 1..L, NEW b \in a + 1 .. L + 1, NEW c \in 1..L,
           NEW d \in c + 1 .. L + 1, b <= c
    PROVE  \A i \in a .. b - 1, j \in c .. d - 1 : i \in 1..L /\ j \in 1..L /\ i # j
OBVIOUS

\* PlanBatches puts each filing that it read into exactly one batch.
LEMMA GroupsPartition ==
    ASSUME NEW fs \in SUBSET Filings
    PROVE  LET groups == Groups(InOrder(fs))
           IN  /\ IsFiniteSet(groups)
               /\ \A g \in groups : IsBatch(g) /\ Members(g) \subseteq fs
               /\ \A f \in fs : \E g \in groups : f \in Members(g)
               /\ \A g, h \in groups : g # h => Members(g) \cap Members(h) = {}
<1> DEFINE s == InOrder(fs)
           L == Len(s)
           start == Starts(s)
           Passes == {m \in 1..L : start[m - 1] <= L}
           Batch(n) == SubSeq(s, start[n - 1], start[n] - 1)
           groups == Groups(s)
<1>1. s \in Seq(Filings) /\ Sorted(s) /\ fs = {s[i] : i \in 1..L} /\ L \in Nat
  BY InOrderIsSorted
<1>2. groups = {Batch(n) : n \in Passes}
  BY DEF Groups
<1> HIDE DEF s
<1>3. \A n \in Passes : /\ IsBatch(Batch(n))
                        /\ Members(Batch(n)) = {s[i] : i \in start[n - 1] .. start[n] - 1}
                        /\ start[n - 1] \in 1..L /\ start[n] \in start[n - 1] + 1 .. L + 1
  BY <1>1, PassIsBatch
<1>4. /\ start \in [0..L -> 1..L + 1] /\ start[0] = 1 /\ start[L] = L + 1
      /\ \A n \in 1..L : \A m \in 0..n : start[m] <= start[n]
  BY <1>1, StartsAdvance
<1> HIDE DEF groups, Batch, start, L
<1>5. IsFiniteSet(groups)
  <2>1. IsFiniteSet(Passes)
    <3>1. IsFiniteSet(1..L)
      BY <1>1, FS_Interval
    <3> QED
      BY <3>1, FS_Subset
  <2> DEFINE batch == [n \in Passes |-> Batch(n)]
  <2>2. batch \in Surjection(Passes, groups)
    BY <1>2 DEF Surjection
  <2> HIDE DEF batch, Passes
  <2> QED
    BY <2>1, <2>2, FS_Surjection
<1>6. ASSUME NEW g \in groups PROVE IsBatch(g) /\ Members(g) \subseteq fs
  <2>1. PICK n \in Passes : g = Batch(n)
    BY <1>2
  <2>2. start[n - 1] .. start[n] - 1 \subseteq 1..L
    BY <1>1, <1>3
  <2> QED
    BY <1>1, <1>3, <2>1, <2>2
<1>7. ASSUME NEW f \in fs PROVE \E g \in groups : f \in Members(g)
  <2>1. PICK i \in 1..L : f = s[i]
    BY <1>1
  <2> DEFINE T == {n \in 0..L : start[n] > i}
  <2>2. L \in T /\ T \in SUBSET Nat
    BY <1>1, <1>4
  <2>3. PICK n \in T : \A m \in T : n <= m
    <3> HIDE DEF T
    <3> QED
      BY <2>2, LeastNatural
  <2>4. n \in 1..L /\ start[n] > i /\ n - 1 \in 0..L /\ n - 1 \notin T
    <3>1. 0 \notin T
      BY <1>1, <1>4
    <3>2. n \in 0..L /\ start[n] > i /\ n # 0
      BY <2>3, <3>1
    <3>3. n - 1 \notin T
      <4> HIDE DEF T
      <4> QED
        BY <1>1, <2>3, <3>2
    <3> QED
      BY <1>1, <3>2, <3>3
  <2>5. start[n - 1] \in 1..L + 1 /\ start[n] \in 1..L + 1 /\ start[n - 1] <= i
    BY <1>1, <1>4, <2>4
  <2>6. n \in Passes /\ i \in start[n - 1] .. start[n] - 1
    BY <1>1, <2>1, <2>4, <2>5
  <2> QED
    BY <1>2, <1>3, <2>1, <2>6
<1>8. ASSUME NEW g \in groups, NEW h \in groups, g # h PROVE Members(g) \cap Members(h) = {}
  <2>1. PICK n \in Passes : g = Batch(n)
    BY <1>2
  <2>2. PICK m \in Passes : h = Batch(m)
    BY <1>2
  <2>3. ASSUME NEW p \in Passes, NEW q \in Passes, p < q
        PROVE  Members(Batch(p)) \cap Members(Batch(q)) = {}
    <3>1. start[p] <= start[q - 1]
      <4>1. q - 1 \in 1..L /\ p \in 0 .. q - 1
        BY <1>1, <2>3
      <4> QED
        BY <1>4, <4>1
    <3>2. \A i \in start[p - 1] .. start[p] - 1, j \in start[q - 1] .. start[q] - 1 :
             i \in 1..L /\ j \in 1..L /\ i # j
      <4>1. /\ start[p - 1] \in 1..L /\ start[p] \in start[p - 1] + 1 .. L + 1
            /\ start[q - 1] \in 1..L /\ start[q] \in start[q - 1] + 1 .. L + 1
        BY <1>3
      <4> DEFINE a == start[p - 1]
                 b == start[p]
                 c == start[q - 1]
                 d == start[q]
      <4>2. b <= c /\ L \in Nat
        BY <1>1, <3>1
      <4> HIDE DEF a, b, c, d
      <4> QED
        BY <4>1, <4>2, SlicesAreApart DEF a, b, c, d
    <3>3. \A i, j \in 1..L : s[i] = s[j] => i = j
      BY <1>1, SortedIsInjective DEF L
    <3> QED
      BY <1>3, <3>2, <3>3
  <2>4. n < m \/ m < n
    BY <1>1, <1>2, <1>8, <2>1, <2>2
  <2> QED
    BY <2>1, <2>2, <2>3, <2>4
<1> QED
  BY <1>5, <1>6, <1>7, <1>8 DEF groups, s

-----------------------------------------------------------------------------
(* The plan in the store *)

\* The batches hold exactly the batched filings, each of them once.
PlanInv ==
    /\ IsFiniteSet(batches)
    /\ \A g \in batches : IsBatch(g) /\ \A f \in Members(g) : filing[f] = "batched"
    /\ \A f \in Filings : filing[f] = "batched" => \E g \in batches : f \in Members(g)
    /\ \A g, h \in batches : g # h => Members(g) \cap Members(h) = {}

\* A lock has a holder only while its call is under way.
HeldInv ==
    \A op \in Operations : locks[op] # NoCaller =>
        call[locks[op]].op = op /\ pc[locks[op]] \in {"locked", "read"}

\* No planned batch is empty.
LEMMA BatchesHaveMembers ==
    ASSUME NEW g, IsBatch(g)
    PROVE  Members(g) # {} /\ Members(g) \subseteq Filings
<1>1. 1 \in DOMAIN g /\ DOMAIN g = 1..Len(g) /\ \A i \in 1..Len(g) : g[i] \in Filings
  BY Limits DEF IsBatch
<1> QED
  BY <1>1 DEF Members

\* As long as nothing is determined, nothing is planned.
LEMMA NothingPlannedYet ==
    ASSUME DataInv, PlanInv, ~determined
    PROVE  batches = {}
<1> SUFFICES ASSUME NEW g \in batches PROVE FALSE
  OBVIOUS
<1>1. PICK f \in Members(g) : f \in Filings
  BY BatchesHaveMembers DEF PlanInv
<1>2. filing[f] = "batched" /\ filing[f] = "none"
  BY <1>1 DEF PlanInv, DataInv
<1> QED
  BY <1>2

\* Determination decides filings before any of them is batched.
LEMMA FirstDeterminationKeepsPlan ==
    ASSUME IInv, PlanInv, NEW c \in Callers, pc[c] = "read", call[c].op = "determine",
           DetermineFirst(c)
    PROVE  PlanInv'
<1>1. determined = FALSE /\ dataset # NoFile
  BY DEF IInv, SeenInv, SeenIsSo, DetermineFirst, DataInv
<1>2. /\ filing' = [f \in Filings |-> FilingState(dataset.rows, f)]
      /\ batches' = batches
  BY <1>1, Zenon DEF DetermineFirst
<1>3. batches = {}
  BY <1>1, NothingPlannedYet DEF IInv
<1>4. \A f \in Filings : filing'[f] # "batched"
  BY <1>2 DEF FilingState
<1> QED
  BY <1>2, <1>3, <1>4 DEF PlanInv

\* What PlanBatches does when it succeeds, and it always succeeds.
LEMMA PlanEffect ==
    ASSUME IInv, NEW c \in Callers, PlanBatches(c)
    PROVE  /\ seen[c].plan \in SUBSET Filings
           /\ \A f \in seen[c].plan : filing[f] = "ready"
           /\ batches' = batches \cup Groups(InOrder(seen[c].plan))
           /\ filing' = [f \in Filings |-> IF f \in seen[c].plan THEN "batched" ELSE filing[f]]
           /\ UNCHANGED <<dataset, determined>>
           /\ ReturnCounts(c, "planned",
                 Append(seen[c].counts, Cardinality(Groups(InOrder(seen[c].plan)))))
<1>1. pc[c] = "read" /\ call[c].op = "plan"
  BY DEF PlanBatches
<1>2. \A f \in seen[c].plan : f \in Filings /\ filing[f] = "ready"
  BY <1>1 DEF IInv, SeenInv, SeenIsSo
<1>3. ~ \E f \in seen[c].plan : filing[f] # "ready"
  BY <1>2
<1> QED
  BY <1>2, <1>3, Zenon DEF PlanBatches

\* Planning adds the groups of the ready filings, which were in no batch.
LEMMA PlanningKeepsPlan ==
    ASSUME IInv, PlanInv, NEW c \in Callers, PlanBatches(c)
    PROVE  PlanInv'
<1> DEFINE planned == seen[c].plan
           groups == Groups(InOrder(planned))
<1>1. /\ planned \in SUBSET Filings
      /\ \A f \in planned : filing[f] = "ready"
      /\ batches' = batches \cup groups
      /\ filing' = [f \in Filings |-> IF f \in planned THEN "batched" ELSE filing[f]]
  BY PlanEffect
<1>2. /\ IsFiniteSet(groups)
      /\ \A g \in groups : IsBatch(g) /\ Members(g) \subseteq planned
      /\ \A f \in planned : \E g \in groups : f \in Members(g)
      /\ \A g, h \in groups : g # h => Members(g) \cap Members(h) = {}
  BY <1>1, GroupsPartition
<1> HIDE DEF groups, planned
<1>3. IsFiniteSet(batches')
  BY <1>1, <1>2, FS_Union DEF PlanInv
<1>4. ASSUME NEW g \in batches' PROVE IsBatch(g) /\ \A f \in Members(g) : filing'[f] = "batched"
  <2>1. CASE g \in batches
    <3>1. IsBatch(g) /\ Members(g) \subseteq Filings /\ \A f \in Members(g) : filing[f] = "batched"
      BY <2>1, BatchesHaveMembers DEF PlanInv
    <3> QED
      BY <1>1, <3>1
  <2>2. CASE g \in groups
    BY <1>1, <1>2, <2>2
  <2> QED
    BY <1>1, <2>1, <2>2
<1>5. ASSUME NEW f \in Filings, filing'[f] = "batched" PROVE \E g \in batches' : f \in Members(g)
  <2>1. CASE f \in planned
    BY <1>1, <1>2, <2>1
  <2>2. CASE f \notin planned
    BY <1>1, <1>5, <2>2 DEF PlanInv
  <2> QED
    BY <2>1, <2>2
<1>6. ASSUME NEW g \in batches, NEW h \in groups PROVE Members(g) \cap Members(h) = {}
  BY <1>1, <1>2 DEF PlanInv
<1>7. \A g, h \in batches' : g # h => Members(g) \cap Members(h) = {}
  BY <1>1, <1>2, <1>6 DEF PlanInv
<1> QED
  BY <1>3, <1>4, <1>5, <1>7, Zenon DEF PlanInv, IsBatch, Members, Sorted

\* Only a first determination and a plan touch filings and batches.
LEMMA OthersKeepFilings ==
    ASSUME NEW c \in Callers,
           \/ \E op \in Operations, file \in Files \cup {NoFile} : Request(c, op, file)
           \/ Lock(c) \/ Read(c) \/ ImportDataset(c) \/ Fail(c)
           \/ DetermineAgain(c) \/ DetermineNothing(c) \/ DetermineOverflows(c)
    PROVE  UNCHANGED <<filing, batches, determined>>
<1>1. ImportDataset(c) => UNCHANGED <<filing, batches, determined>>
  BY Zenon DEF ImportDataset, ImportRefused, ImportAgain, ImportFirst, tables
<1> QED
  BY <1>1, Zenon DEF Request, Lock, Read, Fail, DetermineAgain, DetermineNothing,
        DetermineOverflows, tables

\* The end of a transaction gives back its own lock and no other.
LEMMA ReturnKeepsHeld ==
    ASSUME LockInv, HeldInv, NEW c \in Callers, NEW result, NEW counts,
           ReturnCounts(c, result, counts)
    PROVE  HeldInv'
<1>1. /\ pc' = [pc EXCEPT ![c] = "idle"] /\ call' = [call EXCEPT ![c] = NoCall]
      /\ locks' = [op \in Operations |-> IF locks[op] = c THEN NoCaller ELSE locks[op]]
  BY DEF ReturnCounts, Goto
<1>2. \A d \in Callers : d # c => pc'[d] = pc[d] /\ call'[d] = call[d]
  BY <1>1 DEF LockInv
<1> SUFFICES ASSUME NEW op \in Operations, locks'[op] # NoCaller
             PROVE  call'[locks'[op]].op = op /\ pc'[locks'[op]] \in {"locked", "read"}
  BY DEF HeldInv
<1>3. locks'[op] = locks[op] /\ locks[op] # c /\ locks[op] \in Callers
  BY <1>1 DEF LockInv
<1> QED
  BY <1>2, <1>3 DEF HeldInv

\* A step leaves no lock behind whose call is over.
LEMMA NextHeld ==
    ASSUME IInv, HeldInv, NEW c \in Callers,
           \/ \E op \in Operations, file \in Files \cup {NoFile} : Request(c, op, file)
           \/ Lock(c) \/ Read(c) \/ ImportDataset(c) \/ DetermineDataset(c)
           \/ PlanBatches(c) \/ Fail(c)
    PROVE  HeldInv'
<1>1. LockInv
  BY DEF IInv
<1>2. CASE \E op \in Operations, file \in Files \cup {NoFile} : Request(c, op, file)
  <2>1. /\ pc[c] = "idle" /\ locks' = locks
        /\ \A d \in Callers : d # c => pc'[d] = pc[d] /\ call'[d] = call[d]
    BY <1>1, <1>2 DEF Request, Goto, LockInv
  <2>2. \A op \in Operations : locks[op] # NoCaller => locks[op] # c /\ locks[op] \in Callers
    BY <1>1, <2>1 DEF HeldInv, LockInv
  <2> QED
    BY <2>1, <2>2 DEF HeldInv
<1>3. CASE Lock(c)
  <2>1. /\ pc[c] = "waiting" /\ locks[call[c].op] = NoCaller
        /\ locks' = [locks EXCEPT ![call[c].op] = c]
        /\ pc' = [pc EXCEPT ![c] = "locked"] /\ call' = call
    BY <1>3 DEF Lock, Goto
  <2>2. pc'[c] = "locked" /\ \A d \in Callers : d # c => pc'[d] = pc[d]
    BY <1>1, <2>1 DEF LockInv
  <2> SUFFICES ASSUME NEW op \in Operations, locks'[op] # NoCaller
               PROVE  call'[locks'[op]].op = op /\ pc'[locks'[op]] \in {"locked", "read"}
    BY DEF HeldInv
  <2>3. CASE op = call[c].op
    BY <1>1, <2>1, <2>2, <2>3 DEF LockInv
  <2>4. CASE op # call[c].op
    <3>1. locks'[op] = locks[op] /\ locks[op] \in Callers /\ locks[op] # c
      BY <1>1, <2>1, <2>4 DEF LockInv, HeldInv
    <3> QED
      BY <2>1, <2>2, <3>1 DEF HeldInv
  <2> QED
    BY <2>3, <2>4
<1>4. CASE Read(c)
  <2>1. /\ pc[c] = "locked" /\ pc' = [pc EXCEPT ![c] = "read"] /\ locks' = locks /\ call' = call
    BY <1>4 DEF Read, Goto
  <2>2. pc'[c] = "read" /\ \A d \in Callers : d # c => pc'[d] = pc[d]
    BY <1>1, <2>1 DEF LockInv
  <2> QED
    BY <1>1, <2>1, <2>2 DEF HeldInv, LockInv
<1>5. CASE ImportDataset(c) \/ DetermineDataset(c) \/ PlanBatches(c) \/ Fail(c)
  <2>1. ImportDataset(c) => \E result, counts : ReturnCounts(c, result, counts)
    BY Zenon DEF ImportDataset, ImportRefused, ImportAgain, ImportFirst, Return
  <2>2. DetermineDataset(c) => \E result, counts : ReturnCounts(c, result, counts)
    BY Zenon DEF DetermineDataset, DetermineAgain, DetermineNothing, DetermineOverflows,
                 DetermineFirst, Return
  <2>3. PlanBatches(c) => \E result, counts : ReturnCounts(c, result, counts)
    BY PlanEffect, Zenon
  <2>4. Fail(c) => \E result, counts : ReturnCounts(c, result, counts)
    BY Zenon DEF Fail, Return
  <2> QED
    BY <1>1, <1>5, <2>1, <2>2, <2>3, <2>4, ReturnKeepsHeld
<1> QED
  BY <1>2, <1>3, <1>4, <1>5

\* A step plans whole batches, or leaves the plan alone.
LEMMA NextPlan ==
    ASSUME IInv, PlanInv, NEW c \in Callers,
           \/ \E op \in Operations, file \in Files \cup {NoFile} : Request(c, op, file)
           \/ Lock(c) \/ Read(c) \/ ImportDataset(c) \/ DetermineDataset(c)
           \/ PlanBatches(c) \/ Fail(c)
    PROVE  PlanInv'
<1>1. DetermineFirst(c) /\ DetermineDataset(c) => PlanInv'
  BY FirstDeterminationKeepsPlan DEF DetermineDataset
<1>2. PlanBatches(c) => PlanInv'
  BY PlanningKeepsPlan
<1>3. UNCHANGED <<filing, batches, determined>> => PlanInv'
  BY Zenon DEF PlanInv
<1>4. \/ \E op \in Operations, file \in Files \cup {NoFile} : Request(c, op, file)
      \/ Lock(c) \/ Read(c) \/ ImportDataset(c) \/ Fail(c)
      \/ DetermineAgain(c) \/ DetermineNothing(c) \/ DetermineOverflows(c)
      \/ (DetermineFirst(c) /\ DetermineDataset(c))
      \/ PlanBatches(c)
  BY Zenon DEF DetermineDataset
<1> QED
  BY <1>1, <1>2, <1>3, <1>4, OthersKeepFilings, Zenon

BooksInv == IInv /\ PlanInv /\ HeldInv

\* At first there is no plan and no lock.
LEMMA InitBooks == Init => BooksInv
<1> SUFFICES ASSUME Init PROVE BooksInv
  OBVIOUS
<1>1. PlanInv
  <2>1. batches = {} /\ \A f \in Filings : filing[f] = "none"
    BY DEF Init
  <2>2. IsFiniteSet({})
    BY FS_EmptySet
  <2> QED
    BY <2>1, <2>2 DEF PlanInv
<1>2. HeldInv
  BY DEF Init, HeldInv
<1> QED
  BY <1>1, <1>2, InitIsSafe DEF BooksInv

\* Types, locks and plan are kept together by every step.
LEMMA NextBooks == BooksInv /\ [Next]_vars => BooksInv'
<1> SUFFICES ASSUME BooksInv, [Next]_vars PROVE BooksInv'
  OBVIOUS
<1>1. IInv'
  BY StepIsSafe DEF BooksInv
<1>2. CASE Next
  <2>1. PICK c \in Callers :
           \/ \E op \in Operations, file \in Files \cup {NoFile} : Request(c, op, file)
           \/ Lock(c) \/ Read(c) \/ ImportDataset(c) \/ DetermineDataset(c)
           \/ PlanBatches(c) \/ Fail(c)
    BY <1>2, Zenon DEF Next
  <2>2. PlanInv'
    BY <2>1, NextPlan DEF BooksInv
  <2>3. HeldInv'
    BY <2>1, NextHeld DEF BooksInv
  <2> QED
    BY <1>1, <2>2, <2>3 DEF BooksInv
<1>3. CASE UNCHANGED vars
  BY <1>1, <1>3 DEF BooksInv, PlanInv, HeldInv, vars, tables
<1> QED
  BY <1>2, <1>3

\* Types, locks and plan are so in every reachable state.
LEMMA BooksInvariance == Spec => []BooksInv
BY InitBooks, NextBooks, PTL DEF Spec

(***************************************************************************)
(* Shapes, and locks that are held only by calls under way.                *)
(***************************************************************************)
THEOREM IntakeTypes == Spec => []TypeOK
<1>1. BooksInv => TypeOK
  <2> SUFFICES ASSUME BooksInv PROVE TypeOK
    OBVIOUS
  <2>1. dataset = NoFile \/ dataset.hash \in Files
    BY DEF BooksInv, IInv, DataInv, Whole
  <2>2. \A g \in batches : ToSet(g) \subseteq Filings
    BY BatchesHaveMembers DEF BooksInv, PlanInv, Members, ToSet
  <2> QED
    BY <2>1, <2>2, Zenon DEF TypeOK, BooksInv, IInv, LockInv, DataInv, HeldInv
<1> QED
  BY <1>1, BooksInvariance, PTL

(***************************************************************************)
(* Batches are disjoint, in key order, of one client, of at most MaxBatch  *)
(* filings, and hold exactly the batched filings, for any export, any      *)
(* number of planners and any failures: PlanBatches.                       *)
(***************************************************************************)
THEOREM PlansArePartitions == Spec => []PlanIsPartition
<1>1. BooksInv => PlanIsPartition
  <2> SUFFICES ASSUME BooksInv PROVE PlanIsPartition
    OBVIOUS
  <2>1. ASSUME NEW f \in Filings
        PROVE  Cardinality({g \in batches : f \in ToSet(g)})
                  = IF filing[f] = "batched" THEN 1 ELSE 0
    <3> DEFINE holding == {g \in batches : f \in ToSet(g)}
    <3>1. holding = {g \in batches : f \in Members(g)}
      BY DEF Members, ToSet
    <3> HIDE DEF holding
    <3>2. CASE filing[f] = "batched"
      <4>1. PICK g \in batches : f \in Members(g)
        BY <3>2 DEF BooksInv, PlanInv
      <4>2. holding = {g}
        BY <3>1, <4>1 DEF BooksInv, PlanInv
      <4>3. Cardinality(holding) = 1
        BY <4>2, FS_Singleton
      <4> QED
        BY <3>2, <4>3 DEF holding
    <3>3. CASE filing[f] # "batched"
      <4>1. holding = {}
        BY <3>1, <3>3 DEF BooksInv, PlanInv
      <4>2. Cardinality(holding) = 0
        BY <4>1, FS_EmptySet
      <4> QED
        BY <3>3, <4>2 DEF holding
    <3> QED
      BY <3>2, <3>3
  <2>2. ASSUME NEW g \in batches
        PROVE  /\ Len(g) \in 1..MaxBatch
               /\ \A i, j \in DOMAIN g :
                    /\ g[i].client = g[j].client
                    /\ i < j => Position(g[i]) < Position(g[j])
    BY DEF BooksInv, PlanInv, IsBatch, Sorted
  <2> QED
    BY <2>1, <2>2, Zenon DEF PlanIsPartition
<1> QED
  BY <1>1, BooksInvariance, PTL

\* A batched filing has amounts that both sides of the wire can write and read.
LEMMA BatchedAmounts ==
    ASSUME IInv, NEW f \in Filings, filing[f] = "batched"
    PROVE  /\ Reportable(dataset.rows, f) \in Amounts
           /\ Withholding(dataset.rows, f) \in Amounts
<1>1. /\ Reportable(dataset.rows, f) \in Int64 /\ Withholding(dataset.rows, f) \in Int64
      /\ Preflight(dataset.rows, f) = "none"
  BY DEF IInv, RuleInv, Decided
<1>2. PICK file \in Files : ~Refused(file) /\ dataset.rows = file
  BY DEF IInv, DataInv, Whole
<1>3. Withholding(dataset.rows, f) \in Nat
  BY <1>2, ColumnsAreNumbers
<1>4. ~(Reportable(dataset.rows, f) <= 0)
  BY <1>1 DEF Preflight
<1>5. \A n \in Int64 : n = -Word => n <= 0 /\ n \notin Nat
  BY WireLimits DEF Int64
<1> QED
  BY <1>1, <1>3, <1>4, <1>5 DEF Amounts

(***************************************************************************)
(* Every planned document is read by the receiver as what was planned:     *)
(* PlanBatches, canonicalXML and formatCents against decodeTransmission    *)
(* and parseCents, for any rows whose sums a bigint holds.                 *)
(***************************************************************************)
THEOREM PlansAreUnderstood == Spec => []DocumentsAreUnderstood
<1>1. BooksInv => DocumentsAreUnderstood
  <2> SUFFICES ASSUME BooksInv, NEW g \in batches
               PROVE  LET rows == [i \in DOMAIN g |-> FilingRow(dataset.rows, g[i])]
                          doc == DocumentOf(Firm, g[1].client, rows)
                          transmission == decodeTransmission(doc)
                      IN  /\ Readable(doc)
                          /\ transmission.firm = Firm
                          /\ transmission.records = rows
                          /\ \A i \in DOMAIN g : transmission.client = g[i].client
    BY DEF DocumentsAreUnderstood
  <2> DEFINE n == Len(g)
             rows == [i \in DOMAIN g |-> FilingRow(dataset.rows, g[i])]
             doc == DocumentOf(Firm, g[1].client, rows)
             Keys == Filings
             TINs == {RecipientTIN(f) : f \in Filings}
             Rows == [key : Keys, tin : TINs, reportable : Amounts, withheld : Amounts]
  <2>1. /\ g \in Seq(Filings) /\ n \in 1..MaxBatch /\ DOMAIN g = 1..n /\ Sorted(g)
        /\ \A i, j \in DOMAIN g : g[i].client = g[j].client
        /\ \A f \in Members(g) : filing[f] = "batched"
    BY DEF BooksInv, PlanInv, IsBatch
  <2>2. n \in 1..MaxRecords /\ 1 \in DOMAIN g
    BY <2>1, Limits, WireLimits
  <2>3. ASSUME NEW i \in 1..n PROVE FilingRow(dataset.rows, g[i]) \in Rows
    <3>1. g[i] \in Filings /\ filing[g[i]] = "batched"
      BY <2>1 DEF Members
    <3>2. /\ Reportable(dataset.rows, g[i]) \in Amounts
          /\ Withholding(dataset.rows, g[i]) \in Amounts
      BY <3>1, BatchedAmounts DEF BooksInv
    <3>3. RecipientTIN(g[i]) \in TINs
      BY <3>1
    <3> QED
      BY <3>1, <3>2, <3>3 DEF FilingRow
  <2>4. rows \in [1..n -> Rows]
    BY <2>1, <2>3
  <2>5. \A i, j \in 1..n : rows[i].key = rows[j].key => i = j
    <3>1. \A i \in 1..n : rows[i].key = g[i]
      BY <2>1 DEF FilingRow
    <3> QED
      BY <2>1, <3>1, SortedIsInjective
  <2> HIDE DEF rows, Keys, TINs, n
  <2>6. PICK client : client = g[1].client
    OBVIOUS
  <2>7. rows \in BatchRows(Keys, TINs, n)
    BY <2>4, <2>5 DEF BatchRows
  <2>8. IsReadAs(DocumentOf(Firm, client, rows), Firm, client, rows)
    BY <2>2, <2>7, DocumentSurvives
  <2> QED
    BY <2>1, <2>2, <2>6, <2>8 DEF rows, IsReadAs
<1> QED
  BY <1>1, BooksInvariance, PTL

\* The rows of a batch as the transmission side has them, and their keys.
RowsOf(g) == [i \in DOMAIN g |-> FilingRow(dataset.rows, g[i])]
KeysIn(g) == {row.key : row \in ToSet(RowsOf(g))}

\* What Exchange and FilingSystem assume of their plan, and that the receiver's rules
\* have nothing against any of its rows.
PlanIsTransmissible ==
    \A g \in batches :
        /\ RowsOf(g) \in Seq([key : KeysIn(g), tin : {row.tin : row \in ToSet(RowsOf(g))},
                              reportable : Int64 \ {-Word}, withheld : Int64 \ {-Word}])
        /\ Len(RowsOf(g)) \in 1..MaxRecords
        /\ \A i, j \in DOMAIN RowsOf(g) : RowsOf(g)[i].key = RowsOf(g)[j].key => i = j
        /\ \A h \in batches : g # h => KeysIn(g) \cap KeysIn(h) = {}
        /\ \A row \in ToSet(RowsOf(g)) : resultFor(row) = "none"

(***************************************************************************)
(* Every plan is one that Exchange's PlanIsPartition allows, so that what  *)
(* is proved of the transmission of any such plan holds for the plans that *)
(* are made; and the receiver will accept each of their rows: PlanBatches, *)
(* DetermineDataset's preflight and the stub's resultFor.                  *)
(***************************************************************************)
THEOREM PlansAreTransmissible == Spec => []PlanIsTransmissible
<1>1. ASSUME BooksInv, PreflightAgreesWithReceiver PROVE PlanIsTransmissible
  <2> SUFFICES ASSUME NEW g \in batches
               PROVE  /\ RowsOf(g) \in Seq([key : KeysIn(g), tin : {row.tin : row \in ToSet(RowsOf(g))},
                                            reportable : Int64 \ {-Word}, withheld : Int64 \ {-Word}])
                      /\ Len(RowsOf(g)) \in 1..MaxRecords
                      /\ \A i, j \in DOMAIN RowsOf(g) : RowsOf(g)[i].key = RowsOf(g)[j].key => i = j
                      /\ \A h \in batches : g # h => KeysIn(g) \cap KeysIn(h) = {}
                      /\ \A row \in ToSet(RowsOf(g)) : resultFor(row) = "none"
    BY Zenon DEF PlanIsTransmissible
  <2>1. /\ g \in Seq(Filings) /\ Len(g) \in 1..MaxRecords /\ DOMAIN g = 1..Len(g) /\ Sorted(g)
        /\ \A i \in DOMAIN g : g[i] \in Filings /\ filing[g[i]] = "batched"
    BY <1>1, Limits, WireLimits DEF BooksInv, PlanInv, IsBatch, Members
  <2>2. ASSUME NEW i \in DOMAIN g
        PROVE  LET row == FilingRow(dataset.rows, g[i])
               IN  /\ row = [key |-> g[i], tin |-> row.tin,
                             reportable |-> row.reportable, withheld |-> row.withheld]
                   /\ row.reportable \in Int64 \ {-Word} /\ row.withheld \in Int64 \ {-Word}
                   /\ resultFor(row) = "none"
    <3> DEFINE f == g[i]
               row == FilingRow(dataset.rows, f)
    <3>1. f \in Filings /\ filing[f] = "batched"
      BY <2>1
    <3>2. Reportable(dataset.rows, f) \in Amounts /\ Withholding(dataset.rows, f) \in Amounts
      BY <1>1, <3>1, BatchedAmounts DEF BooksInv
    <3>3. row = [key |-> f, tin |-> RecipientTIN(f), reportable |-> Reportable(dataset.rows, f),
                 withheld |-> Withholding(dataset.rows, f)]
      BY Zenon DEF FilingRow
    <3> HIDE DEF f
    <3>4. /\ row.key = f /\ row.reportable \in Amounts /\ row.withheld \in Amounts
          /\ row = [key |-> f, tin |-> row.tin,
                    reportable |-> row.reportable, withheld |-> row.withheld]
          /\ row \in [key : {f}, tin : {row.tin}, reportable : Amounts, withheld : Amounts]
      BY <3>2, <3>3
    <3>5. ReadRecord(Detail(row)) = row
      <4> HIDE DEF row
      <4> QED
        BY <3>4, DetailSurvives
    <3>6. resultFor(ReadRecord(Detail(row))) = "none"
      BY <1>1, <3>1 DEF PreflightAgreesWithReceiver
    <3> HIDE DEF row
    <3> QED
      BY <3>4, <3>5, <3>6 DEF Amounts, f, row
  <2> DEFINE rows == RowsOf(g)
  <2>3. /\ rows = [i \in 1..Len(g) |-> FilingRow(dataset.rows, g[i])]
        /\ \A i \in 1..Len(g) : rows[i] = FilingRow(dataset.rows, g[i]) /\ rows[i].key = g[i]
    <3>1. rows = [i \in 1..Len(g) |-> FilingRow(dataset.rows, g[i])]
      BY <2>1, Zenon DEF RowsOf
    <3>2. \A i \in 1..Len(g) : FilingRow(dataset.rows, g[i]).key = g[i]
      BY DEF FilingRow
    <3> HIDE DEF rows
    <3> QED
      BY <3>1, <3>2
  <2>4. ASSUME NEW h \in batches
        PROVE  KeysIn(h) = Members(h)
    <3>1. \A i \in DOMAIN h : RowsOf(h)[i].key = h[i] /\ DOMAIN RowsOf(h) = DOMAIN h
      BY DEF RowsOf, FilingRow
    <3>2. DOMAIN RowsOf(h) = DOMAIN h
      BY DEF RowsOf
    <3> QED
      BY <3>1, <3>2 DEF KeysIn, Members, ToSet
  <2>5. \A h \in batches : g # h => KeysIn(g) \cap KeysIn(h) = {}
    BY <1>1, <2>4 DEF BooksInv, PlanInv
  <2>6. \A i, j \in 1..Len(g) : rows[i].key = rows[j].key => i = j
    BY <2>1, <2>3, SortedIsInjective
  <2>7. ToSet(rows) = {rows[i] : i \in 1..Len(g)} /\ DOMAIN rows = 1..Len(g) /\ Len(rows) = Len(g)
    BY <2>1, <2>3 DEF ToSet
  <2>8. \A row \in ToSet(rows) : resultFor(row) = "none"
    <3>1. ASSUME NEW i \in 1..Len(g) PROVE resultFor(rows[i]) = "none"
      <4>1. rows[i] = FilingRow(dataset.rows, g[i]) /\ i \in DOMAIN g
        BY <2>1, <2>3
      <4> HIDE DEF rows
      <4> QED
        BY <2>2, <4>1, Zenon
    <3> HIDE DEF rows
    <3> QED
      BY <2>7, <3>1
  <2> DEFINE TINs == {row.tin : row \in ToSet(rows)}
             Keys == KeysIn(g)
             Rows == [key : Keys, tin : TINs, reportable : Int64 \ {-Word}, withheld : Int64 \ {-Word}]
  <2>9. \A i \in 1..Len(g) : rows[i] \in Rows
    <3> SUFFICES ASSUME NEW i \in 1..Len(g) PROVE rows[i] \in Rows
      OBVIOUS
    <3>1. rows[i] \in ToSet(rows)
      BY <2>7
    <3>2. rows[i].tin \in TINs /\ rows[i].key \in Keys
      BY <3>1 DEF KeysIn
    <3>3. /\ rows[i] = [key |-> rows[i].key, tin |-> rows[i].tin,
                        reportable |-> rows[i].reportable, withheld |-> rows[i].withheld]
          /\ rows[i].reportable \in Int64 \ {-Word} /\ rows[i].withheld \in Int64 \ {-Word}
      BY <2>1, <2>2, <2>3
    <3> HIDE DEF rows, TINs, Keys
    <3> QED
      BY <3>2, <3>3
  <2>10. rows \in Seq(Rows)
    <3> HIDE DEF Rows
    <3> QED
      BY <2>1, <2>3, <2>9
  <2> QED
    BY <2>1, <2>5, <2>6, <2>7, <2>8, <2>10
<1> QED
  BY <1>1, BooksInvariance, PreflightAgrees, PTL

\* A dataset is stored once, and then not written again.
LEMMA DatasetIsKept ==
    ASSUME NEW c \in Callers, dataset # NoFile,
           \/ \E op \in Operations, file \in Files \cup {NoFile} : Request(c, op, file)
           \/ Lock(c) \/ Read(c) \/ ImportDataset(c) \/ DetermineDataset(c)
           \/ PlanBatches(c) \/ Fail(c)
    PROVE  dataset' = dataset
<1>1. ImportDataset(c) => dataset' = dataset
  BY Zenon DEF ImportDataset, ImportRefused, ImportAgain, ImportFirst, tables
<1>2. DetermineDataset(c) => dataset' = dataset
  BY Zenon DEF DetermineDataset, DetermineAgain, DetermineNothing, DetermineOverflows,
               DetermineFirst, tables
<1>3. PlanBatches(c) => dataset' = dataset
  BY Zenon DEF PlanBatches, tables
<1>4. Lock(c) \/ Read(c) \/ Fail(c) => dataset' = dataset
  BY Zenon DEF Lock, Read, Fail, tables
<1>5. (\E op \in Operations, file \in Files \cup {NoFile} : Request(c, op, file)) => dataset' = dataset
  BY Zenon DEF Request, tables
<1> QED
  BY <1>1, <1>2, <1>3, <1>4, <1>5

(***************************************************************************)
(* Once planned, a batch stays planned and its rows stay what they are, so *)
(* that each retry sends the document, and uses the UTID, of the first     *)
(* attempt: ImportDataset, DetermineDataset and PlanBatches, repeated and  *)
(* at the same time.  Exchange takes its plan for constant.                *)
(***************************************************************************)
THEOREM PlannedRowsAreFinal ==
    Spec => [][\A g \in batches : g \in batches' /\ RowsOf(g)' = RowsOf(g)]_vars
<1> DEFINE Kept == \A g \in batches : g \in batches' /\ RowsOf(g)' = RowsOf(g)
<1>1. ASSUME BooksInv, Next PROVE Kept
  <2> SUFFICES ASSUME NEW g \in batches PROVE g \in batches' /\ RowsOf(g)' = RowsOf(g)
    OBVIOUS
  <2>1. PICK c \in Callers :
           \/ \E op \in Operations, file \in Files \cup {NoFile} : Request(c, op, file)
           \/ Lock(c) \/ Read(c) \/ ImportDataset(c) \/ DetermineDataset(c)
           \/ PlanBatches(c) \/ Fail(c)
    BY <1>1, Zenon DEF Next
  <2>2. determined /\ dataset # NoFile
    <3>1. determined
      BY <1>1, NothingPlannedYet DEF BooksInv, IInv
    <3> QED
      BY <1>1, <3>1 DEF BooksInv, IInv, DataInv
  <2>3. dataset' = dataset
    BY <2>1, <2>2, DatasetIsKept
  <2>4. g \in batches'
    <3>1. DetermineFirst(c) => batches' = batches
      BY Zenon DEF DetermineFirst, tables
    <3>2. PlanBatches(c) => g \in batches'
      BY <1>1, PlanEffect DEF BooksInv
    <3> QED
      BY <2>1, <3>1, <3>2, OthersKeepFilings DEF DetermineDataset
  <2> QED
    BY <2>3, <2>4, Zenon DEF RowsOf
<1> HIDE DEF Kept
<1>2. BooksInv /\ [Next]_vars => [Kept]_vars
  BY <1>1
<1> QED
  BY <1>2, BooksInvariance, PTL DEF Spec, Kept

-----------------------------------------------------------------------------
(* What callers are told *)

\* The counts of a determination, told or read.
CountsAreSo(counts) ==
    /\ counts[2] = InState("blocked_preflight")
    /\ counts[1] \in InState("ready") .. InState("ready") + InState("batched")

\* What one call has read is still so, and what it was told stays true.
TruthOf(c) ==
    /\ call[c].op = "plan" => determined
    /\ pc[c] = "read" /\ call[c].op = "plan" =>
          /\ \A f \in Filings : f \in seen[c].plan <=> filing[f] = "ready"
          /\ seen[c].counts = <<Cardinality(batches)>>
    /\ pc[c] = "read" /\ call[c].op = "determine" /\ seen[c].exists =>
          CountsAreSo(seen[c].counts)
    /\ answer[c].op = "plan" /\ answer[c].result = "planned" =>
          /\ determined
          /\ \A f \in Filings : filing[f] # "ready"
          /\ answer[c].counts[1] + answer[c].counts[2] = Cardinality(batches)
    /\ answer[c].op = "determine" /\ answer[c].result \in {"created", "existing"} =>
          /\ determined
          /\ CountsAreSo(answer[c].counts)
          /\ answer[c].result = "created" =>
                answer[c].counts[1] = InState("ready") + InState("batched")

TruthInv == \A c \in Callers : TruthOf(c)

\* A file has finitely many filings, and so has each state.
LEMMA FilingsAreFinite == IsFiniteSet(Filings)
<1> DEFINE N == Len(FilingOrder)
           place == [n \in 1..N |-> FilingOrder[n]]
<1>1. N \in Nat /\ IsFiniteSet(1..N)
  <2>1. N \in Nat
    BY PositionIsIndex
  <2> QED
    BY <2>1, FS_Interval
<1>2. place \in Surjection(1..N, Filings)
  BY PositionIsIndex DEF Surjection
<1> HIDE DEF place, N
<1> QED
  BY <1>1, <1>2, FS_Surjection

\* The counts of the states are natural numbers.
LEMMA StatesAreCounted ==
    /\ InState("ready") \in Nat /\ InState("batched") \in Nat
    /\ InState("blocked_preflight") \in Nat
    /\ InState("ready") = 0 <=> \A f \in Filings : filing[f] # "ready"
<1>1. \A state : IsFiniteSet({f \in Filings : filing[f] = state})
  BY FilingsAreFinite, FS_Subset
<1>2. \A state : InState(state) \in Nat /\
                 (InState(state) = 0 <=> {f \in Filings : filing[f] = state} = {})
  BY <1>1, FS_CardinalityType, FS_EmptySet DEF InState
<1> QED
  BY <1>2

\* A plan moves every ready filing on, and no other.
LEMMA PlanMovesCounts ==
    ASSUME \A f \in Filings : filing'[f] = IF filing[f] = "ready" THEN "batched" ELSE filing[f]
    PROVE  /\ InState("ready")' = 0
           /\ InState("batched")' = InState("ready") + InState("batched")
           /\ InState("blocked_preflight")' = InState("blocked_preflight")
<1> DEFINE In(state) == {f \in Filings : filing[f] = state}
           InNext(state) == {f \in Filings : filing'[f] = state}
<1>1. InNext("ready") = {} /\ InNext("blocked_preflight") = In("blocked_preflight")
      /\ InNext("batched") = In("ready") \cup In("batched")
      /\ In("ready") \cap In("batched") = {}
  OBVIOUS
<1>2. IsFiniteSet(In("ready")) /\ IsFiniteSet(In("batched"))
  BY FilingsAreFinite, FS_Subset
<1>3. /\ InState("ready") = Cardinality(In("ready"))
      /\ InState("batched") = Cardinality(In("batched"))
      /\ InState("blocked_preflight") = Cardinality(In("blocked_preflight"))
      /\ InState("ready")' = Cardinality(InNext("ready"))
      /\ InState("batched")' = Cardinality(InNext("batched"))
      /\ InState("blocked_preflight")' = Cardinality(InNext("blocked_preflight"))
  BY DEF InState
<1> HIDE DEF In, InNext
<1>4. /\ Cardinality(In("ready")) \in Nat /\ Cardinality(In("batched")) \in Nat
      /\ Cardinality({}) = 0
  BY <1>2, FS_CardinalityType, FS_EmptySet
<1>5. Cardinality(In("ready") \cup In("batched"))
        = Cardinality(In("ready")) + Cardinality(In("batched"))
  <2>1. Cardinality(In("ready") \cup In("batched"))
          = Cardinality(In("ready")) + Cardinality(In("batched"))
              - Cardinality(In("ready") \cap In("batched"))
    BY <1>2, FS_Union
  <2>2. In("ready") \cap In("batched") = {}
    BY <1>1
  <2>3. Cardinality(In("ready") \cap In("batched")) = 0
    BY <1>4, <2>2, Zenon
  <2> QED
    BY <1>4, <2>1, <2>3
<1> QED
  BY <1>1, <1>3, <1>4, <1>5

\* A call that changes no filing keeps what the others know.
LEMMA QuietKeepsTruth ==
    ASSUME TruthInv, UNCHANGED <<filing, batches, determined>>, NEW c \in Callers,
           \A d \in Callers : d # c =>
              /\ call'[d] = call[d] /\ answer'[d] = answer[d] /\ pc'[d] = pc[d]
              /\ seen'[d] = seen[d],
           TruthOf(c)'
    PROVE  TruthInv'
<1> SUFFICES ASSUME NEW d \in Callers, d # c PROVE TruthOf(d)'
  BY DEF TruthInv
<1>1. TruthOf(d)
  BY DEF TruthInv
<1>2. /\ InState("ready")' = InState("ready") /\ InState("batched")' = InState("batched")
      /\ InState("blocked_preflight")' = InState("blocked_preflight")
  BY DEF InState
<1> QED
  BY <1>1, <1>2 DEF TruthOf, CountsAreSo

\* What was told of the counts stays so when no filing changes.
LEMMA CountsKept ==
    ASSUME UNCHANGED filing, NEW counts
    PROVE  CountsAreSo(counts)' <=> CountsAreSo(counts)
<1>1. /\ InState("ready")' = InState("ready") /\ InState("batched")' = InState("batched")
      /\ InState("blocked_preflight")' = InState("blocked_preflight")
  BY DEF InState
<1> QED
  BY <1>1 DEF CountsAreSo

\* A new call has been told nothing yet.
LEMMA RequestKeepsTruth ==
    ASSUME LockInv, TruthInv, NEW c \in Callers, NEW op \in Operations,
           NEW file \in Files \cup {NoFile}, Request(c, op, file)
    PROVE  TruthInv'
<1>1. /\ pc' = [pc EXCEPT ![c] = "waiting"]
      /\ call' = [call EXCEPT ![c] = [op |-> op, file |-> file]]
      /\ answer' = [answer EXCEPT ![c] = NoAnswer]
      /\ UNCHANGED <<dataset, filing, batches, determined, seen>>
      /\ op = "plan" => determined
  BY DEF Request, Goto, tables
<1>2. \A d \in Callers : d # c =>
         /\ call'[d] = call[d] /\ answer'[d] = answer[d] /\ pc'[d] = pc[d]
         /\ seen'[d] = seen[d]
  BY <1>1 DEF LockInv
<1>3. pc'[c] = "waiting" /\ answer'[c] = NoAnswer /\ call'[c].op = op
  BY <1>1 DEF LockInv
<1>4. TruthOf(c)'
  BY <1>1, <1>3 DEF TruthOf, NoAnswer
<1> QED
  BY <1>1, <1>2, <1>4, QuietKeepsTruth

\* A call that gets its lock has read nothing yet.
LEMMA LockKeepsTruth ==
    ASSUME LockInv, TruthInv, NEW c \in Callers, Lock(c)
    PROVE  TruthInv'
<1>1. /\ pc' = [pc EXCEPT ![c] = "locked"]
      /\ UNCHANGED <<dataset, filing, batches, determined, call, seen, answer>>
  BY DEF Lock, Goto, tables
<1>2. \A d \in Callers : d # c => pc'[d] = pc[d]
  BY <1>1 DEF LockInv
<1>3. pc'[c] = "locked"
  BY <1>1 DEF LockInv
<1>4. TruthOf(c)'
  BY <1>1, <1>3, CountsKept DEF TruthInv, TruthOf, InState
<1> QED
  BY <1>1, <1>2, <1>4, QuietKeepsTruth

\* What a call reads under its lock is so.
LEMMA ReadKeepsTruth ==
    ASSUME IInv, TruthInv, NEW c \in Callers, Read(c)
    PROVE  TruthInv'
<1>1. /\ pc[c] = "locked" /\ pc' = [pc EXCEPT ![c] = "read"]
      /\ UNCHANGED <<dataset, filing, batches, determined, call, answer>>
  BY DEF Read, Goto, tables
<1>2. \A d \in Callers : d # c => pc'[d] = pc[d] /\ seen'[d] = seen[d]
  BY <1>1 DEF IInv, LockInv, Read
<1>3. /\ seen'[c].plan = ReadyFilings
      /\ call[c].op = "determine" =>
            seen'[c].counts = <<InState("ready"), InState("blocked_preflight")>>
      /\ call[c].op = "plan" => seen'[c].counts = <<Cardinality(batches)>>
  <2>1. c \in DOMAIN seen
    BY DEF IInv, LockInv
  <2> QED
    BY <2>1 DEF Read
<1>4. CountsAreSo(<<InState("ready"), InState("blocked_preflight")>>)
  BY StatesAreCounted DEF CountsAreSo
<1>5. TruthOf(c)'
  <2>1. /\ InState("ready")' = InState("ready") /\ InState("batched")' = InState("batched")
    BY <1>1 DEF InState
  <2>2. TruthOf(c)
    BY DEF TruthInv
  <2>3. \A f \in Filings : f \in seen'[c].plan <=> filing[f] = "ready"
    BY <1>3 DEF ReadyFilings
  <2>4. call[c].op = "determine" => CountsAreSo(seen'[c].counts)
    BY <1>3, <1>4
  <2> QED
    BY <1>1, <1>3, <2>1, <2>2, <2>3, <2>4, CountsKept DEF TruthOf
<1> QED
  BY <1>1, <1>2, <1>5, QuietKeepsTruth

\* The end of a call that wrote nothing of filings.
LEMMA ReturnKeepsTruth ==
    ASSUME LockInv, TruthInv, UNCHANGED <<filing, batches, determined>>,
           NEW c \in Callers, NEW result, NEW counts, ReturnCounts(c, result, counts),
           call[c].op = "plan" => result # "planned",
           call[c].op = "determine" /\ result \in {"created", "existing"} =>
              determined /\ result = "existing" /\ CountsAreSo(counts)
    PROVE  TruthInv'
<1>1. /\ pc' = [pc EXCEPT ![c] = "idle"] /\ call' = [call EXCEPT ![c] = NoCall]
      /\ seen' = [seen EXCEPT ![c] = NothingSeen]
      /\ answer' = [answer EXCEPT ![c] = [op |-> call[c].op, file |-> call[c].file,
                                          result |-> result, counts |-> counts]]
  BY DEF ReturnCounts, Goto
<1>2. \A d \in Callers : d # c =>
         /\ call'[d] = call[d] /\ answer'[d] = answer[d] /\ pc'[d] = pc[d]
         /\ seen'[d] = seen[d]
  BY <1>1 DEF LockInv
<1>3. /\ pc'[c] = "idle" /\ call'[c].op = "import"
      /\ answer'[c].op = call[c].op /\ answer'[c].result = result /\ answer'[c].counts = counts
  BY <1>1 DEF LockInv, NoCall
<1>4. TruthOf(c)'
  <2>1. CountsAreSo(counts) => CountsAreSo(counts)'
    BY CountsKept
  <2> QED
    BY <1>3, <2>1 DEF TruthOf, CountsAreSo
<1> QED
  BY <1>2, <1>4, QuietKeepsTruth

\* A determination that decides nothing tells the counts that are there, or none.
LEMMA DetermineAgainKeepsTruth ==
    ASSUME IInv, TruthInv, NEW c \in Callers, pc[c] = "read", call[c].op = "determine",
           DetermineAgain(c) \/ DetermineNothing(c) \/ DetermineOverflows(c)
    PROVE  TruthInv'
<1>1. LockInv /\ (seen[c].exists => determined /\ CountsAreSo(seen[c].counts))
  BY DEF IInv, SeenInv, SeenIsSo, TruthInv, TruthOf
<1>2. UNCHANGED <<filing, batches, determined>>
  BY OthersKeepFilings
<1>3. CASE DetermineAgain(c)
  <2>1. ReturnCounts(c, "existing", seen[c].counts) /\ seen[c].exists
    BY <1>3, Zenon DEF DetermineAgain
  <2> QED
    BY <1>1, <1>2, <2>1, ReturnKeepsTruth
<1>4. CASE DetermineNothing(c)
  <2>1. ReturnCounts(c, "not_found", <<>>)
    BY <1>4, Zenon DEF DetermineNothing, Return
  <2> QED
    BY <1>1, <1>2, <2>1, ReturnKeepsTruth
<1>5. CASE DetermineOverflows(c)
  <2>1. ReturnCounts(c, "invariant", <<>>)
    BY <1>5, Zenon DEF DetermineOverflows, Return
  <2> QED
    BY <1>1, <1>2, <2>1, ReturnKeepsTruth
<1> QED
  BY <1>3, <1>4, <1>5

\* An import, the first or a later one, moves no filing.
LEMMA ImportKeepsTruth ==
    ASSUME IInv, TruthInv, NEW c \in Callers, ImportDataset(c)
    PROVE  TruthInv'
<1>1. LockInv /\ call[c].op = "import"
  BY DEF IInv, ImportDataset
<1>2. UNCHANGED <<filing, batches, determined>>
  BY OthersKeepFilings
<1>3. PICK result, counts : ReturnCounts(c, result, counts)
  BY Zenon DEF ImportDataset, ImportRefused, ImportAgain, ImportFirst, Return
<1> QED
  BY <1>1, <1>2, <1>3, ReturnKeepsTruth

\* A call that fails tells nothing and moves nothing.
LEMMA FailKeepsTruth ==
    ASSUME IInv, TruthInv, NEW c \in Callers, Fail(c)
    PROVE  TruthInv'
<1>1. LockInv /\ ReturnCounts(c, "failed", <<>>)
  BY DEF IInv, Fail, Return
<1>2. UNCHANGED <<filing, batches, determined>>
  BY OthersKeepFilings
<1> QED
  BY <1>1, <1>2, ReturnKeepsTruth

\* The first determination: nobody has been told or has read any other, and what
\* it counts is what it writes.
LEMMA DetermineFirstKeepsTruth ==
    ASSUME IInv, PlanInv, TruthInv, NEW c \in Callers, pc[c] = "read",
           call[c].op = "determine", DetermineFirst(c)
    PROVE  TruthInv'
<1>1. determined = FALSE
  BY DEF IInv, SeenInv, SeenIsSo, DetermineFirst, DataInv
<1>2. /\ determined' = TRUE /\ batches' = batches
      /\ filing' = [f \in Filings |-> FilingState(dataset.rows, f)]
      /\ ReturnCounts(c, "created",
            <<Cardinality({f \in Filings : filing'[f] = "ready"}),
              Cardinality({f \in Filings : filing'[f] = "blocked_preflight"})>>)
  BY <1>1, Zenon DEF DetermineFirst
<1> DEFINE counts == <<InState("ready"), InState("blocked_preflight")>>'
<1>3. ReturnCounts(c, "created", counts)
  BY <1>2, Zenon DEF InState
<1>4. \A f \in Filings : filing'[f] # "batched"
  BY <1>2 DEF FilingState
<1>5. InState("batched")' = 0 /\ InState("ready")' \in Nat
  <2>1. {f \in Filings : filing'[f] = "batched"} = {}
    BY <1>4
  <2>2. Cardinality({f \in Filings : filing'[f] = "batched"}) = 0
    BY <2>1, FS_EmptySet, Zenon
  <2>3. IsFiniteSet({f \in Filings : filing'[f] = "ready"})
    BY FilingsAreFinite, FS_Subset
  <2>4. Cardinality({f \in Filings : filing'[f] = "ready"}) \in Nat
    BY <2>3, FS_CardinalityType
  <2> QED
    BY <2>2, <2>4, Zenon DEF InState
<1>6. /\ pc' = [pc EXCEPT ![c] = "idle"] /\ call' = [call EXCEPT ![c] = NoCall]
      /\ seen' = [seen EXCEPT ![c] = NothingSeen]
      /\ answer' = [answer EXCEPT ![c] = [op |-> call[c].op, file |-> call[c].file,
                                          result |-> "created", counts |-> counts]]
  <2> HIDE DEF counts
  <2> QED
    BY <1>3 DEF ReturnCounts, Goto
<1> HIDE DEF counts
<1>7. TruthOf(c)'
  <2>1. /\ pc'[c] = "idle" /\ call'[c].op = "import"
        /\ answer'[c].op = "determine" /\ answer'[c].result = "created"
        /\ answer'[c].counts = counts
    BY <1>6 DEF IInv, LockInv, NoCall
  <2>2. counts[1] = InState("ready")' /\ counts[2] = InState("blocked_preflight")'
    BY DEF counts
  <2> QED
    BY <1>2, <1>5, <2>1, <2>2 DEF TruthOf, CountsAreSo
<1>8. ASSUME NEW d \in Callers, d # c PROVE TruthOf(d)'
  <2>1. /\ call'[d] = call[d] /\ answer'[d] = answer[d] /\ pc'[d] = pc[d]
        /\ seen'[d] = seen[d]
    BY <1>6, <1>8 DEF IInv, LockInv
  <2>2. TruthOf(d) /\ SeenInv
    BY DEF TruthInv, IInv
  <2>3. call[d].op # "plan"
    BY <1>1, <2>2 DEF TruthOf
  <2>4. ~(pc[d] = "read" /\ call[d].op = "determine" /\ seen[d].exists)
    BY <1>1, <2>2 DEF SeenInv, SeenIsSo
  <2>5. ~(answer[d].op = "plan" /\ answer[d].result = "planned")
    BY <1>1, <2>2 DEF TruthOf
  <2>6. ~(answer[d].op = "determine" /\ answer[d].result \in {"created", "existing"})
    BY <1>1, <2>2 DEF TruthOf
  <2> QED
    BY <2>1, <2>3, <2>4, <2>5, <2>6 DEF TruthOf
<1> QED
  BY <1>7, <1>8 DEF TruthInv

\* A plan leaves nothing ready, counts what it adds, and takes nothing back.
LEMMA PlanKeepsTruth ==
    ASSUME IInv, PlanInv, TruthInv, NEW c \in Callers, PlanBatches(c)
    PROVE  TruthInv'
<1> DEFINE planned == seen[c].plan
           groups == Groups(InOrder(planned))
           counts == Append(seen[c].counts, Cardinality(groups))
<1>1. /\ pc[c] = "read" /\ call[c].op = "plan" /\ LockInv
      /\ TruthOf(c)
  BY DEF PlanBatches, IInv, TruthInv
<1>2. /\ planned \in SUBSET Filings
      /\ \A f \in planned : filing[f] = "ready"
      /\ batches' = batches \cup groups
      /\ filing' = [f \in Filings |-> IF f \in planned THEN "batched" ELSE filing[f]]
      /\ determined' = determined
      /\ ReturnCounts(c, "planned", counts)
  BY PlanEffect
<1>3. /\ determined
      /\ \A f \in Filings : f \in planned <=> filing[f] = "ready"
      /\ seen[c].counts = <<Cardinality(batches)>>
  BY <1>1 DEF TruthOf
<1>4. /\ IsFiniteSet(groups)
      /\ \A g \in groups : IsBatch(g) /\ Members(g) \subseteq planned
  BY <1>2, GroupsPartition
<1> HIDE DEF groups, planned
<1>5. Cardinality(batches') = Cardinality(batches) + Cardinality(groups)
  <2>1. batches \cap groups = {}
    <3> SUFFICES ASSUME NEW g \in batches, g \in groups PROVE FALSE
      OBVIOUS
    <3>1. PICK f \in Members(g) : filing[f] = "batched"
      BY BatchesHaveMembers DEF PlanInv
    <3> QED
      BY <1>2, <1>4, <3>1
  <2>2. IsFiniteSet(batches) /\ IsFiniteSet(groups)
    BY <1>4 DEF PlanInv
  <2>3. Cardinality(batches \cup groups)
          = Cardinality(batches) + Cardinality(groups) - Cardinality(batches \cap groups)
    BY <2>2, FS_Union
  <2>4. Cardinality(batches \cap groups) = 0
    BY <2>1, FS_EmptySet, Zenon
  <2>5. Cardinality(batches) \in Nat /\ Cardinality(groups) \in Nat
    BY <2>2, FS_CardinalityType
  <2> QED
    BY <1>2, <2>3, <2>4, <2>5
<1>6. \A f \in Filings : filing'[f] = IF filing[f] = "ready" THEN "batched" ELSE filing[f]
  BY <1>2, <1>3
<1>7. /\ InState("ready")' = 0
      /\ InState("batched")' = InState("ready") + InState("batched")
      /\ InState("blocked_preflight")' = InState("blocked_preflight")
  BY <1>6, PlanMovesCounts
<1>8. \A f \in Filings : filing'[f] # "ready"
  BY <1>6
<1>9. ASSUME NEW told, CountsAreSo(told)
      PROVE  CountsAreSo(told)' /\ InState("ready")' + InState("batched")'
                                      = InState("ready") + InState("batched")
  BY <1>7, <1>9, StatesAreCounted DEF CountsAreSo
<1>10. /\ pc' = [pc EXCEPT ![c] = "idle"] /\ call' = [call EXCEPT ![c] = NoCall]
       /\ seen' = [seen EXCEPT ![c] = NothingSeen]
       /\ answer' = [answer EXCEPT ![c] = [op |-> call[c].op, file |-> call[c].file,
                                           result |-> "planned", counts |-> counts]]
  <2> HIDE DEF counts
  <2> QED
    BY <1>2 DEF ReturnCounts, Goto
<1>11. TruthOf(c)'
  <2>1. counts[1] = Cardinality(batches) /\ counts[2] = Cardinality(groups)
    BY <1>3
  <2> HIDE DEF counts
  <2>2. /\ pc'[c] = "idle" /\ call'[c].op = "import"
        /\ answer'[c].op = "plan" /\ answer'[c].result = "planned"
        /\ answer'[c].counts = counts
    BY <1>1, <1>10 DEF LockInv, NoCall
  <2> QED
    BY <1>2, <1>3, <1>5, <1>8, <2>1, <2>2 DEF TruthOf
<1> HIDE DEF counts
<1>12. ASSUME NEW d \in Callers, d # c PROVE TruthOf(d)'
  <2>1. /\ call'[d] = call[d] /\ answer'[d] = answer[d] /\ pc'[d] = pc[d]
        /\ seen'[d] = seen[d]
    BY <1>1, <1>10, <1>12 DEF LockInv
  <2>2. TruthOf(d)
    BY DEF TruthInv
  <2>3. ~(pc[d] = "read" /\ call[d].op = "plan")
    BY <1>1, <1>12 DEF LockInv
  <2>4. ASSUME answer[d].op = "plan", answer[d].result = "planned"
        PROVE  batches' = batches
    <3>1. planned = {}
      BY <1>2, <2>2, <2>4 DEF TruthOf
    <3>2. groups = {}
      BY <1>4, <3>1, BatchesHaveMembers
    <3> QED
      BY <1>2, <3>2
  <2>5. CountsAreSo(seen[d].counts) => CountsAreSo(seen[d].counts)'
    BY <2>1, <1>9 DEF CountsAreSo
  <2> QED
    BY <1>2, <1>8, <1>9, <2>1, <2>2, <2>3, <2>4 DEF TruthOf, CountsAreSo
<1> QED
  BY <1>11, <1>12 DEF TruthInv

\* Every step keeps what was read and told true.
LEMMA NextTruth == BooksInv /\ TruthInv /\ [Next]_vars => TruthInv'
<1> SUFFICES ASSUME BooksInv, TruthInv, [Next]_vars PROVE TruthInv'
  OBVIOUS
<1>1. IInv /\ PlanInv /\ LockInv
  BY DEF BooksInv, IInv
<1>2. CASE Next
  <2>1. PICK c \in Callers :
           \/ \E op \in Operations, file \in Files \cup {NoFile} : Request(c, op, file)
           \/ Lock(c) \/ Read(c) \/ ImportDataset(c) \/ DetermineDataset(c)
           \/ PlanBatches(c) \/ Fail(c)
    BY <1>2, Zenon DEF Next
  <2>2. DetermineDataset(c) => TruthInv'
    BY <1>1, DetermineAgainKeepsTruth, DetermineFirstKeepsTruth DEF DetermineDataset
  <2> QED
    BY <1>1, <2>1, <2>2, RequestKeepsTruth, LockKeepsTruth, ReadKeepsTruth, ImportKeepsTruth,
       PlanKeepsTruth, FailKeepsTruth
<1>3. CASE UNCHANGED vars
  <2>1. UNCHANGED <<filing, batches, determined, call, pc, seen, answer>>
    BY <1>3 DEF vars, tables
  <2> QED
    BY <2>1 DEF TruthInv, TruthOf, CountsAreSo, InState
<1> QED
  BY <1>2, <1>3

\* What was read and told is true in every reachable state.
LEMMA TruthInvariance == Spec => [](BooksInv /\ TruthInv)
<1>1. Init => BooksInv /\ TruthInv
  <2>1. Init => TruthInv
    BY DEF Init, TruthInv, TruthOf, NoCall, NoAnswer
  <2> QED
    BY <2>1, InitBooks
<1> QED
  BY <1>1, NextBooks, NextTruth, PTL DEF Spec

(***************************************************************************)
(* What operators are told is so and stays so, however many calls are      *)
(* repeated at once: the counts of DetermineDataset and PlanBatches, and   *)
(* the sums of PaymentExplanation.                                         *)
(***************************************************************************)
THEOREM AnswersStayTrue == Spec => []AnswersAreTrue
<1>1. BooksInv /\ TruthInv => AnswersAreTrue
  <2> SUFFICES ASSUME BooksInv, TruthInv PROVE AnswersAreTrue
    OBVIOUS
  <2>1. \A f \in Filings : ExplanationAgrees(f)
    BY ExplanationsAgree DEF BooksInv
  <2>2. ASSUME NEW c \in Callers PROVE PlanAnswerIsTrue(c) /\ DetermineAnswerIsTrue(c)
    <3>1. TruthOf(c)
      BY DEF TruthInv
    <3> QED
      BY <3>1, StatesAreCounted DEF TruthOf, CountsAreSo, PlanAnswerIsTrue, DetermineAnswerIsTrue
  <2> QED
    BY <2>1, <2>2 DEF AnswersAreTrue
<1> QED
  BY <1>1, TruthInvariance, PTL
=============================================================================
