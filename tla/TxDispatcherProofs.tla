------------------------- MODULE TxDispatcherProofs -------------------------
(***************************************************************************)
(* Proof that TxDispatcher implements JobDispatcher, so that everything    *)
(* proved of the dispatcher with an atomic store holds of the one with     *)
(* transactions.  The invariant says what an open transaction holds;       *)
(* JobDispatcher's TypeInv says that a job is in hand when one is made.    *)
(***************************************************************************)
EXTENDS TxDispatcher, JobDispatcherProofs

-----------------------------------------------------------------------------
(* Transactions *)

\* The calls of a transaction are told apart by how many there are.
LEMMA Calls ==
  ASSUME NEW a, NEW b, NEW c
  PROVE  /\ Len(<<>>) = 0 /\ Len(<<a>>) = 1 /\ Len(<<a, b>>) = 2 /\ Len(<<a, b, c>>) = 3
         /\ Append(<<a>>, b) = <<a, b>>
         /\ Append(<<a, b>>, c) = <<a, b, c>>
<1> DEFINE S == {a, b, c}
<1>1. /\ Len(<<>>) = 0 /\ Len(<<a>>) = 1 /\ Len(<<a, b>>) = 2 /\ Len(<<a, b, c>>) = 3
  OBVIOUS
<1>2. /\ <<a>> \in Seq(S) /\ <<a, b>> \in Seq(S) /\ <<a, b, c>> \in Seq(S)
  OBVIOUS
<1>3. Append(<<a>>, b) = <<a, b>>
  <2>1. /\ Append(<<a>>, b) \in Seq(S)
        /\ Len(Append(<<a>>, b)) = 2
        /\ \A i \in 1..2 : Append(<<a>>, b)[i] = <<a, b>>[i]
    BY <1>1, <1>2, AppendProperties
  <2> QED
    BY <1>1, <1>2, <2>1, SeqEqual
<1>4. Append(<<a, b>>, c) = <<a, b, c>>
  <2>1. /\ Append(<<a, b>>, c) \in Seq(S)
        /\ Len(Append(<<a, b>>, c)) = 3
        /\ \A i \in 1..3 : Append(<<a, b>>, c)[i] = <<a, b, c>>[i]
    BY <1>1, <1>2, AppendProperties
  <2> QED
    BY <1>1, <1>2, <2>1, SeqEqual
<1> QED
  BY <1>1, <1>3, <1>4

\* A transaction that holds one write changes the value it writes.
LEMMA AfterOne ==
  ASSUME NEW key, NEW j, NEW v, NEW k, NEW i, NEW old,
         key # "begin", k # "begin", tx = <<Begin, Write(key, j, v)>>
  PROVE  After(k, i, old) = IF k = key /\ i = j THEN v ELSE old
<1>1. /\ Len(tx) = 2
      /\ tx[1].key = "begin"
      /\ tx[2].key = key /\ tx[2].id = j /\ tx[2].value = v
  BY DEF Begin, Write
<1>2. \A n \in 1..2 : tx[n].key = k /\ tx[n].id = i <=> n = 2 /\ k = key /\ i = j
  BY <1>1
<1>3. CASE k = key /\ i = j
  <2>1. \A n \in 1..2 : tx[n].key = k /\ tx[n].id = i <=> n = 2
    BY <1>2, <1>3
  <2>2. (CHOOSE n \in 1..Len(tx) : tx[n].key = k /\ tx[n].id = i) = 2
    BY <1>1, <2>1
  <2> QED
    BY <1>1, <1>3, <2>1, <2>2 DEF After
<1>4. CASE ~(k = key /\ i = j)
  BY <1>1, <1>2, <1>4 DEF After
<1> QED
  BY <1>3, <1>4

\* So does one that holds two writes under different keys.
LEMMA AfterTwo ==
  ASSUME NEW j, NEW v, NEW w, NEW i, NEW old,
         tx = <<Begin, Write("result", j, v), Write("job", j, w)>>
  PROVE  /\ After("result", i, old) = IF i = j THEN v ELSE old
         /\ After("job", i, old) = IF i = j THEN w ELSE old
<1>1. /\ Len(tx) = 3
      /\ tx[1].key = "begin"
      /\ tx[2].key = "result" /\ tx[2].id = j /\ tx[2].value = v
      /\ tx[3].key = "job" /\ tx[3].id = j /\ tx[3].value = w
  BY DEF Begin, Write
<1>2. /\ \A n \in 1..3 : tx[n].key = "result" /\ tx[n].id = i <=> n = 2 /\ i = j
      /\ \A n \in 1..3 : tx[n].key = "job" /\ tx[n].id = i <=> n = 3 /\ i = j
  BY <1>1
<1>3. CASE i = j
  <2>1. /\ (CHOOSE n \in 1..Len(tx) : tx[n].key = "result" /\ tx[n].id = i) = 2
        /\ (CHOOSE n \in 1..Len(tx) : tx[n].key = "job" /\ tx[n].id = i) = 3
    BY <1>1, <1>2, <1>3
  <2> QED
    BY <1>1, <1>2, <1>3, <2>1 DEF After
<1>4. CASE i # j
  BY <1>1, <1>2, <1>4 DEF After
<1> QED
  BY <1>3, <1>4

-----------------------------------------------------------------------------
(* The invariant *)

\* How many calls the open transaction holds tells which of them they are.
LEMMA OpenCalls ==
  ASSUME TxTypeOK, tx # <<>>
  PROVE  LET w == Write("result", JobIdOf[cur], result)
         IN  /\ pc = "get" =>
                  /\ inbox # <<>> /\ msg \in JobRequests /\ jobs[JobIdOf[msg]] = None
                  /\ Len(tx) = 1 => tx = <<Begin>>
                  /\ Len(tx) = 2 => tx = <<Begin, Write("job", JobIdOf[msg], msg)>>
             /\ pc = "complete" =>
                  /\ Len(tx) = 1 => tx = <<Begin>>
                  /\ Len(tx) = 2 => tx = <<Begin, w>>
                  /\ Len(tx) = 3 => tx = <<Begin, w, Write("job", JobIdOf[cur], None)>>
             /\ pc \in {"get", "complete"}
BY Calls DEF TxTypeOK

LEMMA TxStep ==
  ASSUME TypeOK, TxTypeOK, TxNext
  PROVE  TxTypeOK'
<1>1. CASE Surroundings
  <2>1. CASE tx = <<>>
    BY <1>1, <2>1 DEF Surroundings, TxTypeOK
  <2>2. ASSUME tx # <<>>, NEW m \in Messages, Submit(m) PROVE TxTypeOK'
    <3>1. inbox # <<>> => inbox' # <<>> /\ msg' = msg
      BY <2>2, AppendedIn DEF TypeOK, Submit, msg
    <3> QED
      BY <1>1, <2>2, <3>1
      DEF Surroundings, TxTypeOK, Submit, storage, locals, Write, Begin, result
  <2>3. ASSUME tx # <<>>, NEW r \in JobRequests, WorkerWrites(r) PROVE TxTypeOK'
    BY <1>1, <2>3
    DEF Surroundings, TxTypeOK, WorkerWrites, broker, storage, locals, msg, Write, Begin, result
  <2>4. ASSUME tx # <<>>, NEW p \in Pids, WorkerExits(p) PROVE TxTypeOK'
    BY <1>1, <2>4
    DEF Surroundings, TxTypeOK, WorkerExits, broker, storage, msg, Write, Begin, result
  <2>5. ASSUME tx # <<>>, Restart PROVE FALSE
    BY <2>5 DEF TxTypeOK, Restart
  <2> QED
    BY <1>1, <2>1, <2>2, <2>3, <2>4, <2>5 DEF Surroundings
<1>2. CASE TxCrash
  BY <1>2 DEF TxCrash, TxTypeOK
<1>3. CASE Others /\ tx = <<>> /\ UNCHANGED tx
  BY <1>3 DEF TxTypeOK
<1>4. CASE BeginPersist \/ BeginComplete
  BY <1>4
  DEF BeginPersist, BeginComplete, Begins, TxTypeOK, vars, broker, storage, locals, msg, Begin, Write
<1>5. CASE SetJob \/ SetResult \/ RemoveJob
  <2>1. tx # <<>>
    BY <1>5, Calls DEF SetJob, SetResult, RemoveJob
  <2>2. /\ pc' = pc /\ inbox' = inbox /\ msg' = msg /\ jobs' = jobs
        /\ cur' = cur /\ result' = result
    BY <1>5
    DEF SetJob, SetResult, RemoveJob, Writes, vars, broker, storage, locals, msg, result
  <2>3. CASE SetJob
    <3>1. tx' = <<Begin, Write("job", JobIdOf[msg], msg)>>
      BY <2>1, <2>3, OpenCalls, Calls DEF SetJob, Writes
    <3> QED
      BY <2>1, <2>2, <2>3, <3>1, OpenCalls DEF SetJob, TxTypeOK, Write, Begin
  <2>4. CASE SetResult
    <3>1. tx' = <<Begin, Write("result", JobIdOf[cur], result)>>
      BY <2>1, <2>4, OpenCalls, Calls DEF SetResult, Writes
    <3> QED
      BY <2>2, <2>4, <3>1 DEF SetResult, TxTypeOK, Write, Begin
  <2>5. CASE RemoveJob
    <3>1. tx' = <<Begin, Write("result", JobIdOf[cur], result), Write("job", JobIdOf[cur], None)>>
      BY <2>1, <2>5, OpenCalls, Calls DEF RemoveJob, Writes
    <3> QED
      BY <2>2, <2>5, <3>1 DEF RemoveJob, TxTypeOK, Write, Begin
  <2> QED
    BY <1>5, <2>3, <2>4, <2>5
<1>6. CASE CommitPersist \/ CommitComplete
  BY <1>6 DEF CommitPersist, CommitComplete, Commits, TxTypeOK
<1> QED
  BY <1>1, <1>2, <1>3, <1>4, <1>5, <1>6 DEF TxNext, TxSteps, Transaction

-----------------------------------------------------------------------------
(* Refinement *)

\* A commit does to the store what JobDispatcher's step does, and the other
\* calls do nothing.
LEMMA StepImplements ==
  ASSUME TypeOK, HandOK, TxTypeOK, TxNext
  PROVE  [Next]_vars
<1>1. CASE Surroundings
  BY <1>1 DEF Surroundings, Next
<1>2. CASE TxCrash
  BY <1>2 DEF TxCrash, Next
<1>3. CASE Others
  BY <1>3 DEF Others, TakeOther, Next, Dispatcher, GetMessage
<1>4. CASE BeginPersist \/ BeginComplete \/ SetJob \/ SetResult \/ RemoveJob
  BY <1>4 DEF BeginPersist, BeginComplete, SetJob, SetResult, RemoveJob, Writes
<1>5. CASE CommitPersist
  <2>1. tx # <<>>
    BY <1>5, Calls DEF CommitPersist
  <2>2. /\ inbox # <<>> /\ msg \in JobRequests /\ jobs[JobIdOf[msg]] = None
        /\ tx = <<Begin, Write("job", JobIdOf[msg], msg)>>
    BY <1>5, <2>1, OpenCalls DEF CommitPersist
  <2>3. \A j \in JobIds :
          /\ After("job", j, jobs[j]) = IF j = JobIdOf[msg] THEN msg ELSE jobs[j]
          /\ After("result", j, results[j]) = results[j]
    BY <2>2, AfterOne
  <2>4. /\ jobs' = [jobs EXCEPT ![JobIdOf[msg]] = msg]
        /\ results' = results
    BY <1>5, <2>2, <2>3 DEF CommitPersist, Commits, TypeOK
  <2>5. AcceptJob
    BY <1>5, <2>2, <2>4 DEF CommitPersist, AcceptJob
  <2> QED
    BY <2>5 DEF Next, Dispatcher, GetMessage
<1>6. CASE CommitComplete
  <2>1. tx # <<>>
    BY <1>6, Calls DEF CommitComplete
  <2>2. tx = <<Begin, Write("result", JobIdOf[cur], result), Write("job", JobIdOf[cur], None)>>
    BY <1>6, <2>1, OpenCalls DEF CommitComplete
  <2>3. \A j \in JobIds :
          /\ After("job", j, jobs[j]) = IF j = JobIdOf[cur] THEN None ELSE jobs[j]
          /\ After("result", j, results[j]) = IF j = JobIdOf[cur] THEN result ELSE results[j]
    BY <2>2, AfterTwo
  <2>4. /\ jobs' = [jobs EXCEPT ![JobIdOf[cur]] = None]
        /\ results' = [results EXCEPT ![JobIdOf[cur]] = result]
    BY <1>6, <2>3 DEF CommitComplete, Commits, TypeOK
  <2>5. CompleteJob
    BY <1>6, <2>4 DEF CommitComplete, CompleteJob, result
  <2> QED
    BY <2>5 DEF Next, Dispatcher
<1> QED
  BY <1>1, <1>2, <1>3, <1>4, <1>5, <1>6 DEF TxNext, TxSteps, Transaction

TxInv == TypeInv /\ TxTypeOK

LEMMA TxInvStep == TxInv /\ [TxNext]_tvars => TxInv' /\ [Next]_vars
<1> SUFFICES ASSUME TxInv, [TxNext]_tvars PROVE TxInv' /\ [Next]_vars
  OBVIOUS
<1>1. CASE TxNext
  <2>1. [Next]_vars
    BY <1>1, StepImplements DEF TxInv, TypeInv
  <2>2. TypeInv'
    BY <2>1, NextType DEF TxInv
  <2>3. TxTypeOK'
    BY <1>1, TxStep DEF TxInv, TypeInv
  <2> QED
    BY <2>1, <2>2, <2>3 DEF TxInv
<1>2. CASE UNCHANGED tvars
  <2>1. UNCHANGED vars
    BY <1>2 DEF tvars
  <2>2. TypeInv'
    BY <2>1, NextType DEF TxInv
  <2>3. TxTypeOK'
    BY <1>2
    DEF TxInv, TxTypeOK, tvars, vars, broker, storage, locals, msg, result, Write, Begin
  <2> QED
    BY <2>1, <2>2, <2>3 DEF TxInv
<1> QED
  BY <1>1, <1>2

LEMMA TxInvInit == TxInit => TxInv /\ Init
BY InitType DEF TxInit, TxInv, TxTypeOK

\* A transaction is open only inside persist_job and complete_job, and holds
\* what they have written so far.
THEOREM TxTypeCorrect == TxSpec => []TxTypeOK
<1>1. TxInv => TxTypeOK
  BY DEF TxInv
<1> QED
  BY <1>1, TxInvInit, TxInvStep, PTL DEF TxSpec

\* The store with transactions implements the atomic one: no failed write and no
\* crash between two calls leaves half a step behind.
THEOREM TxImplements == TxSpec => ImplementsDispatcher
BY TxInvInit, TxInvStep, PTL DEF TxSpec, ImplementsDispatcher, Spec

\* So what is proved of JobDispatcher holds with transactions: no job id whose
\* request was acknowledged is forgotten.
THEOREM TxAckedIdsSafe == TxSpec => []AckedIdIsSafe
BY TxImplements, AckedIdsSafe, PTL DEF ImplementsDispatcher

=============================================================================
