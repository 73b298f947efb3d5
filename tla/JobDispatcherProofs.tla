------------------------- MODULE JobDispatcherProofs -------------------------
(***************************************************************************)
(* Proofs about JobDispatcher.  Its type invariant comes first, then an    *)
(* inductive invariant that ties storage, the queue and the list of        *)
(* children to the control point, and from these the safety properties.    *)
(***************************************************************************)
EXTENDS JobDispatcher, QueueLemmas, TLAPS

-----------------------------------------------------------------------------
(* Types *)

\* What the dispatcher has in hand at each step is something it can use: its
\* loops walk over what is stored or tracked.
HandOK ==
  /\ pc = "restore" => todo \subseteq Stored(jobs)
  /\ pc \in {"spawn", "ack"} => inbox # <<>>
  /\ pc = "spawn" => msg \in JobRequests
  /\ pc \in {"poll", "commit", "complete"} => todo \subseteq Tracked
  /\ pc \in {"send", "remove"} => todo \subseteq Stored(results)
  /\ pc \in {"commit", "complete", "remove"} => cur \in JobRequests
  /\ pc = "commit" => out \in JobRequests
  /\ pc = "complete" => out \in JobRequests \cup {Bad}
  /\ pc = "remove" => results[JobIdOf[cur]] # None

\* Jobs and results are stored under the ids of their requests.
KeysOK ==
  /\ \A j \in Stored(jobs) : JobIdOf[jobs[j]] = j
  /\ \A j \in Stored(results) : JobIdOf[results[j].req] = j

TypeInv == TypeOK /\ HandOK /\ KeysOK

\* The death of the dispatcher, whoever causes it, keeps the types.
LEMMA DiesType ==
  ASSUME TypeOK, Dies, crashes' \in Nat
  PROVE  TypeOK'
BY DEF TypeOK, Dies, broker, storage, Running, Worker

\* What the steps that touch the list of children do to it.
LEMMA ExitKeepsTracked ==
  ASSUME TypeOK, NEW p \in Pids, WorkerExits(p)
  PROVE  /\ Tracked' = Tracked
         /\ \A q \in Tracked : workers'[q].req = workers[q].req
         /\ workers' \in [Pids -> Worker \cup {None}]
<1>1. PICK st \in {"ok", "failed"} : workers' = [workers EXCEPT ![p].st = st]
  BY DEF WorkerExits
<1>2. workers[p] \in Worker /\ workers[p] # None
  BY DEF TypeOK, WorkerExits, Running
<1>3. workers'[p] = [workers[p] EXCEPT !.st = st]
  BY <1>1 DEF TypeOK
<1>4. workers'[p] \in Worker /\ workers'[p].req = workers[p].req
  BY <1>2, <1>3 DEF Worker
<1>5. \A q \in Pids : q # p => workers'[q] = workers[q]
  BY <1>1 DEF TypeOK
<1>6. None \notin Worker
  BY NoneAssumption
<1> QED
  BY <1>1, <1>2, <1>4, <1>5, <1>6 DEF Tracked, TypeOK

LEMMA TracksOne ==
  ASSUME TypeOK, NEW p \in Pids, NEW r \in JobRequests, Tracks(p, r)
  PROVE  /\ p \notin Tracked /\ Tracked' = Tracked \cup {p}
         /\ workers'[p].req = r
         /\ \A q \in Tracked : workers'[q] = workers[q]
<1>1. [req |-> r, st |-> "running"] # None
  BY NoneAssumption DEF Worker
<1> QED
  BY <1>1 DEF TypeOK, Tracks, Tracked

LEMMA DrainedOne ==
  ASSUME TypeOK, NEW p \in Pids, NEW o, Drained(p, o)
  PROVE  /\ Tracked' = Tracked \ {p}
         /\ \A q \in Tracked' : workers'[q] = workers[q]
BY DEF TypeOK, Drained, Tracked

LEMMA DiesTracked ==
  ASSUME Dies PROVE Tracked' = {}
BY DEF Dies, Tracked

LEMMA InitType == Init => TypeInv
<1> SUFFICES ASSUME Init PROVE TypeInv
  OBVIOUS
<1>1. inbox \in Seq(Messages)
  BY EmptySeq DEF Init
<1> QED
  BY <1>1 DEF Init, TypeInv, TypeOK, HandOK, KeysOK, Stored

\* One step keeps the types.
LEMMA TypeStep ==
  ASSUME TypeOK, HandOK, [Next]_vars
  PROVE  TypeOK'
<1> USE DEF TypeOK, broker, storage, system, locals
<1>1. ASSUME NEW m \in Messages, Submit(m) PROVE TypeOK'
  BY <1>1, AppendedIn DEF Submit
<1>2. ASSUME NEW r \in JobRequests, WorkerWrites(r) PROVE TypeOK'
  BY <1>2, RequestsAssumption DEF WorkerWrites
<1>3. ASSUME NEW p \in Pids, WorkerExits(p) PROVE TypeOK'
  BY <1>3, ExitKeepsTracked DEF WorkerExits
<1>4. CASE Restart
  BY <1>4 DEF Restart, Stored
<1>5. ASSUME NEW j \in JobIds, NEW p \in Pids, RestoreJob(j, p) PROVE TypeOK'
  BY <1>5 DEF RestoreJob, Tracks, Worker, HandOK, Stored
<1>6. ASSUME NEW j \in JobIds, RestoreFails(j) PROVE TypeOK'
  BY <1>6, DiesType DEF RestoreFails
<1>7. CASE EndRestore
  BY <1>7 DEF EndRestore
<1>8. CASE GetNothing
  BY <1>8 DEF GetNothing, StartPolling, Tracked
<1>9. CASE AnswerPing
  BY <1>9 DEF AnswerPing
<1>10. CASE DropJunk
  BY <1>10 DEF DropJunk
<1>11. CASE SkipJob
  BY <1>11 DEF SkipJob
<1>12. CASE AcceptJob
  BY <1>12, TailIn DEF AcceptJob
<1>13. ASSUME NEW p \in Pids, SpawnJob(p) PROVE TypeOK'
  BY <1>13 DEF SpawnJob, Tracks, Worker, HandOK
<1>14. CASE SpawnFails
  BY <1>14, DiesType DEF SpawnFails
<1>15. CASE Ack
  BY <1>15, TailIn DEF Ack, HandOK, StartPolling, Tracked
<1>16. ASSUME NEW p \in Pids, KeepWorker(p) PROVE TypeOK'
  BY <1>16 DEF KeepWorker
<1>17. ASSUME NEW p \in Pids, CollectWorker(p) PROVE TypeOK'
  BY <1>17, DiesType, RequestsAssumption DEF CollectWorker, Drained, Extracted, Exited, Worker, HandOK
<1>18. ASSUME NEW p \in Pids, WaitFails(p) PROVE TypeOK'
  BY <1>18 DEF WaitFails, Drained, Worker, HandOK, Running, Tracked
<1>19. CASE CommitCheckpoint
  BY <1>19 DEF CommitCheckpoint, HandOK
<1>20. CASE CompleteJob
  BY <1>20 DEF CompleteJob, HandOK, Result
<1>21. CASE StartSending
  BY <1>21 DEF StartSending, Stored
<1>22. ASSUME NEW j \in JobIds, SendResult(j) PROVE TypeOK'
  BY <1>22 DEF SendResult, HandOK, Stored, Result
<1>23. ASSUME NEW j \in JobIds, SendFails(j) PROVE TypeOK'
  BY <1>23 DEF SendFails, HandOK, Stored, Result
<1>24. CASE RemoveResult
  BY <1>24 DEF RemoveResult, HandOK
<1>25. CASE EndTick
  BY <1>25 DEF EndTick
<1>26. CASE Crash
  BY <1>26, DiesType, MaxCrashesAssumption DEF Crash
<1>27. CASE UNCHANGED vars
  BY <1>27 DEF vars
<1> QED
  BY <1>1, <1>2, <1>3, <1>4, <1>5, <1>6, <1>7, <1>8, <1>9, <1>10, <1>11,
     <1>12, <1>13, <1>14, <1>15, <1>16, <1>17, <1>18, <1>19, <1>20, <1>21,
     <1>22, <1>23, <1>24, <1>25, <1>26, <1>27
  DEF Next, Dispatcher, GetMessage

\* One step keeps what the dispatcher has in hand usable.
LEMMA HandStep ==
  ASSUME TypeOK, HandOK, KeysOK, [Next]_vars
  PROVE  HandOK'
<1> USE DEF TypeOK, HandOK, Stored, Tracked, msg, broker, storage, system, locals
<1>1. ASSUME NEW m \in Messages, Submit(m) PROVE HandOK'
  BY <1>1, AppendedIn DEF Submit
<1>2. ASSUME NEW r \in JobRequests, WorkerWrites(r) PROVE HandOK'
  BY <1>2 DEF WorkerWrites
<1>3. ASSUME NEW p \in Pids, WorkerExits(p) PROVE HandOK'
  BY <1>3, ExitKeepsTracked DEF WorkerExits
<1>4. CASE Restart
  BY <1>4 DEF Restart
<1>5. ASSUME NEW j \in JobIds, NEW p \in Pids, RestoreJob(j, p) PROVE HandOK'
  BY <1>5 DEF RestoreJob, Tracks
<1>6. ASSUME NEW j \in JobIds, RestoreFails(j) PROVE HandOK'
  BY <1>6 DEF RestoreFails, Dies
<1>7. CASE EndRestore
  BY <1>7 DEF EndRestore
<1>8. CASE GetNothing
  BY <1>8 DEF GetNothing, StartPolling
<1>9. CASE AnswerPing
  BY <1>9 DEF AnswerPing
<1>10. CASE DropJunk
  BY <1>10 DEF DropJunk
<1>11. CASE SkipJob
  BY <1>11 DEF SkipJob
<1>12. CASE AcceptJob
  BY <1>12 DEF AcceptJob
<1>13. ASSUME NEW p \in Pids, SpawnJob(p) PROVE HandOK'
  BY <1>13 DEF SpawnJob, Tracks
<1>14. CASE SpawnFails
  BY <1>14 DEF SpawnFails, Dies
<1>15. CASE Ack
  BY <1>15 DEF Ack, StartPolling
<1>16. ASSUME NEW p \in Pids, KeepWorker(p) PROVE HandOK'
  BY <1>16 DEF KeepWorker
<1>17. ASSUME NEW p \in Pids, CollectWorker(p) PROVE HandOK'
  BY <1>17, RequestsAssumption DEF CollectWorker, Drained, Dies, Extracted, Worker
<1>18. ASSUME NEW p \in Pids, WaitFails(p) PROVE HandOK'
  BY <1>18 DEF WaitFails, Drained, Worker
<1>19. CASE CommitCheckpoint
  BY <1>19 DEF CommitCheckpoint
<1>20. CASE CompleteJob
  BY <1>20 DEF CompleteJob
<1>21. CASE StartSending
  BY <1>21 DEF StartSending
<1>22. ASSUME NEW j \in JobIds, SendResult(j) PROVE HandOK'
  BY <1>22 DEF SendResult, KeysOK, Result
<1>23. ASSUME NEW j \in JobIds, SendFails(j) PROVE HandOK'
  BY <1>23 DEF SendFails
<1>24. CASE RemoveResult
  BY <1>24 DEF RemoveResult
<1>25. CASE EndTick
  BY <1>25 DEF EndTick
<1>26. CASE Crash
  BY <1>26 DEF Crash, Dies
<1>27. CASE UNCHANGED vars
  BY <1>27 DEF vars
<1> QED
  BY <1>1, <1>2, <1>3, <1>4, <1>5, <1>6, <1>7, <1>8, <1>9, <1>10, <1>11,
     <1>12, <1>13, <1>14, <1>15, <1>16, <1>17, <1>18, <1>19, <1>20, <1>21,
     <1>22, <1>23, <1>24, <1>25, <1>26, <1>27
  DEF Next, Dispatcher, GetMessage

\* One step keeps jobs and results under their ids.
LEMMA KeysStep ==
  ASSUME TypeOK, HandOK, KeysOK, [Next]_vars
  PROVE  KeysOK'
<1> USE DEF TypeOK, KeysOK, Stored, broker, storage, system, locals
<1>1. ASSUME NEW m \in Messages, Submit(m) PROVE KeysOK'
  BY <1>1 DEF Submit
<1>2. ASSUME NEW r \in JobRequests, WorkerWrites(r) PROVE KeysOK'
  BY <1>2 DEF WorkerWrites
<1>3. ASSUME NEW p \in Pids, WorkerExits(p) PROVE KeysOK'
  BY <1>3 DEF WorkerExits
<1>4. CASE Restart
  BY <1>4 DEF Restart
<1>5. ASSUME NEW j \in JobIds, NEW p \in Pids, RestoreJob(j, p) PROVE KeysOK'
  BY <1>5 DEF RestoreJob
<1>6. ASSUME NEW j \in JobIds, RestoreFails(j) PROVE KeysOK'
  BY <1>6 DEF RestoreFails, Dies
<1>7. CASE EndRestore
  BY <1>7 DEF EndRestore
<1>8. CASE GetNothing
  BY <1>8 DEF GetNothing
<1>9. CASE AnswerPing
  BY <1>9 DEF AnswerPing
<1>10. CASE DropJunk
  BY <1>10 DEF DropJunk
<1>11. CASE SkipJob
  BY <1>11 DEF SkipJob
<1>12. CASE AcceptJob
  BY <1>12, RequestsAssumption DEF AcceptJob
<1>13. ASSUME NEW p \in Pids, SpawnJob(p) PROVE KeysOK'
  BY <1>13 DEF SpawnJob
<1>14. CASE SpawnFails
  BY <1>14 DEF SpawnFails, Dies
<1>15. CASE Ack
  BY <1>15 DEF Ack
<1>16. ASSUME NEW p \in Pids, KeepWorker(p) PROVE KeysOK'
  BY <1>16 DEF KeepWorker
<1>17. ASSUME NEW p \in Pids, CollectWorker(p) PROVE KeysOK'
  BY <1>17 DEF CollectWorker, Dies
<1>18. ASSUME NEW p \in Pids, WaitFails(p) PROVE KeysOK'
  BY <1>18 DEF WaitFails
<1>19. CASE CommitCheckpoint
  BY <1>19 DEF CommitCheckpoint
<1>20. CASE CompleteJob
  BY <1>20, RequestsAssumption DEF CompleteJob, HandOK
<1>21. CASE StartSending
  BY <1>21 DEF StartSending
<1>22. ASSUME NEW j \in JobIds, SendResult(j) PROVE KeysOK'
  BY <1>22 DEF SendResult
<1>23. ASSUME NEW j \in JobIds, SendFails(j) PROVE KeysOK'
  BY <1>23 DEF SendFails
<1>24. CASE RemoveResult
  BY <1>24, RequestsAssumption DEF RemoveResult, HandOK
<1>25. CASE EndTick
  BY <1>25 DEF EndTick
<1>26. CASE Crash
  BY <1>26 DEF Crash, Dies
<1>27. CASE UNCHANGED vars
  BY <1>27 DEF vars
<1> QED
  BY <1>1, <1>2, <1>3, <1>4, <1>5, <1>6, <1>7, <1>8, <1>9, <1>10, <1>11,
     <1>12, <1>13, <1>14, <1>15, <1>16, <1>17, <1>18, <1>19, <1>20, <1>21,
     <1>22, <1>23, <1>24, <1>25, <1>26, <1>27
  DEF Next, Dispatcher, GetMessage

LEMMA NextType == TypeInv /\ [Next]_vars => TypeInv'
BY TypeStep, HandStep, KeysStep DEF TypeInv

\* Every variable keeps its kind of value in every behaviour.
THEOREM TypeCorrect == Spec => []TypeOK
<1>1. TypeInv => TypeOK
  BY DEF TypeInv
<1> QED
  BY <1>1, InitType, NextType, PTL DEF Spec

-----------------------------------------------------------------------------
(* Storage and the list of children *)

\* Tracked children belong to stored jobs, one child to a job, and none yet to
\* the job that a step is about to give a child to or has taken one from.
OwnersOK ==
  /\ \A p \in Tracked : jobs[JobIdOf[workers[p].req]] = workers[p].req
  /\ \A p, q \in Tracked : workers[p].req = workers[q].req => p = q
  /\ pc = "down" => Tracked = {}
  /\ pc = "restore" => \A p \in Tracked : JobIdOf[workers[p].req] \notin todo
  /\ pc = "spawn" => /\ jobs[JobIdOf[msg]] = msg
                     /\ \A p \in Tracked : workers[p].req # msg
  /\ pc \in {"commit", "complete"} =>
       /\ jobs[JobIdOf[cur]] = cur
       /\ \A p \in Tracked : workers[p].req # cur

\* A stored job has a child, or is the one a step is about to give a child to
\* or has taken one from.
CoveredOK ==
  pc # "down" =>
    \A j \in Stored(jobs) :
      \/ \E p \in Tracked : workers[p].req = jobs[j]
      \/ pc = "restore" /\ j \in todo
      \/ pc = "spawn" /\ jobs[j] = msg
      \/ pc \in {"commit", "complete"} /\ jobs[j] = cur

StepInv == TypeInv /\ OwnersOK /\ CoveredOK

\* One step keeps children and jobs together.
LEMMA OwnersStep ==
  ASSUME TypeOK, HandOK, KeysOK, OwnersOK, [Next]_vars
  PROVE  OwnersOK'
<1> USE DEF OwnersOK, Stored, msg, broker, storage, system, locals
<1>1. ASSUME NEW m \in Messages, Submit(m) PROVE OwnersOK'
  BY <1>1, AppendedIn DEF Submit, TypeOK, HandOK, Tracked
<1>2. ASSUME NEW r \in JobRequests, WorkerWrites(r) PROVE OwnersOK'
  BY <1>2 DEF WorkerWrites, Tracked
<1>3. ASSUME NEW p \in Pids, WorkerExits(p) PROVE OwnersOK'
  <2>1. /\ Tracked' = Tracked
        /\ \A q \in Tracked : workers'[q].req = workers[q].req
    BY <1>3, ExitKeepsTracked
  <2>2. UNCHANGED <<inbox, jobs, pc, todo, cur>>
    BY <1>3 DEF WorkerExits
  <2> QED
    BY <2>1, <2>2
<1>4. CASE Restart
  BY <1>4 DEF Restart, Tracked
<1>5. ASSUME NEW j \in JobIds, NEW p \in Pids, RestoreJob(j, p) PROVE OwnersOK'
  <2>1. jobs[j] \in JobRequests /\ JobIdOf[jobs[j]] = j
    BY <1>5 DEF TypeOK, HandOK, KeysOK, RestoreJob
  <2> QED
    BY <1>5, <2>1, TracksOne DEF RestoreJob
<1>6. ASSUME NEW j \in JobIds, RestoreFails(j) PROVE OwnersOK'
  BY <1>6, DiesTracked DEF RestoreFails, Dies
<1>7. CASE EndRestore
  BY <1>7 DEF EndRestore, Tracked
<1>8. CASE GetNothing
  BY <1>8 DEF GetNothing, Tracked, StartPolling
<1>9. CASE AnswerPing
  BY <1>9 DEF AnswerPing, Tracked
<1>10. CASE DropJunk
  BY <1>10 DEF DropJunk, Tracked
<1>11. CASE SkipJob
  BY <1>11 DEF SkipJob, Tracked
<1>12. CASE AcceptJob
  <2>1. jobs' = [jobs EXCEPT ![JobIdOf[msg]] = msg] /\ jobs[JobIdOf[msg]] = None
    BY <1>12 DEF AcceptJob
  <2>2. UNCHANGED <<inbox, workers>> /\ pc' = "spawn" /\ msg \in JobRequests
    BY <1>12 DEF AcceptJob
  <2>3. Tracked' = Tracked
    BY <2>2 DEF Tracked
  <2>4. jobs'[JobIdOf[msg]] = msg
    BY <2>1, <2>2, RequestsAssumption DEF TypeOK
  <2>5. ASSUME NEW p \in Tracked
        PROVE  /\ jobs'[JobIdOf[workers[p].req]] = workers[p].req
               /\ workers[p].req # msg
    <3>1. workers[p].req \in JobRequests
      BY DEF Tracked, TypeOK, Worker
    <3>2. jobs[JobIdOf[workers[p].req]] # None
      BY <3>1, NoneAssumption DEF Messages
    <3> QED
      BY <2>1, <3>1, <3>2, RequestsAssumption DEF TypeOK
  <2> QED
    BY <2>2, <2>3, <2>4, <2>5
<1>13. ASSUME NEW p \in Pids, SpawnJob(p) PROVE OwnersOK'
  BY <1>13, TracksOne DEF SpawnJob, HandOK
<1>14. CASE SpawnFails
  BY <1>14, DiesTracked DEF SpawnFails, Dies
<1>15. CASE Ack
  BY <1>15 DEF Ack, StartPolling, Tracked
<1>16. ASSUME NEW p \in Pids, KeepWorker(p) PROVE OwnersOK'
  BY <1>16 DEF KeepWorker, Tracked
<1>17. ASSUME NEW p \in Pids, CollectWorker(p) PROVE OwnersOK'
  <2>1. CASE Dies
    BY <2>1, DiesTracked DEF Dies
  <2>2. CASE ~Dies
    BY <1>17, <2>2, DrainedOne DEF CollectWorker, Drained, Tracked, Exited
  <2> QED
    BY <2>1, <2>2
<1>18. ASSUME NEW p \in Pids, WaitFails(p) PROVE OwnersOK'
  <2>1. p \in Tracked
    BY <1>18 DEF WaitFails, HandOK
  <2>2. Drained(p, Bad) /\ pc' = "complete" /\ UNCHANGED <<inbox, jobs>>
    BY <1>18 DEF WaitFails
  <2>3. Tracked' = Tracked \ {p} /\ \A q \in Tracked' : workers'[q] = workers[q]
    BY <2>2, DrainedOne
  <2>4. cur' = workers[p].req
    BY <2>2 DEF Drained
  <2> QED
    BY <2>1, <2>2, <2>3, <2>4
<1>19. CASE CommitCheckpoint
  BY <1>19 DEF CommitCheckpoint, Tracked
<1>20. CASE CompleteJob
  BY <1>20, RequestsAssumption, NoneAssumption DEF CompleteJob, TypeOK, HandOK, Tracked, Worker
<1>21. CASE StartSending
  BY <1>21 DEF StartSending, Tracked
<1>22. ASSUME NEW j \in JobIds, SendResult(j) PROVE OwnersOK'
  BY <1>22 DEF SendResult, Tracked
<1>23. ASSUME NEW j \in JobIds, SendFails(j) PROVE OwnersOK'
  BY <1>23 DEF SendFails, Tracked
<1>24. CASE RemoveResult
  BY <1>24 DEF RemoveResult, Tracked
<1>25. CASE EndTick
  BY <1>25 DEF EndTick, Tracked
<1>26. CASE Crash
  BY <1>26, DiesTracked DEF Crash, Dies
<1>27. CASE UNCHANGED vars
  BY <1>27 DEF vars, Tracked
<1> QED
  BY <1>1, <1>2, <1>3, <1>4, <1>5, <1>6, <1>7, <1>8, <1>9, <1>10, <1>11,
     <1>12, <1>13, <1>14, <1>15, <1>16, <1>17, <1>18, <1>19, <1>20, <1>21,
     <1>22, <1>23, <1>24, <1>25, <1>26, <1>27
  DEF Next, Dispatcher, GetMessage

\* One step leaves no stored job without a child.
LEMMA CoveredStep ==
  ASSUME TypeOK, HandOK, KeysOK, OwnersOK, CoveredOK, [Next]_vars
  PROVE  CoveredOK'
<1> USE DEF CoveredOK, Stored, msg, broker, storage, system, locals
<1>1. ASSUME NEW m \in Messages, Submit(m) PROVE CoveredOK'
  BY <1>1, AppendedIn DEF Submit, TypeOK, HandOK, Tracked
<1>2. ASSUME NEW r \in JobRequests, WorkerWrites(r) PROVE CoveredOK'
  BY <1>2 DEF WorkerWrites, Tracked
<1>3. ASSUME NEW p \in Pids, WorkerExits(p) PROVE CoveredOK'
  <2>1. /\ Tracked' = Tracked
        /\ \A q \in Tracked : workers'[q].req = workers[q].req
    BY <1>3, ExitKeepsTracked
  <2>2. UNCHANGED <<inbox, jobs, pc, todo, cur>>
    BY <1>3 DEF WorkerExits
  <2> QED
    BY <2>1, <2>2
<1>4. CASE Restart
  BY <1>4 DEF Restart, Tracked
<1>5. ASSUME NEW j \in JobIds, NEW p \in Pids, RestoreJob(j, p) PROVE CoveredOK'
  <2>1. jobs[j] \in JobRequests
    BY <1>5 DEF TypeOK, HandOK, RestoreJob
  <2> QED
    BY <1>5, <2>1, TracksOne DEF RestoreJob
<1>6. ASSUME NEW j \in JobIds, RestoreFails(j) PROVE CoveredOK'
  BY <1>6 DEF RestoreFails, Dies
<1>7. CASE EndRestore
  BY <1>7 DEF EndRestore, Tracked
<1>8. CASE GetNothing
  BY <1>8 DEF GetNothing, Tracked, StartPolling
<1>9. CASE AnswerPing
  BY <1>9 DEF AnswerPing, Tracked
<1>10. CASE DropJunk
  BY <1>10 DEF DropJunk, Tracked
<1>11. CASE SkipJob
  BY <1>11 DEF SkipJob, Tracked
<1>12. CASE AcceptJob
  <2>1. jobs' = [jobs EXCEPT ![JobIdOf[msg]] = msg]
    BY <1>12 DEF AcceptJob
  <2>2. UNCHANGED <<inbox, workers>> /\ pc = "get" /\ pc' = "spawn"
    BY <1>12 DEF AcceptJob
  <2>3. Tracked' = Tracked
    BY <2>2 DEF Tracked
  <2>4. ASSUME NEW j \in JobIds, jobs'[j] # None, j # JobIdOf[msg]
        PROVE  \E p \in Tracked : workers[p].req = jobs'[j]
    BY <2>1, <2>2, <2>4 DEF TypeOK
  <2>5. ASSUME NEW j \in JobIds, j = JobIdOf[msg] PROVE jobs'[j] = msg
    BY <2>1, <2>5 DEF TypeOK
  <2> QED
    BY <2>2, <2>3, <2>4, <2>5
<1>13. ASSUME NEW p \in Pids, SpawnJob(p) PROVE CoveredOK'
  BY <1>13, TracksOne DEF SpawnJob, HandOK
<1>14. CASE SpawnFails
  BY <1>14 DEF SpawnFails, Dies
<1>15. CASE Ack
  BY <1>15 DEF Ack, StartPolling, Tracked
<1>16. ASSUME NEW p \in Pids, KeepWorker(p) PROVE CoveredOK'
  BY <1>16 DEF KeepWorker, Tracked
<1>17. ASSUME NEW p \in Pids, CollectWorker(p) PROVE CoveredOK'
  <2>1. CASE Dies
    BY <2>1 DEF Dies
  <2>2. CASE ~Dies
    BY <1>17, <2>2, DrainedOne DEF CollectWorker, Drained
  <2> QED
    BY <2>1, <2>2
<1>18. ASSUME NEW p \in Pids, WaitFails(p) PROVE CoveredOK'
  <2>1. Drained(p, Bad) /\ pc = "poll" /\ pc' = "complete" /\ UNCHANGED jobs
    BY <1>18 DEF WaitFails
  <2>2. Tracked' = Tracked \ {p} /\ \A q \in Tracked' : workers'[q] = workers[q]
    BY <2>1, DrainedOne
  <2>3. cur' = workers[p].req
    BY <2>1 DEF Drained
  <2> QED
    BY <2>1, <2>2, <2>3
<1>19. CASE CommitCheckpoint
  BY <1>19 DEF CommitCheckpoint, Tracked
<1>20. CASE CompleteJob
  <2>1. jobs' = [jobs EXCEPT ![JobIdOf[cur]] = None] /\ UNCHANGED workers
    BY <1>20 DEF CompleteJob
  <2>2. ASSUME NEW j \in JobIds, jobs'[j] # None
        PROVE  jobs'[j] = jobs[j] /\ jobs[j] # None /\ jobs[j] # cur
    BY <2>1, <2>2 DEF TypeOK, KeysOK
  <2> QED
    BY <1>20, <2>1, <2>2 DEF CompleteJob, Tracked
<1>21. CASE StartSending
  BY <1>21 DEF StartSending, Tracked
<1>22. ASSUME NEW j \in JobIds, SendResult(j) PROVE CoveredOK'
  BY <1>22 DEF SendResult, Tracked
<1>23. ASSUME NEW j \in JobIds, SendFails(j) PROVE CoveredOK'
  BY <1>23 DEF SendFails, Tracked
<1>24. CASE RemoveResult
  BY <1>24 DEF RemoveResult, Tracked
<1>25. CASE EndTick
  BY <1>25 DEF EndTick, Tracked
<1>26. CASE Crash
  BY <1>26 DEF Crash, Dies
<1>27. CASE UNCHANGED vars
  BY <1>27 DEF vars, Tracked
<1> QED
  BY <1>1, <1>2, <1>3, <1>4, <1>5, <1>6, <1>7, <1>8, <1>9, <1>10, <1>11,
     <1>12, <1>13, <1>14, <1>15, <1>16, <1>17, <1>18, <1>19, <1>20, <1>21,
     <1>22, <1>23, <1>24, <1>25, <1>26, <1>27
  DEF Next, Dispatcher, GetMessage

LEMMA StepInvariant == Spec => []StepInv
<1>1. Init => StepInv
  BY InitType DEF StepInv, OwnersOK, CoveredOK, Init, Tracked
<1>2. StepInv /\ [Next]_vars => StepInv'
  BY NextType, OwnersStep, CoveredStep DEF StepInv, TypeInv
<1> QED
  BY <1>1, <1>2, PTL DEF Spec

\* Storage and the list of children agree in every reachable state.
THEOREM StorageMatched == Spec => []WorkersMatchStorage
<1>1. StepInv => WorkersMatchStorage
  BY DEF StepInv, OwnersOK, CoveredOK, WorkersMatchStorage
<1> QED
  BY <1>1, StepInvariant, PTL

-----------------------------------------------------------------------------
(* Acknowledged requests *)

\* Acknowledged ids are in hand, and so is what is about to be acknowledged; a
\* result that is about to be removed was sent.
AckOK ==
  /\ pc = "ack" /\ msg \in JobRequests => jobs[JobIdOf[msg]] # None
  /\ pc = "remove" => Answered(cur)
  /\ AckedIdIsSafe

\* One step loses no acknowledged id.
LEMMA AckStep ==
  ASSUME TypeOK, HandOK, KeysOK, OwnersOK, AckOK, [Next]_vars
  PROVE  AckOK'
<1> USE DEF AckOK, AckedIdIsSafe, Acked, InInbox, InHand, Answered, msg, broker, storage, system, locals
<1>1. ASSUME NEW m \in Messages, Submit(m) PROVE AckOK'
  <2>1. /\ sent' = sent \cup {m} /\ UNCHANGED <<delivered, jobs, results, pc, cur>>
        /\ inbox' = Append(inbox, m)
    BY <1>1 DEF Submit
  <2>2. /\ \A x : InInbox(x)' <=> InInbox(x) \/ x = m
        /\ inbox # <<>> => Head(inbox') = Head(inbox)
    BY <2>1, AppendedIn DEF TypeOK
  <2>3. AckedIdIsSafe'
    BY <2>1, <2>2
  <2> QED
    BY <2>1, <2>2, <2>3 DEF HandOK
<1>2. ASSUME NEW r \in JobRequests, WorkerWrites(r) PROVE AckOK'
  BY <1>2 DEF WorkerWrites
<1>3. ASSUME NEW p \in Pids, WorkerExits(p) PROVE AckOK'
  BY <1>3 DEF WorkerExits
<1>4. CASE Restart
  BY <1>4 DEF Restart
<1>5. ASSUME NEW j \in JobIds, NEW p \in Pids, RestoreJob(j, p) PROVE AckOK'
  BY <1>5 DEF RestoreJob
<1>6. ASSUME NEW j \in JobIds, RestoreFails(j) PROVE AckOK'
  BY <1>6 DEF RestoreFails, Dies
<1>7. CASE EndRestore
  BY <1>7 DEF EndRestore
<1>8. CASE GetNothing
  BY <1>8 DEF GetNothing, StartPolling
<1>9. CASE AnswerPing
  BY <1>9, RequestsAssumption DEF AnswerPing
<1>10. CASE DropJunk
  BY <1>10, RequestsAssumption DEF DropJunk
<1>11. CASE SkipJob
  BY <1>11 DEF SkipJob
<1>12. CASE AcceptJob
  <2>1. jobs' = [jobs EXCEPT ![JobIdOf[msg]] = msg] /\ msg \in JobRequests
    BY <1>12 DEF AcceptJob
  <2>2. UNCHANGED <<sent, inbox, delivered, results>> /\ pc' = "spawn"
    BY <1>12 DEF AcceptJob
  <2>3. \A j \in JobIds : jobs[j] # None => jobs'[j] # None
    BY <2>1, NoneAssumption DEF TypeOK, Messages
  <2> QED
    BY <2>2, <2>3, RequestsAssumption
<1>13. ASSUME NEW p \in Pids, SpawnJob(p) PROVE AckOK'
  BY <1>13, NoneAssumption DEF SpawnJob, OwnersOK, HandOK, Messages
<1>14. CASE SpawnFails
  BY <1>14 DEF SpawnFails, Dies
<1>15. CASE Ack
  <2>1. /\ inbox' = Tail(inbox) /\ inbox # <<>> /\ pc = "ack" /\ pc' = "poll"
        /\ UNCHANGED <<sent, delivered, jobs, results>>
    BY <1>15 DEF Ack, StartPolling, HandOK
  <2>2. \A x : InInbox(x) <=> InInbox(x)' \/ x = msg
    <3>1. inbox \in Seq(Messages)
      BY DEF TypeOK
    <3>2. \A x : (\E i \in 1..Len(inbox) : inbox[i] = x)
                 <=> (\E i \in 1..Len(Tail(inbox)) : Tail(inbox)[i] = x) \/ x = Head(inbox)
      BY <2>1, <3>1, TailIn
    <3> QED
      BY <2>1, <3>2
  <2> QED
    BY <2>1, <2>2
<1>16. ASSUME NEW p \in Pids, KeepWorker(p) PROVE AckOK'
  BY <1>16 DEF KeepWorker
<1>17. ASSUME NEW p \in Pids, CollectWorker(p) PROVE AckOK'
  BY <1>17 DEF CollectWorker, Drained, Dies
<1>18. ASSUME NEW p \in Pids, WaitFails(p) PROVE AckOK'
  BY <1>18 DEF WaitFails, Drained
<1>19. CASE CommitCheckpoint
  BY <1>19 DEF CommitCheckpoint
<1>20. CASE CompleteJob
  <2>1. /\ results' = [results EXCEPT ![JobIdOf[cur]] = [req |-> cur, out |-> out]]
        /\ jobs' = [jobs EXCEPT ![JobIdOf[cur]] = None]
        /\ UNCHANGED <<sent, inbox, delivered>> /\ pc' = "poll"
        /\ pc = "complete"
    BY <1>20 DEF CompleteJob
  <2>2. [req |-> cur, out |-> out] # None
    BY <2>1, NoneAssumption DEF HandOK, Result
  <2>3. \A j \in JobIds : jobs[j] # None \/ results[j] # None
                         => jobs'[j] # None \/ results'[j] # None
    BY <2>1, <2>2, RequestsAssumption DEF TypeOK
  <2> QED
    BY <2>1, <2>3, RequestsAssumption
<1>21. CASE StartSending
  BY <1>21 DEF StartSending
<1>22. ASSUME NEW j \in JobIds, SendResult(j) PROVE AckOK'
  <2>1. /\ delivered' = delivered \cup {results[j]} /\ cur' = results[j].req
        /\ UNCHANGED <<sent, inbox, jobs, results>> /\ pc' = "remove"
    BY <1>22 DEF SendResult
  <2> QED
    BY <2>1
<1>23. ASSUME NEW j \in JobIds, SendFails(j) PROVE AckOK'
  <2>1. /\ delivered \subseteq delivered' /\ pc = "send"
        /\ UNCHANGED <<sent, inbox, jobs, results, pc>>
    BY <1>23 DEF SendFails
  <2> QED
    BY <2>1
<1>24. CASE RemoveResult
  <2>1. /\ results' = [results EXCEPT ![JobIdOf[cur]] = None] /\ pc' = "send"
        /\ UNCHANGED <<sent, inbox, delivered, jobs>> /\ pc = "remove"
    BY <1>24 DEF RemoveResult
  <2>2. \A j \in JobIds : j # JobIdOf[cur] => results'[j] = results[j]
    BY <2>1 DEF TypeOK
  <2>3. cur \in JobRequests /\ Answered(cur)
    BY <2>1 DEF HandOK
  <2> QED
    BY <2>1, <2>2, <2>3, RequestsAssumption
<1>25. CASE EndTick
  BY <1>25 DEF EndTick
<1>26. CASE Crash
  BY <1>26 DEF Crash, Dies
<1>27. CASE UNCHANGED vars
  BY <1>27 DEF vars
<1> QED
  BY <1>1, <1>2, <1>3, <1>4, <1>5, <1>6, <1>7, <1>8, <1>9, <1>10, <1>11,
     <1>12, <1>13, <1>14, <1>15, <1>16, <1>17, <1>18, <1>19, <1>20, <1>21,
     <1>22, <1>23, <1>24, <1>25, <1>26, <1>27
  DEF Next, Dispatcher, GetMessage

LEMMA AckInvariant == Spec => []AckOK
<1>1. Init => AckOK
  BY DEF Init, AckOK, AckedIdIsSafe, Acked
<1>2. StepInv /\ AckOK /\ [Next]_vars => AckOK'
  BY AckStep DEF StepInv, TypeInv
<1> QED
  BY <1>1, <1>2, StepInvariant, PTL DEF Spec

\* No job id is forgotten once its request was acknowledged, for any number of
\* clients, jobs and crashes and whatever ids the clients choose.
THEOREM AckedIdsSafe == Spec => []AckedIdIsSafe
<1>1. AckOK => AckedIdIsSafe
  BY DEF AckOK
<1> QED
  BY <1>1, AckInvariant, PTL

\* No request of clients that do not reuse job ids is lost.
THEOREM AckedSafe ==
  ASSUME UniqueIds
  PROVE  Spec => []AckedIsSafe
<1>1. StepInv /\ AckedIdIsSafe => AckedIsSafe
  <2> SUFFICES ASSUME StepInv, AckedIdIsSafe, NEW r \in JobRequests, Acked(r)
               PROVE  r \in Kept \/ Answered(r)
    BY DEF AckedIsSafe
  <2> DEFINE i == JobIdOf[r]
  <2>1. i \in JobIds
    BY RequestsAssumption
  <2>2. CASE jobs[i] # None
    BY <2>1, <2>2 DEF StepInv, TypeInv, TypeOK, KeysOK, Stored, UniqueIds, Kept
  <2>3. CASE results[i] # None
    <3>1. results[i].req \in JobRequests /\ JobIdOf[results[i].req] = i
      BY <2>1, <2>3 DEF StepInv, TypeInv, TypeOK, KeysOK, Stored, Result
    <3> QED
      BY <2>3, <3>1 DEF UniqueIds, Kept
  <2>4. CASE \E q \in JobRequests : JobIdOf[q] = i /\ Answered(q)
    BY <2>4 DEF UniqueIds
  <2> QED
    BY <2>2, <2>3, <2>4 DEF AckedIdIsSafe, InHand
<1> QED
  BY <1>1, StepInvariant, AckedIdsSafe, PTL

\* A stored result stays until its client was sent it, when clients do not reuse
\* job ids (lib.rs:178 looks at jobs only, so with reused ids it may not).
THEOREM ResultsKept ==
  ASSUME UniqueIds
  PROVE  Spec => ResultIsKept
<1>1. StepInv /\ AckOK /\ [Next]_vars =>
        [\A j \in JobIds :
           results[j] # None =>
             \/ results'[j] # None /\ results'[j].req = results[j].req
             \/ Answered(results[j].req)]_vars
  <2> SUFFICES ASSUME StepInv, AckOK, Next, NEW j \in JobIds, results[j] # None
               PROVE  \/ results'[j] # None /\ results'[j].req = results[j].req
                      \/ Answered(results[j].req)
    OBVIOUS
  <2>1. results[j].req \in JobRequests /\ JobIdOf[results[j].req] = j
    BY DEF StepInv, TypeInv, TypeOK, KeysOK, Stored, Result
  <2>2. CASE CompleteJob
    <3>1. /\ cur \in JobRequests /\ [req |-> cur, out |-> out] # None
          /\ results' = [results EXCEPT ![JobIdOf[cur]] = [req |-> cur, out |-> out]]
      BY <2>2, NoneAssumption DEF CompleteJob, StepInv, TypeInv, HandOK, Result
    <3>2. JobIdOf[cur] = j => cur = results[j].req
      BY <2>1, <3>1 DEF UniqueIds
    <3> QED
      BY <3>1, <3>2 DEF StepInv, TypeInv, TypeOK
  <2>3. CASE RemoveResult
    <3>1. /\ cur \in JobRequests /\ Answered(cur)
          /\ results' = [results EXCEPT ![JobIdOf[cur]] = None]
      BY <2>3 DEF RemoveResult, StepInv, TypeInv, HandOK, AckOK
    <3>2. JobIdOf[cur] = j => cur = results[j].req
      BY <2>1, <3>1 DEF UniqueIds
    <3> QED
      BY <3>1, <3>2 DEF StepInv, TypeInv, TypeOK
  <2>4. CASE ~CompleteJob /\ ~RemoveResult
    <3>1. UNCHANGED results
      BY <2>4 DEF Next, Dispatcher, GetMessage, Submit, WorkerWrites, WorkerExits,
         Restart, RestoreJob, RestoreFails, EndRestore, GetNothing, AnswerPing,
         DropJunk, SkipJob, AcceptJob, SpawnJob, SpawnFails, Ack, KeepWorker,
         CollectWorker, WaitFails, CommitCheckpoint, StartSending, SendResult,
         SendFails, EndTick, Crash, Dies, storage
    <3> QED
      BY <3>1
  <2> QED
    BY <2>2, <2>3, <2>4
<1> QED
  BY <1>1, StepInvariant, AckInvariant, PTL DEF Spec, ResultIsKept

-----------------------------------------------------------------------------
(* What the answers say *)

\* A success in hand has the type of the job it belongs to, and is committed by
\* the time it is stored.
OutcomeOK ==
  /\ pc \in {"commit", "complete"} /\ out # Bad => TypeOf[out] = TypeOf[cur]
  /\ pc = "complete" /\ out # Bad => cur \in committed
  /\ SuccessIsCommitted
  /\ AnswerHasItsType

\* One step lets no unchecked success through.
LEMMA OutcomeStep ==
  ASSUME TypeOK, HandOK, KeysOK, OwnersOK, OutcomeOK, [Next]_vars
  PROVE  OutcomeOK'
<1> USE DEF OutcomeOK, SuccessIsCommitted, AnswerHasItsType, Answers, Stored, broker, storage, system, locals
<1>1. ASSUME NEW m \in Messages, Submit(m) PROVE OutcomeOK'
  BY <1>1 DEF Submit
<1>2. ASSUME NEW r \in JobRequests, WorkerWrites(r) PROVE OutcomeOK'
  BY <1>2 DEF WorkerWrites
<1>3. ASSUME NEW p \in Pids, WorkerExits(p) PROVE OutcomeOK'
  BY <1>3 DEF WorkerExits
<1>4. CASE Restart
  BY <1>4 DEF Restart
<1>5. ASSUME NEW j \in JobIds, NEW p \in Pids, RestoreJob(j, p) PROVE OutcomeOK'
  BY <1>5 DEF RestoreJob
<1>6. ASSUME NEW j \in JobIds, RestoreFails(j) PROVE OutcomeOK'
  BY <1>6 DEF RestoreFails, Dies
<1>7. CASE EndRestore
  BY <1>7 DEF EndRestore
<1>8. CASE GetNothing
  BY <1>8 DEF GetNothing, StartPolling
<1>9. CASE AnswerPing
  BY <1>9 DEF AnswerPing
<1>10. CASE DropJunk
  BY <1>10 DEF DropJunk
<1>11. CASE SkipJob
  BY <1>11 DEF SkipJob
<1>12. CASE AcceptJob
  BY <1>12 DEF AcceptJob
<1>13. ASSUME NEW p \in Pids, SpawnJob(p) PROVE OutcomeOK'
  BY <1>13 DEF SpawnJob
<1>14. CASE SpawnFails
  BY <1>14 DEF SpawnFails, Dies
<1>15. CASE Ack
  BY <1>15 DEF Ack, StartPolling
<1>16. ASSUME NEW p \in Pids, KeepWorker(p) PROVE OutcomeOK'
  BY <1>16 DEF KeepWorker
<1>17. ASSUME NEW p \in Pids, CollectWorker(p) PROVE OutcomeOK'
  <2>1. CASE Dies
    BY <2>1 DEF Dies
  <2>2. CASE ~Dies
    <3> DEFINE r == workers[p].req
    <3>1. /\ Drained(p, IF workers[p].st = "ok" THEN Extracted(r) ELSE Bad)
          /\ pc' = IF out' = Bad THEN "complete" ELSE "commit"
          /\ UNCHANGED <<storage, delivered, committed>>
      BY <1>17, <2>2 DEF CollectWorker
    <3>2. jobs[JobIdOf[r]] = r
      BY <1>17 DEF CollectWorker, HandOK, OwnersOK
    <3>3. out' # Bad => TypeOf[out'] = TypeOf[r]
      BY <3>1, <3>2 DEF Drained, Extracted
    <3>4. cur' = r
      BY <3>1 DEF Drained
    <3> QED
      BY <3>1, <3>3, <3>4
  <2> QED
    BY <2>1, <2>2
<1>18. ASSUME NEW p \in Pids, WaitFails(p) PROVE OutcomeOK'
  BY <1>18 DEF WaitFails, Drained
<1>19. CASE CommitCheckpoint
  BY <1>19 DEF CommitCheckpoint, HandOK
<1>20. CASE CompleteJob
  <2>1. /\ results' = [results EXCEPT ![JobIdOf[cur]] = [req |-> cur, out |-> out]]
        /\ UNCHANGED <<delivered, committed>> /\ pc' = "poll" /\ pc = "complete"
    BY <1>20 DEF CompleteJob
  <2>2. Answers' \subseteq Answers \cup {[req |-> cur, out |-> out]}
    BY <2>1 DEF TypeOK
  <2> QED
    BY <2>1, <2>2
<1>21. CASE StartSending
  BY <1>21 DEF StartSending
<1>22. ASSUME NEW j \in JobIds, SendResult(j) PROVE OutcomeOK'
  <2>1. /\ delivered' = delivered \cup {results[j]} /\ results[j] \in Answers
        /\ UNCHANGED <<results, committed>> /\ pc' = "remove"
    BY <1>22 DEF SendResult, HandOK
  <2>2. Answers' \subseteq Answers
    BY <2>1
  <2> QED
    BY <2>1, <2>2
<1>23. ASSUME NEW j \in JobIds, SendFails(j) PROVE OutcomeOK'
  <2>1. /\ delivered' \subseteq delivered \cup {results[j]} /\ results[j] \in Answers
        /\ UNCHANGED <<results, committed, pc>> /\ pc = "send"
    BY <1>23 DEF SendFails, HandOK
  <2>2. Answers' \subseteq Answers
    BY <2>1
  <2> QED
    BY <2>1, <2>2
<1>24. CASE RemoveResult
  <2>1. /\ results' = [results EXCEPT ![JobIdOf[cur]] = None]
        /\ UNCHANGED <<delivered, committed>> /\ pc' = "send"
    BY <1>24 DEF RemoveResult
  <2>2. Answers' \subseteq Answers
    BY <2>1 DEF TypeOK
  <2> QED
    BY <2>1, <2>2
<1>25. CASE EndTick
  BY <1>25 DEF EndTick
<1>26. CASE Crash
  BY <1>26 DEF Crash, Dies
<1>27. CASE UNCHANGED vars
  BY <1>27 DEF vars
<1> QED
  BY <1>1, <1>2, <1>3, <1>4, <1>5, <1>6, <1>7, <1>8, <1>9, <1>10, <1>11,
     <1>12, <1>13, <1>14, <1>15, <1>16, <1>17, <1>18, <1>19, <1>20, <1>21,
     <1>22, <1>23, <1>24, <1>25, <1>26, <1>27
  DEF Next, Dispatcher, GetMessage

LEMMA OutcomeInvariant == Spec => []OutcomeOK
<1>1. Init => OutcomeOK
  BY DEF Init, OutcomeOK, SuccessIsCommitted, AnswerHasItsType, Answers, Stored
<1>2. StepInv /\ OutcomeOK /\ [Next]_vars => OutcomeOK'
  BY OutcomeStep DEF StepInv, TypeInv
<1> QED
  BY <1>1, <1>2, StepInvariant, PTL DEF Spec

\* No client is told of a success whose checkpoint output is not committed.
THEOREM SuccessCommitted == Spec => []SuccessIsCommitted
<1>1. OutcomeOK => SuccessIsCommitted
  BY DEF OutcomeOK
<1> QED
  BY <1>1, OutcomeInvariant, PTL

\* No client is given as a success a result of another type than its job's,
\* however result files are shared.
THEOREM AnswersTyped == Spec => []AnswerHasItsType
<1>1. OutcomeOK => AnswerHasItsType
  BY DEF OutcomeOK
<1> QED
  BY <1>1, OutcomeInvariant, PTL

\* A request that is acknowledged and no longer a stored job never runs again.
THEOREM NoRerunAfterAck == Spec => NoLateRerun
<1>1. StepInv /\ [Next]_vars =>
        [\A r \in JobRequests :
           Acked(r) /\ jobs[JobIdOf[r]] # r => jobs'[JobIdOf[r]] # r]_vars
  <2> SUFFICES ASSUME StepInv, Next, NEW r \in JobRequests,
                      Acked(r), jobs[JobIdOf[r]] # r
               PROVE  jobs'[JobIdOf[r]] # r
    OBVIOUS
  <2>1. CASE AcceptJob
    <3>1. InInbox(msg)
      BY <2>1, TailIn DEF AcceptJob, InInbox, msg, StepInv, TypeInv, TypeOK
    <3>2. r # msg
      BY <3>1 DEF Acked
    <3> QED
      BY <2>1, <3>2 DEF AcceptJob, StepInv, TypeInv, TypeOK
  <2>2. CASE CompleteJob
    BY <2>2, NoneAssumption DEF CompleteJob, Messages, StepInv, TypeInv, TypeOK
  <2>3. CASE ~AcceptJob /\ ~CompleteJob
    <3>1. UNCHANGED jobs
      BY <2>3 DEF Next, Dispatcher, GetMessage, Submit, WorkerWrites, WorkerExits,
         Restart, RestoreJob, RestoreFails, EndRestore, GetNothing, AnswerPing,
         DropJunk, SkipJob, SpawnJob, SpawnFails, Ack, KeepWorker, CollectWorker,
         WaitFails, CommitCheckpoint, StartSending, SendResult, SendFails,
         RemoveResult, EndTick, Crash, Dies, storage
    <3> QED
      BY <3>1
  <2> QED
    BY <2>1, <2>2, <2>3
<1> QED
  BY <1>1, StepInvariant, PTL DEF Spec, NoLateRerun

\* With a result file per request, no file holds the output of another.
FilesOK ==
  /\ \A r \in JobRequests : files[FileOf[r]] \in {r, Bad}
  /\ pc \in {"commit", "complete"} => out \in {cur, Bad}
  /\ AnswerIsItsOwn

\* A success carries the output of the request it answers.
THEOREM AnswersOwn ==
  ASSUME UniqueFiles
  PROVE  Spec => []AnswerIsItsOwn
<1> USE DEF FilesOK, AnswerIsItsOwn, Answers, Stored
<1>1. Init => FilesOK
  BY RequestsAssumption DEF Init
<1>2. StepInv /\ FilesOK /\ [Next]_vars => FilesOK'
  <2> SUFFICES ASSUME StepInv, FilesOK, [Next]_vars PROVE FilesOK'
    OBVIOUS
  <2> USE DEF StepInv, TypeInv, TypeOK
  <2>1. ASSUME NEW r \in JobRequests, WorkerWrites(r) PROVE FilesOK'
    <3>1. PICK c \in {r, Bad} : files' = [files EXCEPT ![FileOf[r]] = c]
      BY <2>1 DEF WorkerWrites
    <3>2. \A q \in JobRequests : files'[FileOf[q]] \in {q, Bad}
      BY <3>1, RequestsAssumption DEF UniqueFiles
    <3> QED
      BY <2>1, <3>2 DEF WorkerWrites, broker, storage, locals
  <2>2. ASSUME NEW p \in Pids, CollectWorker(p) PROVE FilesOK'
    <3>1. CASE Dies
      BY <3>1 DEF Dies, broker, storage
    <3>2. CASE ~Dies
      <4> DEFINE r == workers[p].req
      <4>1. /\ Drained(p, IF workers[p].st = "ok" THEN Extracted(r) ELSE Bad)
            /\ UNCHANGED <<delivered, results, files>>
        BY <2>2, <3>2 DEF CollectWorker, broker, storage, system
      <4>2. r \in JobRequests
        BY <2>2 DEF CollectWorker, Exited, Worker
      <4>3. Extracted(r) \in {r, Bad}
        BY <4>2 DEF Extracted
      <4> QED
        BY <4>1, <4>3 DEF Drained
    <3> QED
      BY <3>1, <3>2
  <2>3. ASSUME NEW p \in Pids, WaitFails(p) PROVE FilesOK'
    BY <2>3 DEF WaitFails, Drained, broker, storage
  <2>4. CASE CompleteJob
    <3>1. /\ results' = [results EXCEPT ![JobIdOf[cur]] = [req |-> cur, out |-> out]]
          /\ UNCHANGED <<delivered, files>> /\ pc' = "poll" /\ pc = "complete"
      BY <2>4 DEF CompleteJob, broker, system
    <3>2. Answers' \subseteq Answers \cup {[req |-> cur, out |-> out]}
      BY <3>1
    <3> QED
      BY <3>1, <3>2
  <2>5. ASSUME NEW j \in JobIds, SendResult(j) \/ SendFails(j) PROVE FilesOK'
    <3>1. results[j] \in Answers /\ delivered' \subseteq delivered \cup {results[j]}
      BY <2>5 DEF SendResult, SendFails, HandOK
    <3>2. UNCHANGED <<results, files>> /\ pc' \in {"send", "remove"}
      BY <2>5 DEF SendResult, SendFails, storage, system
    <3>3. Answers' \subseteq Answers
      BY <3>1, <3>2
    <3> QED
      BY <3>2, <3>3
  <2>6. CASE RemoveResult
    <3>1. /\ results' = [results EXCEPT ![JobIdOf[cur]] = None]
          /\ UNCHANGED <<delivered, files>> /\ pc' = "send"
      BY <2>6 DEF RemoveResult, broker, system
    <3>2. Answers' \subseteq Answers
      BY <3>1
    <3> QED
      BY <3>1, <3>2
  <2>7. ASSUME ~\E r \in JobRequests : WorkerWrites(r),
               ~\E p \in Pids : CollectWorker(p) \/ WaitFails(p),
               ~\E j \in JobIds : SendResult(j) \/ SendFails(j),
               ~CompleteJob, ~RemoveResult
        PROVE  FilesOK'
    <3>1. /\ UNCHANGED <<results, delivered, files>>
          /\ \/ pc' \notin {"commit", "complete"}
             \/ UNCHANGED <<pc, cur, out>>
             \/ pc = "commit" /\ UNCHANGED <<cur, out>>
      BY <2>7 DEF Next, Dispatcher, GetMessage, Submit, WorkerExits,
         Restart, RestoreJob, RestoreFails, EndRestore, GetNothing, AnswerPing,
         DropJunk, SkipJob, AcceptJob, SpawnJob, SpawnFails, Ack, KeepWorker,
         CommitCheckpoint, StartSending, StartPolling, EndTick, Crash, Dies, vars,
         broker, storage, system, locals
    <3> QED
      BY <3>1
  <2> QED
    BY <2>1, <2>2, <2>3, <2>4, <2>5, <2>6, <2>7
<1>3. FilesOK => AnswerIsItsOwn
  OBVIOUS
<1> QED
  BY <1>1, <1>2, <1>3, StepInvariant, PTL DEF Spec

=============================================================================
