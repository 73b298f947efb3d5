---------------------------- MODULE TxDispatcher ----------------------------
(***************************************************************************)
(* The dispatcher in local mode with its store taken apart                 *)
(* (dispatcher/src/dispatcher_storage.rs).  JobDispatcher stores a job in  *)
(* one step, and replaces a job by its result in another.  The code begins *)
(* a transaction, writes to it and commits it: workers go on meanwhile,    *)
(* the process may be lost before any of these calls, and a write that     *)
(* fails rolls the others back.                                            *)
(*                                                                         *)
(* All else is JobDispatcher's.  As long as a transaction is open the      *)
(* variables of JobDispatcher stay as they were when it began, so this     *)
(* specification implements JobDispatcher when those variables are left    *)
(* as they are and `tx` is hidden.                                         *)
(***************************************************************************)
EXTENDS JobDispatcher

VARIABLE tx  \* the calls made for the open transaction, <<>> when none is open

tvars == <<vars, tx>>

\* set, or with the value None remove, for the job or the result of id j.
Write(key, j, value) == [key |-> key, id |-> j, value |-> value]

\* begin_transaction.
Begin == Write("begin", None, None)

\* The value under a key of a namespace once the writes of the transaction are
\* applied to what was stored before.
After(key, j, old) ==
  IF \E i \in 1..Len(tx) : tx[i].key = key /\ tx[i].id = j
    THEN tx[CHOOSE i \in 1..Len(tx) : tx[i].key = key /\ tx[i].id = j].value
    ELSE old

TxInit == Init /\ tx = <<>>

-----------------------------------------------------------------------------

Begins == tx = <<>> /\ tx' = <<Begin>>

\* A write of the transaction: nothing is stored yet.
Writes(w) == tx' = Append(tx, w) /\ UNCHANGED vars

\* commit_transaction: all writes are stored at once.
Commits ==
  /\ jobs' = [j \in JobIds |-> After("job", j, jobs[j])]
  /\ results' = [j \in JobIds |-> After("result", j, results[j])]
  /\ tx' = <<>>

-----------------------------------------------------------------------------
(* persist_job *)

\* contains_job has found nothing.
BeginPersist ==
  /\ pc = "get" /\ inbox # <<>> /\ msg \in JobRequests
  /\ jobs[JobIdOf[msg]] = None
  /\ Begins
  /\ UNCHANGED vars

SetJob ==
  /\ pc = "get" /\ Len(tx) = 1
  /\ Writes(Write("job", JobIdOf[msg], msg))

CommitPersist ==
  /\ pc = "get" /\ Len(tx) = 2
  /\ Commits
  /\ pc' = "spawn"
  /\ UNCHANGED <<broker, system, locals, crashes>>

-----------------------------------------------------------------------------
(* complete_job *)

BeginComplete ==
  /\ pc = "complete"
  /\ Begins
  /\ UNCHANGED vars

result == [req |-> cur, out |-> out]

\* Variant: the result is written past the transaction.
SetResultDirectly ==
  /\ pc = "complete" /\ Len(tx) = 1
  /\ results' = [results EXCEPT ![JobIdOf[cur]] = result]
  /\ tx' = Append(tx, Write("result", JobIdOf[cur], result))
  /\ UNCHANGED <<broker, jobs, system, pc, locals, crashes>>

SetResult ==
  /\ pc = "complete" /\ Len(tx) = 1
  /\ Writes(Write("result", JobIdOf[cur], result))

RemoveJob ==
  /\ pc = "complete" /\ Len(tx) = 2
  /\ Writes(Write("job", JobIdOf[cur], None))

CommitComplete ==
  /\ pc = "complete" /\ Len(tx) = 3
  /\ Commits
  /\ pc' = "poll"
  /\ cur' = None /\ out' = None
  /\ UNCHANGED <<broker, system, workers, todo, crashes>>

-----------------------------------------------------------------------------

\* Variant: what was written is kept.
TxCrashKeepsWrites ==
  /\ Crash
  /\ tx' = tx

\* A write fails and the transaction is rolled back, or the process is lost:
\* what was written is gone.
TxCrash ==
  /\ Crash
  /\ tx' = <<>>

Transaction ==
  \/ BeginPersist
  \/ SetJob
  \/ CommitPersist
  \/ BeginComplete
  \/ SetResult
  \/ RemoveJob
  \/ CommitComplete

\* create_new_jobs finds a message that needs no transaction.
TakeOther == AnswerPing \/ DropJunk \/ SkipJob

\* What the dispatcher does outside transactions.  AcceptJob and CompleteJob
\* are the steps that Transaction takes apart.
Others ==
  \/ \E j \in JobIds, p \in Pids : RestoreJob(j, p)
  \/ \E j \in JobIds : RestoreFails(j)
  \/ EndRestore
  \/ GetNothing
  \/ TakeOther
  \/ \E p \in Pids : SpawnJob(p)
  \/ SpawnFails
  \/ Ack
  \/ \E p \in Pids : KeepWorker(p) \/ CollectWorker(p) \/ WaitFails(p)
  \/ CommitCheckpoint
  \/ StartSending
  \/ \E j \in JobIds : SendResult(j) \/ SendFails(j)
  \/ RemoveResult
  \/ EndTick

TxSteps ==
  \/ Transaction
  \/ Others /\ tx = <<>> /\ UNCHANGED tx

Surroundings ==
  /\ \/ \E m \in Messages : Submit(m)
     \/ \E r \in JobRequests : WorkerWrites(r)
     \/ \E p \in Pids : WorkerExits(p)
     \/ Restart
  /\ UNCHANGED tx

TxNext == TxSteps \/ Surroundings \/ TxCrash

TxSpec == TxInit /\ [][TxNext]_tvars

\* A message is taken by one of endlessly many calls of get, be it a job or
\* not.
TakesMessage ==
  \/ BeginPersist
  \/ TakeOther /\ tx = <<>> /\ UNCHANGED tx

\* The fairness of JobDispatcher, for the steps of this module.
TxFairness ==
  /\ WF_tvars(Restart /\ UNCHANGED tx)
  /\ WF_tvars(TxSteps)
  /\ \A p \in Pids : WF_tvars(WorkerExits(p) /\ UNCHANGED tx)
  /\ SF_tvars(TakesMessage)
  /\ \A j \in JobIds : SF_tvars(SendResult(j) /\ tx = <<>> /\ UNCHANGED tx)

TxFairSpec == TxSpec /\ TxFairness

-----------------------------------------------------------------------------
(* Properties *)

\* A transaction is open only inside persist_job and complete_job, and holds
\* the writes these have made so far.
TxTypeOK ==
  \/ tx = <<>>
  \/ /\ pc = "get" /\ inbox # <<>> /\ msg \in JobRequests
     /\ jobs[JobIdOf[msg]] = None
     /\ tx \in {<<Begin>>, <<Begin, Write("job", JobIdOf[msg], msg)>>}
  \/ /\ pc = "complete"
     /\ LET w == Write("result", JobIdOf[cur], result)
        IN tx \in {<<Begin>>, <<Begin, w>>,
                   <<Begin, w, Write("job", JobIdOf[cur], None)>>}

\* Every behaviour is one of JobDispatcher, in which a job is stored, and is
\* replaced by its result, in one step: neither a failed write nor a crash
\* between two calls leaves half of it (dispatcher_storage.rs:47, 94).
ImplementsDispatcher == Spec

=============================================================================
