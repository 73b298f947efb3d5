---------------------------- MODULE JobDispatcher ----------------------------
(***************************************************************************)
(* The dispatcher in local mode: DispatcherHandler (dispatcher/src/lib.rs) *)
(* over DispatcherStorage (dispatcher_storage.rs), with the three things   *)
(* it talks to: the broker that queues its messages, the operating system  *)
(* that runs the worker processes, and the files those workers write.      *)
(*                                                                         *)
(* The dispatcher is one thread: a tick is create_new_jobs, then           *)
(* process_running_jobs, then send_results.  A tick is cut into steps only *)
(* where something outside the thread can tell the difference: at each     *)
(* durable write, each broker call and each process it spawns.  `pc` says  *)
(* which step is next, so the order of the code is the only order; the     *)
(* process can die between any two steps.                                  *)
(*                                                                         *)
(* A definition marked "Variant" is a slip the code does not make; Next    *)
(* does not use it.  It is what a property of this module must rule out.   *)
(***************************************************************************)
EXTENDS Naturals, Sequences, FiniteSets

CONSTANTS
  JobRequests,  \* broker messages that decode as a DispatcherJob
  Pings,        \* broker messages that decode as PingMessage::Ping
  Junk,         \* Pong messages and messages that do not decode
  JobIds,       \* job ids, chosen by the clients
  Files,        \* paths of result files, chosen by the clients
  Types,        \* message types of results
  JobIdOf,      \* JobIdOf[r]: the job_id of request r
  FileOf,       \* FileOf[r]: the result file its command names
  TypeOf,       \* TypeOf[r]: the message_type its result must have
  Unspawnable,  \* requests whose prepare_local_input, command or spawn fails
  Pids,         \* slots for the children the dispatcher tracks
  MaxCrashes,   \* bound: how often the dispatcher process may be lost
  None,         \* no job, no result, no process, nothing in hand
  Bad           \* no usable file contents; the text of an error result

Messages == JobRequests \cup Pings \cup Junk

\* A child of the dispatcher; one that ended keeps its status until reaped.
Worker == [req : JobRequests, st : {"running", "ok", "failed"}]

\* ResultMessage with its addressee: out is the request whose output the
\* client is given (is_error = false), or Bad (is_error = true).
Result == [req : JobRequests, out : JobRequests \cup {Bad}]

ASSUME RequestsAssumption ==
  /\ JobIdOf \in [JobRequests -> JobIds]
  /\ FileOf \in [JobRequests -> Files]
  /\ TypeOf \in [JobRequests -> Types]
  /\ Unspawnable \subseteq JobRequests
  /\ JobRequests \cap (Pings \cup Junk) = {}
  /\ Pings \cap Junk = {}

ASSUME NoneAssumption ==
  /\ None \notin Messages
  /\ Bad \notin Messages
  /\ None # Bad
  /\ None \notin Worker \cup Result

ASSUME MaxCrashesAssumption == MaxCrashes \in Nat

VARIABLES
  \* the broker, which outlives the dispatcher
  sent,       \* messages clients have sent to the dispatcher
  inbox,      \* the dispatcher's queue: get reads its head, ack removes it
  pongs,      \* pings a Pong was queued for
  delivered,  \* results queued for the client that asked
  \* DispatcherStorage, which outlives the dispatcher
  jobs,       \* jobs[j]: the request stored under dispatcher/job/j
  results,    \* results[j]: the result stored under dispatcher/result/j
  \* the operating system
  orphans,    \* requests of workers that outlived their dispatcher: one that
              \* has ended by now is one that never writes again
  files,      \* files[f]: what the result file f holds
  committed,  \* requests whose checkpoint output was copied to its base
  \* the dispatcher process
  pc,         \* the step it is about to take, or "down"
  workers,    \* workers[p]: the child tracked in slot p
  todo,       \* what is left of the loop it is in: job ids or slots
  cur,        \* the request whose worker or result it has in hand
  out,        \* the outcome it will store for cur
  crashes     \* how often it was lost so far

broker  == <<sent, inbox, pongs, delivered>>
storage == <<jobs, results>>
system  == <<orphans, files, committed>>
locals  == <<workers, todo, cur, out>>
vars    == <<broker, storage, system, pc, locals, crashes>>

-----------------------------------------------------------------------------

Tracked    == {p \in Pids : workers[p] # None}
Running(p) == workers[p] # None /\ workers[p].st = "running"
Exited(p)  == workers[p] # None /\ workers[p].st # "running"

\* The message create_new_jobs has in hand: get does not remove it.
msg == Head(inbox)

InInbox(m) == \E i \in 1..Len(inbox) : inbox[i] = m

Stored(js) == {j \in JobIds : js[j] # None}

\* A child of request r joins the workers.
Tracks(p, r) ==
  /\ workers[p] = None
  /\ workers' = [workers EXCEPT ![p] = [req |-> r, st |-> "running"]]

\* The dispatcher process ends.  Dropping a Child does not kill it: the
\* workers that still run are orphans from then on.
Dies ==
  /\ pc' = "down"
  /\ orphans' = orphans \cup {workers[p].req : p \in {q \in Pids : Running(q)}}
  /\ workers' = [p \in Pids |-> None]
  /\ todo' = {} /\ cur' = None /\ out' = None
  /\ UNCHANGED <<broker, storage, files, committed>>

Init ==
  /\ sent = {} /\ inbox = <<>> /\ pongs = {} /\ delivered = {}
  /\ jobs = [j \in JobIds |-> None]
  /\ results = [j \in JobIds |-> None]
  /\ orphans = {}
  /\ files = [f \in Files |-> Bad]
  /\ committed = {}
  /\ pc = "down"
  /\ workers = [p \in Pids |-> None]
  /\ todo = {} /\ cur = None /\ out = None
  /\ crashes = 0

-----------------------------------------------------------------------------
(* Clients and workers *)

\* A client sends message m to the dispatcher.
Submit(m) ==
  /\ m \notin sent
  /\ sent' = sent \cup {m}
  /\ inbox' = Append(inbox, m)
  /\ UNCHANGED <<pongs, delivered, storage, system, pc, locals, crashes>>

\* A worker, tracked or orphaned, writes its result file: its own output, or
\* something that does not parse or has another type.
WorkerWrites(r) ==
  /\ r \in orphans \/ \E p \in Pids : Running(p) /\ workers[p].req = r
  /\ \E c \in {r, Bad} : files' = [files EXCEPT ![FileOf[r]] = c]
  /\ UNCHANGED <<broker, storage, orphans, committed, pc, locals, crashes>>

\* A tracked worker ends, with or without success, whatever it has written.
WorkerExits(p) ==
  /\ Running(p)
  /\ \E st \in {"ok", "failed"} : workers' = [workers EXCEPT ![p].st = st]
  /\ UNCHANGED <<broker, storage, system, pc, todo, cur, out, crashes>>

-----------------------------------------------------------------------------
(* Start: DispatcherHandler::new and restore_jobs *)

\* Variant: new without restore_jobs.
RestartForgetsJobs ==
  /\ pc = "down"
  /\ pc' = "restore"
  /\ UNCHANGED <<broker, storage, system, locals, crashes>>

Restart ==
  /\ pc = "down"
  /\ pc' = "restore"
  /\ todo' = Stored(jobs)
  /\ UNCHANGED <<broker, storage, system, workers, cur, out, crashes>>

RestoreJob(j, p) ==
  /\ pc = "restore" /\ j \in todo
  /\ jobs[j] \notin Unspawnable
  /\ Tracks(p, jobs[j])
  /\ todo' = todo \ {j}
  /\ UNCHANGED <<broker, storage, system, pc, cur, out, crashes>>

\* spawn_local_job fails: new returns the error and the process ends.
RestoreFails(j) ==
  /\ pc = "restore" /\ j \in todo
  /\ jobs[j] \in Unspawnable
  /\ Dies
  /\ UNCHANGED crashes

EndRestore ==
  /\ pc = "restore" /\ todo = {}
  /\ pc' = "get"
  /\ UNCHANGED <<broker, storage, system, locals, crashes>>

-----------------------------------------------------------------------------
(* create_new_jobs *)

StartPolling ==
  /\ pc' = "poll"
  /\ todo' = Tracked
  /\ UNCHANGED <<workers, cur, out>>

\* get has no message, or fails: a failure is only logged.
GetNothing ==
  /\ pc = "get"
  /\ StartPolling
  /\ UNCHANGED <<broker, storage, system, crashes>>

\* A Ping: a Pong is sent.  That the broker may refuse it is not looked at.
AnswerPing ==
  /\ pc = "get" /\ inbox # <<>> /\ msg \in Pings
  /\ pongs' \in {pongs, pongs \cup {msg}}
  /\ pc' = "ack"
  /\ UNCHANGED <<sent, inbox, delivered, storage, system, locals, crashes>>

\* Variant: it is ignored, and not acknowledged.
DropJunkNoAck ==
  /\ pc = "get" /\ inbox # <<>> /\ msg \in Junk
  /\ StartPolling
  /\ UNCHANGED <<broker, storage, system, crashes>>

\* A Pong, or a message that does not decode, is dropped.
DropJunk ==
  /\ pc = "get" /\ inbox # <<>> /\ msg \in Junk
  /\ pc' = "ack"
  /\ UNCHANGED <<broker, storage, system, locals, crashes>>

\* Variant: any stored job will do, whatever its id.
SkipJobAnyId ==
  /\ pc = "get" /\ inbox # <<>> /\ msg \in JobRequests
  /\ Stored(jobs) # {}
  /\ pc' = "ack"
  /\ UNCHANGED <<broker, storage, system, locals, crashes>>

\* contains_job: a stored job has this id already.
SkipJob ==
  /\ pc = "get" /\ inbox # <<>> /\ msg \in JobRequests
  /\ jobs[JobIdOf[msg]] # None
  /\ pc' = "ack"
  /\ UNCHANGED <<broker, storage, system, locals, crashes>>

\* Variant: no contains_job.
AcceptJobAnyway ==
  /\ pc = "get" /\ inbox # <<>> /\ msg \in JobRequests
  /\ jobs' = [jobs EXCEPT ![JobIdOf[msg]] = msg]
  /\ pc' = "spawn"
  /\ UNCHANGED <<broker, results, system, locals, crashes>>

\* persist_job.
AcceptJob ==
  /\ pc = "get" /\ inbox # <<>> /\ msg \in JobRequests
  /\ jobs[JobIdOf[msg]] = None
  /\ jobs' = [jobs EXCEPT ![JobIdOf[msg]] = msg]
  /\ pc' = "spawn"
  /\ UNCHANGED <<broker, results, system, locals, crashes>>

\* spawn_local_job, and the child joins the workers.
SpawnJob(p) ==
  /\ pc = "spawn"
  /\ msg \notin Unspawnable
  /\ Tracks(p, msg)
  /\ pc' = "ack"
  /\ UNCHANGED <<broker, storage, system, todo, cur, out, crashes>>

\* Variant: the job is dropped, and its message acknowledged.
SpawnFailsDrops ==
  /\ pc = "spawn"
  /\ msg \in Unspawnable
  /\ jobs' = [jobs EXCEPT ![JobIdOf[msg]] = None]
  /\ pc' = "ack"
  /\ UNCHANGED <<broker, results, system, locals, crashes>>

\* spawn_local_job fails: tick returns the error and the process ends.
SpawnFails ==
  /\ pc = "spawn"
  /\ msg \in Unspawnable
  /\ Dies
  /\ UNCHANGED crashes

Ack ==
  /\ pc = "ack"
  /\ inbox' = Tail(inbox)
  /\ StartPolling
  /\ UNCHANGED <<sent, pongs, delivered, storage, system, crashes>>

-----------------------------------------------------------------------------
(* process_running_jobs *)

\* try_wait: the child still runs, and is kept.
KeepWorker(p) ==
  /\ pc = "poll" /\ p \in todo
  /\ Running(p)
  /\ todo' = todo \ {p}
  /\ UNCHANGED <<broker, storage, system, pc, workers, cur, out, crashes>>

\* Variant: any text that parses is a result.
ExtractedAnyType(r) ==
  LET text == files[FileOf[r]]
      job  == jobs[JobIdOf[r]]
  IN IF text \in JobRequests THEN text ELSE Bad

\* Variant: any file with a result of the right type is read.
ExtractedAnyFile(r) ==
  LET found == {q \in JobRequests : \E f \in Files : files[f] = q}
      fit   == {q \in found : TypeOf[q] = TypeOf[jobs[JobIdOf[r]]]}
  IN IF fit # {} THEN CHOOSE q \in fit : TRUE ELSE Bad

\* The text read from the result file of r, if extract_structured_json finds
\* in it the type that the stored job expects; Bad otherwise.
Extracted(r) ==
  LET text == files[FileOf[r]]
      job  == jobs[JobIdOf[r]]
  IN IF text \in JobRequests /\ TypeOf[text] = TypeOf[job] THEN text ELSE Bad

\* The worker leaves the list with outcome o for its request.
Drained(p, o) ==
  /\ cur' = workers[p].req
  /\ out' = o
  /\ workers' = [workers EXCEPT ![p] = None]
  /\ todo' = todo \ {p}

\* Variant: commit_checkpoint is not called.
CollectWorkerNoCommit(p) ==
  /\ pc = "poll" /\ p \in todo
  /\ Exited(p)
  /\ jobs[JobIdOf[workers[p].req]] # None
  /\ Drained(p, IF workers[p].st = "ok" THEN Extracted(workers[p].req) ELSE Bad)
  /\ pc' = "complete"
  /\ UNCHANGED <<broker, storage, system, crashes>>

\* try_wait: the child has ended; its status and its file give the outcome.
\* A success goes through commit_checkpoint first.
CollectWorker(p) ==
  /\ pc = "poll" /\ p \in todo
  /\ Exited(p)
  /\ LET r == workers[p].req
     IN IF jobs[JobIdOf[r]] = None
          THEN Dies  \* JobIdNotFound
          ELSE /\ Drained(p, IF workers[p].st = "ok" THEN Extracted(r) ELSE Bad)
               /\ pc' = IF out' = Bad THEN "complete" ELSE "commit"
               /\ UNCHANGED <<broker, storage, system>>
  /\ UNCHANGED crashes

\* Variant: the child is forgotten and its job is left as it is.
WaitFailsForgets(p) ==
  /\ pc = "poll" /\ p \in todo
  /\ workers' = [workers EXCEPT ![p] = None]
  /\ todo' = todo \ {p}
  /\ UNCHANGED <<broker, storage, system, pc, cur, out, crashes>>

\* Variant: a child that can not be waited for is taken to have ended well.
WaitFailsReads(p) ==
  /\ pc = "poll" /\ p \in todo
  /\ Drained(p, Extracted(workers[p].req))
  /\ orphans' = IF Running(p) THEN orphans \cup {workers[p].req} ELSE orphans
  /\ pc' = IF out' = Bad THEN "complete" ELSE "commit"
  /\ UNCHANGED <<broker, storage, files, committed, crashes>>

\* try_wait fails: an error result, and the child is forgotten, ended or not.
WaitFails(p) ==
  /\ pc = "poll" /\ p \in todo
  /\ Drained(p, Bad)
  /\ orphans' = IF Running(p) THEN orphans \cup {workers[p].req} ELSE orphans
  /\ pc' = "complete"
  /\ UNCHANGED <<broker, storage, files, committed, crashes>>

\* commit_checkpoint: the files of the worker's output directory are copied
\* over the checkpoint.
CommitCheckpoint ==
  /\ pc = "commit"
  /\ committed' = committed \cup {cur}
  /\ pc' = "complete"
  /\ UNCHANGED <<broker, storage, orphans, files, locals, crashes>>

\* Variant: only the job is removed.
CompleteJobNoResult ==
  /\ pc = "complete"
  /\ jobs' = [jobs EXCEPT ![JobIdOf[cur]] = None]
  /\ cur' = None /\ out' = None
  /\ pc' = "poll"
  /\ UNCHANGED <<broker, results, system, workers, todo, crashes>>

\* complete_job: one transaction stores the result and removes the job.
CompleteJob ==
  /\ pc = "complete"
  /\ results' = [results EXCEPT ![JobIdOf[cur]] = [req |-> cur, out |-> out]]
  /\ jobs' = [jobs EXCEPT ![JobIdOf[cur]] = None]
  /\ cur' = None /\ out' = None
  /\ pc' = "poll"
  /\ UNCHANGED <<broker, system, workers, todo, crashes>>

-----------------------------------------------------------------------------
(* send_results *)

StartSending ==
  /\ pc = "poll" /\ todo = {}
  /\ pc' = "send"
  /\ todo' = Stored(results)
  /\ UNCHANGED <<broker, storage, system, workers, cur, out, crashes>>

\* Variant: the client is sent its request.
SendResultEchoes(j) ==
  /\ pc = "send" /\ j \in todo
  /\ delivered' = delivered \cup {results[j].req}
  /\ cur' = results[j].req
  /\ pc' = "remove"
  /\ UNCHANGED <<sent, inbox, pongs, storage, system, workers, todo, out, crashes>>

\* The broker takes the result.
SendResult(j) ==
  /\ pc = "send" /\ j \in todo
  /\ delivered' = delivered \cup {results[j]}
  /\ cur' = results[j].req
  /\ pc' = "remove"
  /\ UNCHANGED <<sent, inbox, pongs, storage, system, workers, todo, out, crashes>>

\* Variant: a refused result is removed too.
SendFailsForgets(j) ==
  /\ pc = "send" /\ j \in todo
  /\ results' = [results EXCEPT ![j] = None]
  /\ todo' = todo \ {j}
  /\ UNCHANGED <<broker, jobs, system, pc, workers, cur, out, crashes>>

\* Variant: the job of a refused result is stored again.
SendFailsRetries(j) ==
  /\ pc = "send" /\ j \in todo
  /\ jobs' = [jobs EXCEPT ![j] = results[j].req]
  /\ todo' = todo \ {j}
  /\ UNCHANGED <<broker, results, system, pc, workers, cur, out, crashes>>

\* The broker refuses the result, or the call fails with the result queued or
\* not: it is kept for the next tick.
SendFails(j) ==
  /\ pc = "send" /\ j \in todo
  /\ delivered' \in {delivered, delivered \cup {results[j]}}
  /\ todo' = todo \ {j}
  /\ UNCHANGED <<sent, inbox, pongs, storage, system, pc, workers, cur, out, crashes>>

\* remove_result.
RemoveResult ==
  /\ pc = "remove"
  /\ results' = [results EXCEPT ![JobIdOf[cur]] = None]
  /\ todo' = todo \ {JobIdOf[cur]}
  /\ cur' = None
  /\ pc' = "send"
  /\ UNCHANGED <<broker, jobs, system, workers, out, crashes>>

EndTick ==
  /\ pc = "send" /\ todo = {}
  /\ pc' = "get"
  /\ UNCHANGED <<broker, storage, system, locals, crashes>>

-----------------------------------------------------------------------------
(* The process is killed, is stopped by Ctrl-C at the top of its loop, or    *)
(* ends because a broker or storage call failed (every one is followed by a  *)
(* `?`).  A failed call that took effect is a death after the step, one that *)
(* did not is a death before it.                                             *)
Crash ==
  /\ pc # "down"
  /\ crashes < MaxCrashes
  /\ crashes' = crashes + 1
  /\ Dies

-----------------------------------------------------------------------------

\* create_new_jobs finds a message.
GetMessage == AnswerPing \/ DropJunk \/ SkipJob \/ AcceptJob

\* Everything the dispatcher does of its own accord.
Dispatcher ==
  \/ \E j \in JobIds, p \in Pids : RestoreJob(j, p)
  \/ \E j \in JobIds : RestoreFails(j)
  \/ EndRestore
  \/ GetNothing
  \/ GetMessage
  \/ \E p \in Pids : SpawnJob(p)
  \/ SpawnFails
  \/ Ack
  \/ \E p \in Pids : KeepWorker(p) \/ CollectWorker(p) \/ WaitFails(p)
  \/ CommitCheckpoint
  \/ CompleteJob
  \/ StartSending
  \/ \E j \in JobIds : SendResult(j) \/ SendFails(j)
  \/ RemoveResult
  \/ EndTick

Next ==
  \/ \E m \in Messages : Submit(m)
  \/ \E r \in JobRequests : WorkerWrites(r)
  \/ \E p \in Pids : WorkerExits(p)
  \/ Restart
  \/ Dispatcher
  \/ Crash

Spec == Init /\ [][Next]_vars

\* What the liveness properties assume: someone restarts the dispatcher, its
\* thread is scheduled, workers end, a message that waits is found by one of
\* endlessly many calls of get, and a result is taken by one of endlessly many
\* calls of send.
Fairness ==
  /\ WF_vars(Restart)
  /\ WF_vars(Dispatcher)
  /\ \A p \in Pids : WF_vars(WorkerExits(p))
  /\ SF_vars(GetMessage)
  /\ \A j \in JobIds : SF_vars(SendResult(j))

FairSpec == Spec /\ Fairness

-----------------------------------------------------------------------------
(* Properties *)

\* Every variable keeps its kind of value.
TypeOK ==
  /\ sent \subseteq Messages /\ inbox \in Seq(Messages)
  /\ pongs \subseteq Pings /\ delivered \subseteq Result
  /\ jobs \in [JobIds -> JobRequests \cup {None}]
  /\ results \in [JobIds -> Result \cup {None}]
  /\ orphans \subseteq JobRequests
  /\ files \in [Files -> JobRequests \cup {Bad}]
  /\ committed \subseteq JobRequests
  /\ pc \in {"down", "restore", "get", "spawn", "ack", "poll", "commit",
             "complete", "send", "remove"}
  /\ workers \in [Pids -> Worker \cup {None}]
  /\ todo \subseteq JobIds \cup Pids
  /\ cur \in JobRequests \cup {None}
  /\ out \in JobRequests \cup {Bad, None}
  /\ crashes \in Nat

\* A request whose message the dispatcher has acknowledged.
Acked(r) == r \in sent /\ ~InInbox(r)

Answered(r) == \E d \in delivered : d.req = r

\* Requests whose job or whose result is stored.
Kept ==
  {r \in JobRequests :
     \/ jobs[JobIdOf[r]] = r
     \/ results[JobIdOf[r]] # None /\ results[JobIdOf[r]].req = r}

\* The job id of r is taken care of: a job is stored under it, or a result, or
\* some request with that id was answered.
InHand(r) ==
  \/ jobs[JobIdOf[r]] # None
  \/ results[JobIdOf[r]] # None
  \/ \E q \in JobRequests : JobIdOf[q] = JobIdOf[r] /\ Answered(q)

\* No crash, failed call or redelivery makes the dispatcher forget a job id
\* whose request it has acknowledged (lib.rs:139: a message is acknowledged
\* "only once whatever it caused is safely stored").
AckedIdIsSafe == \A r \in JobRequests : Acked(r) => InHand(r)

UniqueIds   == \A q, r \in JobRequests : JobIdOf[q] = JobIdOf[r] => q = r
UniqueFiles == \A q, r \in JobRequests : FileOf[q] = FileOf[r] => q = r

\* When clients do not reuse job ids, that holds of the request itself: its
\* job or its result is stored, or its client was answered.
AckedIsSafe ==
  \A r \in JobRequests : Acked(r) => r \in Kept \/ Answered(r)

\* Storage and the list of children agree.  A tracked child belongs to a
\* stored job, so process_running_jobs never meets JobIdNotFound; and whenever
\* a tick begins each stored job has exactly one child, after any sequence of
\* skips, crashes and restores.
WorkersMatchStorage ==
  /\ \A p \in Tracked : jobs[JobIdOf[workers[p].req]] = workers[p].req
  /\ \A p, q \in Tracked : workers[p].req = workers[q].req => p = q
  /\ pc = "get" =>
       \A j \in Stored(jobs) : \E p \in Tracked : workers[p].req = jobs[j]

\* The results clients have, or will be sent.
Answers == delivered \cup {results[j] : j \in Stored(results)}

\* The success a client is told of, or will be, had its checkpoint output
\* committed before, even if the dispatcher was lost in between.
SuccessIsCommitted ==
  \A s \in Answers : s.out # Bad => s.req \in committed

\* A success carries an output of the message type its job promises, although
\* result files are shared with orphans and with the workers of other jobs.
AnswerHasItsType ==
  \A s \in Answers : s.out # Bad => TypeOf[s.out] = TypeOf[s.req]

\* When no two jobs name the same result file, a success carries the output of
\* the very request it answers.
AnswerIsItsOwn ==
  \A s \in Answers : s.out \in {Bad, s.req}

\* The dispatcher implements JobService for clients that do not reuse job ids.
Service == INSTANCE JobService WITH
  Requests <- JobRequests,
  Outcomes <- JobRequests \cup {Bad},
  asked    <- sent \cap JobRequests,
  waiting  <- {r \in JobRequests : InInbox(r)},
  kept     <- Kept,
  answers  <- delivered

\* Every step of the dispatcher and of its surroundings is one the service
\* allows, or none at all: the queue, the store and the answers move together
\* as JobService says, across crashes and redeliveries.
ServiceSafety == Service!Safety

\* A job may run again after it was answered, but only as long as its message
\* is redelivered: a request that is acknowledged and no longer a stored job
\* never becomes one again.
NoLateRerun ==
  [][\A r \in JobRequests :
       Acked(r) /\ jobs[JobIdOf[r]] # r => jobs'[JobIdOf[r]] # r]_vars

\* A stored result stays until its client has it: it is never replaced by the
\* result of another request nor removed unsent.
ResultIsKept ==
  [][\A j \in JobIds :
       results[j] # None =>
         \/ results'[j] # None /\ results'[j].req = results[j].req
         \/ Answered(results[j].req)]_vars

\* Every message a client sends is eventually acknowledged: none stays at the
\* head of the queue for ever (lib.rs:156, lib.rs:170).
QueueDrains == \A m \in Messages : m \in sent ~> ~InInbox(m)

\* When clients do not reuse job ids, every request is eventually answered.
JobsAnswered == \A r \in JobRequests : r \in sent ~> Answered(r)

=============================================================================
