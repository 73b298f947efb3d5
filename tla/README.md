# TLA+ model of the BitVMX job dispatcher

The dispatcher takes job requests from a message broker, stores them, runs each
in a worker process (or on an AWS machine) and sends the result back.  This
directory holds TLA+ modules that model it, TLC configurations that check small
instances, and TLAPS proofs of the properties that matter most.

## The system

| part | source | state | operations |
|---|---|---|---|
| local dispatcher | `dispatcher/src/lib.rs` | the children it tracks | `restore_jobs`, `create_new_jobs`, `process_running_jobs`, `send_results`, called by `tick` in `dispatcher_loop` |
| job and result store | `dispatcher/src/dispatcher_storage.rs` | jobs and results by job id, on disk | `persist_job`, `contains_job`, `get_job`, `list_jobs`, `complete_job`, `get_results`, `remove_result` |
| AWS dispatcher | `dispatcher/src/dispatcher_aws.rs` | the list of instances and one record for each, on disk | `assign_jobs`, `execute_job`, `complete_jobs`, `save_instance`, `remove_instance` |
| AWS helper | `aws-helper/src` | none of its own; EC2, SSM and S3 | `create_instance`, `terminate_instance`, `send_command`, `get_command_status`, `upload_file`, ... |
| job types | `jobtypes/src` | checkpoint directories on disk | `command`, `message_type`, `prepare_local_input`, `prepare_remote_input`, `commit_checkpoint` |
| messages | `dispatcher-utils/src/lib.rs` | none | the text form of a message, `Ping` and `Pong` |
| clients | `*/examples`, `test-helper/src` | the job they wait for | send a job, poll for its result |
| broker | outside (`bitvmx_broker`) | a queue for each addressee | `get` reads the head, `ack` removes it, `send` appends |
| workers | outside | the result file, the checkpoint output | run, write, end |

The dispatcher is one thread that loops over `tick`: take at most one message,
look at every child once, try to send every stored result.  It shares the broker
with its clients, the file system with its workers, and the store with its own
next incarnation.

### What is hard about it

* **Restarts.**  The process may be lost at any point.  Every error of the store
  or of `ack` is followed by `?` and ends it too.  Jobs are stored before their
  message is acknowledged and results before they are sent, so everything may
  happen twice and nothing may happen zero times.
* **Workers outlive the dispatcher.**  Dropping a `Child` does not kill it: after
  a restart an orphan and the restored worker of one job write the same file.
* **Names are the clients' choice.**  Job ids and result files come from the
  request; two requests may share either.
* **Head of line.**  `get` returns the head of the queue until it is acknowledged:
  whatever is never acknowledged blocks everything behind it.
* **Partial failure.**  A send may fail after the broker has queued the result;
  `try_wait` may fail for a worker that still runs.

`PROJECT.json` lists each hazard at the line where it bites, with the properties
that cover it.

### What makes it correct

* *Local dispatcher*: an acknowledged request is stored as a job, stored as a
  result, or answered; a stored job has exactly one tracked child; a success was
  committed, is of the right type and is the request's own; every message is
  consumed and every request answered.
* *Store*: a job is replaced by its result in one step.
* *AWS dispatcher*: an instance in the list has a stored job and no job has two
  machines; machines are terminated; an answer is sent whatever call fails.
* *Job types*: command, message type and checkpoint belong together for each
  kind of job; a checkpoint is never a mix of two commits.
* *Clients*: the result a client takes is the answer to the job it sent.

## Modules

| module | what it is |
|---|---|
| `JobDispatcher` | the local dispatcher, its store, broker, workers and files |
| `JobService` | what the dispatcher promises its clients, whatever runs the jobs |
| `TxDispatcher` | `JobDispatcher` with the transactions of its store taken apart |
| `ChallengeClient` | the client of a challenge, composed with `JobDispatcher` |
| `AwsDispatcher` | the AWS dispatcher, its records of machines, and EC2, SSM and S3 as it uses them |
| `Checkpoints` | checkpoint directories of emulator jobs, committed file by file |
| `WorkDirs` | the directories of garbled-circuit and prover jobs: inputs, workers, outputs |
| `GarbledClient` | the client of a garbled circuit, composed with `WorkDirs` |
| `MC...` | values of the constants for TLC |
| `JobDispatcherProofs` | type correctness, the inductive invariant and the safety theorems |
| `JobDispatcherRefinement` | proof that `JobDispatcher` implements `JobService` |
| `TxDispatcherProofs` | proof that `TxDispatcher` implements `JobDispatcher` |
| `CheckpointsProofs` | the inductive invariant and the theorems about checkpoints |
| `AwsDispatcherProofs` | type correctness, the invariants of machines and commands, the safety theorems, and proof that `AwsDispatcher` implements `JobService` |
| `ChallengeClientProofs` | how far queues and store can be behind the client of a challenge, and the theorems that follow |
| `GarbledClientProofs` | the invariants and theorems of `WorkDirs` and of the client above it |
| `QueueLemmas` | what joining and leaving a queue does to its contents, for the proofs about both dispatchers and both clients |

How they fit together: `JobService` is implemented by `JobDispatcher` and by
`AwsDispatcher`; `JobDispatcher` is implemented by `TxDispatcher`, which refines
its store, and extended by `ChallengeClient`, which adds a client that depends on
the order of its results.  `Checkpoints` and `WorkDirs` refine what a worker and
the dispatcher do to the file system, for emulator jobs and for the other job
types, and keep of the dispatcher what `JobDispatcher` shows of it.

### JobDispatcher

State that outlives the process: `inbox` (the dispatcher's queue in the broker),
`delivered` and `pongs` (what it sent), `jobs` and `results` (the two key spaces
of `DispatcherStorage`), `files` (what each result file holds), `orphans`
(requests of workers whose dispatcher is gone) and `committed` (requests whose
checkpoint output was copied).  State of the process: `workers` (the `Vec` of
children), and `pc`, `todo`, `cur`, `out`: where in a tick it is, what is left of
the loop it is in, and the job and outcome in hand.  `sent` and `crashes` are
history.

A tick is cut into steps where somebody outside the thread can see the
difference: at each durable write, broker call and spawned process.

| `pc` | the next step | code |
|---|---|---|
| `down` | `Restart` | `new` |
| `restore` | `RestoreJob`, `RestoreFails`, `EndRestore` | `restore_jobs` |
| `get` | `GetNothing`, `AnswerPing`, `DropJunk`, `SkipJob`, `AcceptJob` | `create_new_jobs` up to `persist_job` |
| `spawn` | `SpawnJob`, `SpawnFails` | `spawn_local_job` |
| `ack` | `Ack` | `channel.ack` |
| `poll` | `KeepWorker`, `CollectWorker`, `WaitFails`, `StartSending` | the loop of `process_running_jobs` |
| `commit` | `CommitCheckpoint` | `commit_checkpoint` |
| `complete` | `CompleteJob` | `complete_job` |
| `send` | `SendResult`, `SendFails`, `EndTick` | the loop of `send_results` |
| `remove` | `RemoveResult` | `remove_result` |

`Crash` may come between any two steps.  It also stands for the error of a broker
or store call: each is followed by `?`, which ends `dispatcher_loop`; a failed
call that took effect is a crash after the step, one that did not is a crash
before it.  (A program that keeps the handler and calls `tick` again after an
error is not modelled; none of the binaries does.)  The exceptions are modelled as
the code treats them: an error of `get` is logged (`GetNothing`), a refused or
failed result is kept (`SendFails`), the refusal of a Pong is not looked at
(`AnswerPing`).

Abstractions: a message, a job id, a file and a type are values of constant sets;
a worker's output is the request it belongs to, or `Bad`; the order in which the
`Vec` of workers and the scan of results are walked is left open, so every order
is checked; an orphan that has ended is one that writes nothing any more.

### TxDispatcher

`persist_job` and `complete_job` each begin a transaction, write to it and commit
it; JobDispatcher's `AcceptJob` and `CompleteJob` do so in one step.  `tx` holds the
calls made for the open transaction.  `BeginPersist`, `SetJob`, `CommitPersist` and
`BeginComplete`, `SetResult`, `RemoveJob`, `CommitComplete` are the calls; workers
write and end between them.  A call that fails is followed by a rollback and ends
the process, and so does a crash: `TxCrash` is both, and drops what was written.
The variables of `JobDispatcher` change only at the commit, so the refinement
mapping is the identity on them with `tx` hidden, and `ImplementsDispatcher` is
`JobDispatcher`'s own `Spec`.

### ChallengeClient

The client of `examples/challenge.rs`, which plays both sides of a challenge: it
sends a job, waits for a result of its type and builds the next job from it.
`Challenge` is the sequence of its jobs, as long as `get_total_rounds` says.  All
of them have the id `uid_job` and one result file.  `mailbox` is the client's queue
in the broker; `taken` are the results it took.

| step | code |
|---|---|
| `SendJob`, `SendRefused` | `channel.send`, whose answer is not looked at |
| `TakeAnswer` | `wait_for_typed_result` finds the type; `run_job` goes on |
| `DiscardAnswer`, `WaitLonger`, `GiveUp` | the loop of `wait_for_result` in `test_helper.rs` |
| `ClientFails` | any `?` of `run_job` |
| `DeliverResult`, `DeliverAndFail` | `send_results`, with the result going to the mailbox |
| `Stop` | `dispatcher_loop` ends at the top of its loop, as `run_flow` of the tests makes it |

The other steps are JobDispatcher's.  A stop and a crash differ: a stop leaves no
message half handled, so `NothingMissed` and `AnswersInOrder` hold through it,
while a crash may redeliver the message of an earlier job and make the next one a
duplicate of it.  Both leave workers behind, which is why `OutputsAreOwn` speaks of
behaviours without either.

### WorkDirs

What `JobDispatcher` calls a result file is for these job types a directory: the
dispatcher writes the inputs of a job there (`command` of `garbled_messages.rs`,
`prepare_local_input` of `prover_messages.rs`), the worker its proof files and
`output.json`.  `dirs` says for each file which request it was written for, or
which run wrote it, or that it is `Torn`.  A run is *sound* when every input was its
own and whole when it read them.

| step | code |
|---|---|
| `AcceptJob`, `RestoreJob` | `persist_job`, `restore_jobs`; `spawn_local_job` begins |
| `TruncateInput`, `FillInput`, `EndInputs` | the `fs::write` calls, in their order |
| `Spawn`, `Ack`, `SkipJob` | the child is tracked; its message is acknowledged |
| `ReadsInputs`, `WritesOutput`, `Ends` | the worker, tracked or an orphan |
| `CollectSuccess`, `CollectFailure` | `process_running_jobs` and `send_results` |
| `Crash`, `Restart`, `EndRestore` | loss and restart |

Of the worker it is assumed that it reads its inputs first, and that one which ends
well has written all the files its result names.  An import reads a directory that
no job has to have written; what it reads is not modelled.  In AWS mode `command`
writes the inputs of `Verify` and `Evaluate` to the disk of the dispatcher and the
command runs elsewhere; that is not modelled either, the repository runs garbled
jobs in local mode.

### GarbledClient

`garbled_client.rs`: a `Prove` job, then the files its result names are read one by
one (`ReadProofFile`), sent in a `Verify` job, and the digests of the two results
compared (`TakeVerifyResult`).  `blob` says which run wrote
what the client read.  `OtherClient` sends the jobs of others; every job has a
directory of its own (`ClientAssumption`), as in the example.  Once the dispatcher
is lost an orphan may write a second proof over the first, so `ProofIsFinal`
speaks of behaviours without a crash.

The verdict `valid` of a `VerifyResult` is not modelled, because the client does
not look at it: it prints it (`garbled_client.rs:107`) and accepts whatever has the
digests it expects (`garbled_client.rs:113`).  A proof that was found not valid is
accepted when its digests match; no property says that an accepted proof is valid.

### JobService

Requests are *asked*, *waiting* until acknowledged, *kept* from when they are
taken to when they are closed, and answered by *answers*.  A request is
acknowledged only when kept or answered and closed only when answered.  The
service promises that every request is answered at least once; not how often,
nor that two answers agree: a message whose acknowledgement was lost may run
again.  In `JobDispatcher` a request is kept while its job or its result is
stored.

### AwsDispatcher

Broker, `jobs` and `results` as above.  `info` and `list` are the keys
`instance_<id>` and `instances` of `DispatcherAwsStorage`, which a crash can leave
out of step; `machines`, `commands`, `outputs` and `inputs` are EC2, SSM and S3.
Between ticks the process remembers nothing, so there is nothing to restore.

| `pc` | the next step | code |
|---|---|---|
| `get`, `ack` | `GetNothing`, `SkipJob`, `AcceptJob`, `Ack` | `create_new_jobs` |
| `assign` | `AssignNothing`, `CreateInstance`, `CreateInstanceFails` | `assign_jobs`, `create_instance` |
| `save`, `list` | `SaveInstance`, `ListInstance` | the two writes of `save_instance` |
| `execute` | `SkipNotReady`, `UploadInputs`, `StartCompleting` | the loop of `execute_job` |
| `command`, `running` | `SendCommand`, `SendCommandFails`, `SaveRunning` | `send_command`, `save_instance` |
| `complete` | `StillBusy`, `CollectSuccess`, `CollectFailure`, `StartSending` | the loop of `complete_jobs` |
| `store` ... `unlist` | `StoreOutcome`, `TerminateInstance`, `DeleteResult`, `DeleteInputs`, `RemoveRecord`, `UnlistInstance` | what `complete_jobs` does for a job that ended; a failed one skips the two deletions |
| `send`, `remove` | as in `JobDispatcher` | `send_results` |

`terminate_instance` only asks for the end of a machine and returns
(`aws_handler.rs:111`): the machine is then `ending`, and a command that still runs
there goes on, may yet end well and upload its result, until `CommandEnds` ends it.
A command that was sent twice (the first time before a crash, and recorded nowhere)
can so be running when the inputs of its job are deleted, and fetch nothing.
`InputsStay` therefore speaks of the command that the record of a listed machine
names, the one whose end the dispatcher waits for: it has the inputs of its own
request until it has ended, whatever other machine was launched, or other request
with the same id accepted, meanwhile.

Machines, commands and objects change by themselves: `Boots`, `MachineFails` (for
machines of the constant `Flaky`, which begin to shut down), `CommandEnds` (a
command that succeeds has uploaded a result, one that fails may have).  The steps
that end the process although nothing was killed are `CreateInstanceFails`,
`SendCommandFails`, `UploadInputs` on a job that is gone or can not be run, and
`CollectSuccess`/`CollectFailure` on a job that is gone or a result that is missing
or no text.  Every other failed AWS or store call is a `Crash`.  Several inputs of
one job are uploaded, and deleted, in one step.  Only jobs are sent to this
dispatcher; pings and undecodable messages are in `JobDispatcher` and touch
nothing of what is modelled here.

### Checkpoints

`JobDispatcher` commits a checkpoint in one step; this module takes that step
apart.  `base` and `dirs` say for each file of a checkpoint and of an output
directory which run wrote it, or that it is `Torn`.  `runs` are the emulator
processes; each goes by the name that `create_output_path` makes up for its
directory.  Of the dispatcher only what matters to files is kept: `waiting`
(messages sent and not acknowledged), `open` (jobs stored), `answers`, `tracked`,
and `pc`, which is `restore` while jobs are restored, `spawn` and `ack` while a job
is accepted, `copy` and `close` while one is committed and completed, and `idle`
otherwise.  `again` is history: the jobs that were accepted after their answer.

| step | code |
|---|---|
| `Submit` | a client sends a job |
| `AcceptJob`, `SkipJob`, `SpawnJob`, `Ack` | `create_new_jobs`: `contains_job` and `persist_job`, the spawn, `ack` |
| `SpawnJob`, `RestoreJob` | `command`, which makes the output directory, and the spawn |
| `ReadCheckpoint`, `WriteFile`, `Ends` | the emulator, tracked or an orphan |
| `CollectSuccess`, `CopyFile`, `RemoveDir`, `CloseJob` | `commit_checkpoint`, `complete_job` |
| `CollectFailure` | `complete_job` with an error |
| `Crash`, `Restart`, `EndRestore` | loss and restart; orphans go on writing |

`KindOf` gives each request its variant of `EmulatorJobType`; the kinds differ in
whether they have a checkpoint and whether they write one.  Which files a worker
writes is the emulator's affair and assumed: all of `Names` or none.  Clients are
patient, as `challenge.rs` is: they send no job before those they sent for the same
base are answered.  Nothing in the dispatcher enforces that; without it
`StartsWhole` would fail.

Patience is not enough for every case.  `contains_job` looks at stored jobs only, so
a message whose acknowledgement was lost is accepted again after the job was
restored, committed and answered.  Its second commit changes the base again, beside
the next job, and a crash in it leaves the base of a job that was answered with a
success half-way through.  `SuccessIsWhole` and `StartsWhole` say exactly this: the
first that such a job is stored and runs again, and was accepted `again`; the second
that of a reader and the job whose commit it saw one was accepted `again`.  Without
these exceptions TLC finds both violated in the run `checkpoints`.
`PatientOnBase` shows that the challenge client never gets there: between two jobs
on one checkpoint it waits for one on another, and by then nothing of the first is
left.

## Runs

| run | instance | what it asks |
|---|---|---|
| `local_own` | two jobs of their own ids and files, a ping, one crash | nothing acknowledged is lost; store and children agree; successes are committed and the request's own; no late rerun; every step is one of `JobService` |
| `local_shared` | two requests with one id but two types, one that can not be spawned, one file for all, a junk message, two crashes | the id is never forgotten however often the dispatcher ends, and no foreign output passes |
| `local_live` | `TxDispatcher`: one job, a ping, a junk message, two crashes | every step is one of `JobDispatcher` or none; every message leaves the queue; the job is answered |
| `local_stuck` | two jobs, one that can not be spawned | finding: `QueueDrains` fails |
| `local_reuse` | two requests with one id | finding: `ResultIsKept` fails |
| `aws_own` | two jobs on two machines, two crashes | nothing acknowledged is lost; a crash leaks at most one machine; inputs stay while the recorded command runs and machines until the outcome is stored; every step is one of `JobService` |
| `aws_shared` | three requests with one id and one S3 key, one of another type, a flaky machine, a result that is not text, one crash | one machine for an id; without a crash nothing of the first answers the second |
| `aws_live` | two jobs, one machine at a time, one crash | messages are consumed even if every tick ends early; without a crash both are answered |
| `aws_stuck` | one job, one crash | finding: `ResultsAreSent` fails |
| `checkpoints` | a prover's first job and a round on one base of two files, a job without checkpoint, two crashes | only runs that ended well reach the base; it stays torn only by a job that will run again or had an error; the next job starts from a whole one, but beside a job accepted again; directories go |
| `client` | a search over 8 steps with arity 4: two rounds, eight jobs, one id and file; two attempts for each job; one stop or crash | answers are taken in order, none is missed, outputs are the job's own, one job at a time on a checkpoint, as many rounds as the search needs |
| `garbled` | a proof of two files made and verified, another imported; three runs, one crash | tracked workers read whole inputs of their own; answers come from sound runs of the request; the client's files are one proof |

**Bounds.**  `MaxCrashes` bounds crashes (deaths on a job that can not be spawned
are not counted, so they recur without bound).  Two requests are enough for
everything two jobs can do to each other: share an id, share a file, queue behind
one another, be restored together.  Two crashes are enough for an orphan of an
orphan's job, a redelivery and a duplicate result.  `Pids` has a slot for every
job that can be stored at once; `StorageMatched` shows that more are never used.
In the AWS runs `Machines` has a machine for each job and one more for a launch
that a crash makes the dispatcher forget; when they run out `create_instance`
fails, as it does when the account has reached its limit.  Two crashes in `aws_own`
are enough for a command sent twice and a loss while its job is completed, in one
behaviour.  In `checkpoints` two files are the least that can be torn apart and
three directories, one for each run, are enough for a job that is lost before its
spawn, restored and answered, accepted again, and cut short in its second commit,
or run beside the next job; no deadlock is checked, since the run ends when all is
answered or the directories are used up.  In `client` two rounds are the
least in which a type comes back, and two attempts the least in which a discarded
result is followed by the awaited one; `MaxMailbox` bounds how many results a
*failing* send may have queued.  In `garbled` `ProofFiles` has two of the three
files, the least that can be torn apart, and three runs give one of the jobs a
rerun; again the run may end when all is answered.

**Symmetry.**  The slots of children, command ids, instance ids (where none is
flaky), names of files and of directories, and the runs of `garbled` are
interchangeable; no liveness run uses
symmetry.

**Fairness.**  `WF(Dispatcher)`: the thread is scheduled.  `WF(Restart)`: somebody
restarts the process.  `WF(WorkerExits)`: workers end; the code has no time limit
on a worker, so this is an assumption about them.  `SF(GetMessage)` and
`SF(SendResult)`: the broker can not fail every one of endlessly many calls, the
code calls it once a tick for ever.  In `TxDispatcher` the same is asked of the
steps that stand for these.  No fairness is asked of the two clients, which check
safety only: a client may give up at any time.  In AWS mode also `WF(Boots)` for machines that
are not flaky and `WF(CommandEnds)`: SSM ends every command, if only by its
time limit.

## Findings

* `local_stuck`: a job is stored, then spawned.  When its input can not be
  prepared or its binary is not found the dispatcher ends, and `restore_jobs` ends
  it again at every restart.  Its message and all behind it are never consumed,
  which is what the comments at `lib.rs:156` and `lib.rs:170` mean to rule out.
* `local_reuse`: `contains_job` does not look at results, so a request with the
  id of a completed job overwrites the result that is still to be sent.
* `aws_stuck`: `complete_jobs` closes the job several calls before it removes the
  instance.  A crash or a failed call in between leaves an instance without a job;
  `JobIdNotFound` then ends every later tick before `send_results`, so results that
  are stored are never sent.  This is why `MachinesHaveJobs` and `AnswerIsItsOwn`
  of `AwsDispatcher` speak of behaviours without crashes: with the id of such a job
  used again, its instance answers the new request with the old result.

## Proofs

Everything is proved for every number of clients, requests, ids, files, machines,
crashes, from the assumptions named in the modules: `RequestsAssumption` (ids,
types, kinds and paths of requests are those of the constants), `NoneAssumption`
(`None`, `Bad` and `Torn` are no other value), the bounds
(`MaxCrashesAssumption`, `BoundsAssumption`), `ClientAssumption` (the garbled
client's two jobs have kinds and directories as in the example),
`ChallengeAssumption` (all jobs of a challenge have one id and one file, and their
types are those of their kinds) and `RoundsAssumption` (`get_total_rounds` returns a
number, `u8` in the code).  No set is
assumed finite.  What a theorem asks of clients besides stands in its statement.

### JobDispatcher

The properties are not inductive.  `StepInv` is, and is the conjunction of

* `TypeOK`, with `HandOK` (what each control point has in hand is usable: loops
  walk over what is stored or tracked) and `KeysOK` (jobs and results are stored
  under their own ids): without these a result sent could be `None`;
* `OwnersOK`: a tracked child's request is the job stored under its id, no two
  children have one request, and between taking a job and giving it a child, or
  taking its child and closing it, it has none;
* `CoveredOK`: a stored job has a child or is in hand.

From it follow `AckOK` (acknowledged ids are in hand, and so is the id about to be
acknowledged), `OutcomeOK` (a success in hand has the type of the stored job and
is committed before it is stored) and `FilesOK`.  There is one lemma for each part
and one step in it for each action.

| theorem | statement |
|---|---|
| `TypeCorrect` | `Spec => []TypeOK` |
| `StorageMatched` | `Spec => []WorkersMatchStorage`; `JobIdNotFound` can not happen in local mode |
| `AckedIdsSafe` | `Spec => []AckedIdIsSafe` |
| `AckedSafe` | with ids that are not reused, `Spec => []AckedIsSafe` |
| `SuccessCommitted`, `AnswersTyped` | every success is committed and of its job's type |
| `AnswersOwn` | with files that are not shared, every success is the request's own |
| `NoRerunAfterAck` | `Spec => NoLateRerun` |
| `ResultsKept` | with ids that are not reused, `Spec => ResultIsKept`; `local_reuse` shows why that is asked |
| `Implements` | with ids that are not reused, `Spec => ServiceSafety` |

`Implements` maps each of `Submit`, `AcceptJob`, `Ack`, `SendResult`/`SendFails`
and `RemoveResult` to the service's action or a stutter, and shows that no other
step touches what the service speaks of; it needs that a message is queued once.

### TxDispatcher

`TxInv` is JobDispatcher's `TypeInv` with `TxTypeOK`, which lists the calls a
transaction may hold at each point.  `AfterOne` and `AfterTwo` say what committing
one write, or two under different keys, does to the store; with them
`CommitPersist` is `AcceptJob`, `CommitComplete` is `CompleteJob`, and the other
calls change nothing that `JobDispatcher` speaks of.

| theorem | statement |
|---|---|
| `TxTypeCorrect` | `TxSpec => []TxTypeOK` |
| `TxImplements` | `TxSpec => ImplementsDispatcher`, so every theorem above holds of `TxSpec` |
| `TxAckedIdsSafe` | one of them: `TxSpec => []AckedIdIsSafe` |

### Checkpoints

`IInv` ties the four places together where a commit leaves its traces: `RunsOK`
(a run's request is open or answered; a tracked one's is open), `DirsOK` (only the
run a directory was made for has written to it, all of it once it has ended well,
and it is there until its commit is done), `LastOK` (who may have written to a
base), and `CommitOK` (every file that is not left to be copied has been copied,
by the run in hand).  `WholeOK` follows at `CloseJob` from `CommitOK`; `StartsWhole`
follows at `ReadCheckpoint` from `WholeOK` and `PatientOK`: a base that is half-way
through a commit belongs to a request that is open or had an error, and of two jobs
of one base that are queued or open one has been answered; one that is open and has
been answered was accepted again (`RunsOK`).  `NoLeftovers` needs besides that
without a crash no message comes twice (`OnceOK`).

| theorem | statement |
|---|---|
| `TypeCorrect` | `Spec => []TypeOK` |
| `BasesFinished` | `Spec => []OnlyFinishedRuns` |
| `SuccessesWhole` | `Spec => []SuccessIsWhole` |
| `JobsStartWhole` | `Spec => []StartsWhole` |
| `LeftoversGone` | `Spec => []NoLeftovers` |

### AwsDispatcher

`MachineInv` is inductive and carries everything else.  It is the conjunction of

* `TypeInv`: `TypeOK` with what each control point has in hand (`HandOK`) and the
  keys of the store (`KeysOK`);
* `LaunchOK`: a machine that is being launched is known to nobody yet, and no
  listed one has its job;
* `JobInHandOK`: the job in hand is stored until its outcome is, and the machine
  in hand is its;
* `RecordsOK`: what was never launched is not recorded, and a recorded command was
  sent to the machine of its record;
* `OneMachinePerJob` itself.

On it rest, each with its own lemma for a step, `CommandsOK` (a command sent to a
listed machine was sent for that machine's job; the inputs in S3 are those of the
job in hand when its command is sent, and until it is recorded; a command whose
outcome is stored has ended, so that deleting its inputs takes them from no recorded
command of that job, of which there is one by `OneMachinePerJob`; and `InputsStay`),
`TrackedOK` (machines unknown to the list are finitely many, and only a crash adds
one), `HaveJobsOK`, `OwnOK` (without crashes a command is the one of its record and
its request the stored one), `AckOK` as in `JobDispatcher`, and `QueueOK`.

| theorem | statement |
|---|---|
| `TypeCorrect` | `Spec => []TypeOK` |
| `OneMachine` | `Spec => []OneMachinePerJob` |
| `InputsAreThere` | `Spec => []InputsStay` |
| `Tracked` | `Spec => []MachinesAreTracked` |
| `HaveJobs` | `Spec => []MachinesHaveJobs` |
| `AnswersAreOwn` | when no S3 key is used for two job ids (`ObjectsOfIds`), `Spec => []AnswerIsItsOwn` |
| `AckedSafe` | with ids that are not reused, `Spec => []AckedIsSafe` |
| `StopsStored` | with ids that are not reused, `Spec => []StopsAfterStored` |
| `Implements` | with ids that are not reused, `Spec => ServiceSafety` |

`ObjectsOfIds` is how the code makes keys: `"{job_id}/{file}"`, `dispatcher_aws.rs:188`.
`UniqueIds` is needed as in local mode: the finding `ResultIsKept` has the same
cause here, and once a result is overwritten nothing tells that its job was ever
completed.

### ChallengeClient

`BaseInv` is `JobDispatcher`'s `StepInv` and `OutcomeOK`, which a stop keeps too,
and the client's types.  `FlowSteps` sorts the steps by what they do to the five
places a job passes (the inbox, the stored job, the stored result, the mailbox, the
results taken): seven move something along, all others nothing.  `Place` is where a
job stands in the challenge.  `FlowInv` adds to `BaseInv`

* `OrderOK`: both queues are in the order of the challenge, and nothing is before
  what is further along;
* `WindowOK`: all that is on its way belongs to the job the client is at or to the
  one before.  It needs `OrderOK`: when an answer is taken from the head of the
  mailbox, nothing older may be left anywhere;
* `TakenOK`: what was taken are successes that were delivered, in order.  It needs
  `WindowOK`: two jobs next to one another are of different kinds, so the type,
  which is all the client compares, tells them apart.

Without crashes `HandledOnce` is inductive over `FlowInv`: no message is queued
twice or handled again after its job was answered, so `contains_job` never drops a
job of this client, although the one before it has the same id.  `Followed` is
`NothingMissed` as a statement about the five places.  Without stops too, `OutputsOK`
is inductive: a worker that is no longer tracked is one whose job had an error, so
it is of the job the client is at, as a tracked one is; what the file holds is then
the output of that job or of the one before, which has another type.

| theorem | statement |
|---|---|
| `ClientTypeCorrect` | `ClientSpec => []ClientTypeOK` |
| `InOrder` | `ClientSpec => []AnswersInOrder` |
| `Patient` | `ClientSpec => []PatientOnBase` |
| `NoneMissed` | `ClientSpec => []NothingMissed` |
| `OutputsOwn` | `ClientSpec => []OutputsAreOwn` |
| `EveryRound` | without crashes and stops, the segments chosen by the time of the final trace are as many as `TotalRounds` |
| `SearchComplete` | if `TotalRounds` rounds narrow the search to one step, `ClientSpec => []SearchIsComplete` |

### GarbledClient and WorkDirs

`WorkDirs` has no specification of its own, since when its clients send requests is
theirs; the theorems speak of `ClientSpec`, in which every request is sent once.
`DirsInv` relates the five places that know of a run:

* `FilesOK`: an input file is the request's, missing, or torn; every other file was
  written by a run of the directory's request that had read its inputs;
* `HandOK`: of the request in hand, the inputs that are no longer to be written are
  there, and it is neither tracked nor to be restored;
* `TrackedOK`: a tracked run is of its request, and finds its inputs whole when it
  reads them (nobody writes them again while it is tracked: that takes a restart,
  which tracks nothing, or a second message, which is skipped);
* `AskedOK` and `OnceOK`: while the dispatcher was not lost a request has one run;
* `AnswersOK`: a success names a run of its request that has read its inputs.

`ClientOK` adds what the client has read, and of which run.

| theorem | statement |
|---|---|
| `ReadsSound` | `ClientSpec => []TrackedReadsSound` |
| `AnswersSound` | `ClientSpec => []AnswerIsSound` |
| `ClientTypeCorrect` | `ClientSpec => []ClientTypeOK` |
| `ProofFinal` | `ClientSpec => []ProofIsFinal` |

### Model-checked only

Liveness (`QueueDrains`, `JobsAnswered`, the `Live` part of `JobService`) stays with
TLC: fairness and ENABLED are out of the prover's reach.  So does the arithmetic that
`SearchComplete` has as its hypothesis: that `TotalRounds` rounds are as many as it
takes, for every size and arity, takes induction over `Log2Up`.  TLC evaluates it for
the searches `RoundsReachOneStep` names and for the constants of the run.

## Not modelled

Parsing of arguments, logging, error enumerations, scripts, the setting up of
brokers and keys for the tests.  `remove_job` and `job_completed` are called by
nothing.  The text form of `Msg` and the way ids become keys of the storage
backend: both are read back as they were written.  The ping and risczero
examples, which send one message and wait once.  AWS mode of garbled jobs, see
`WorkDirs`.

## Plan

That the behaviours of `ChallengeClient` are among those `Checkpoints` allows its
clients; `Patient` states the part about two jobs on one base.
