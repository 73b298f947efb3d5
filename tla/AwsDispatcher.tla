---------------------------- MODULE AwsDispatcher ----------------------------
(***************************************************************************)
(* The dispatcher in AWS mode: tick of dispatcher/src/lib.rs, tick of      *)
(* DispatcherAws (dispatcher_aws.rs) over DispatcherAwsStorage, and the    *)
(* calls of AwsHandler (aws-helper/src/aws_handler.rs) on EC2 (machines),  *)
(* SSM (commands) and S3 (objects).                                        *)
(*                                                                         *)
(* Each job gets a machine of its own, which is launched, sent a command   *)
(* once it has booted, and terminated once the command has ended and its   *)
(* outcome is stored.  What the dispatcher knows of a machine is in its    *)
(* record and in the list of machines, two keys of the store written one   *)
(* after the other; nothing is kept in memory from one tick to the next,   *)
(* and nothing is done at a restart.                                       *)
(*                                                                         *)
(* The thread is cut into steps as in JobDispatcher: at each durable write *)
(* and each call.  Every failed call of AWS or of the store ends the       *)
(* process, a case of Crash.  Pings and messages that do not decode are in *)
(* JobDispatcher; they touch nothing of what is modelled here.             *)
(*                                                                         *)
(* A definition marked "Variant" is a slip the code does not make.         *)
(***************************************************************************)
EXTENDS Naturals, Sequences, FiniteSets

CONSTANTS
  JobRequests,  \* broker messages that decode as a DispatcherJob
  JobIds,       \* job ids, chosen by the clients
  Objects,      \* S3 keys of results: job id and result file
  Types,        \* message types of results
  JobIdOf,      \* JobIdOf[r]: the job_id of request r
  ObjectOf,     \* ObjectOf[r]: the key its result is uploaded to
  TypeOf,       \* TypeOf[r]: the message_type its result must have
  Unrunnable,   \* requests whose command or prepare_remote_input fails
  Unreadable,   \* requests whose result file may be something else than text
  Machines,     \* EC2 instance ids
  Flaky,        \* machines that may stop, or never boot, by themselves
  Commands,     \* SSM command ids
  MaxRunningInstances,  \* max_running_instances of the configuration
  MaxCrashes,   \* bound: how often the dispatcher process may be lost
  None,
  Bad           \* a text that is no result; the text of an error result

Result == [req : JobRequests, out : JobRequests \cup {Bad}]

\* InstanceInfo, stored under instance_<id>.
Info == [job : JobIds, st : {"init"}, cmd : {None}]
        \cup [job : JobIds, st : {"running"}, cmd : Commands]

\* A command that was sent, and the machine it was sent to.
Command == [on : Machines, req : JobRequests, st : {"busy", "ok", "failed"}]

ASSUME RequestsAssumption ==
  /\ JobIdOf \in [JobRequests -> JobIds]
  /\ ObjectOf \in [JobRequests -> Objects]
  /\ TypeOf \in [JobRequests -> Types]

ASSUME NoneAssumption ==
  /\ None \notin JobRequests \cup {Bad} \cup Machines \cup Commands
  /\ None \notin Result \cup Info \cup Command
  /\ Bad \notin JobRequests \cup Commands

ASSUME BoundsAssumption == MaxRunningInstances \in Nat /\ MaxCrashes \in Nat

VARIABLES
  \* the broker
  sent,       \* messages clients have sent to the dispatcher
  inbox,      \* the dispatcher's queue: get reads its head, ack removes it
  delivered,  \* results queued for the client that asked
  \* DispatcherStorage
  jobs,       \* jobs[j]: the request stored under dispatcher/job/j
  results,    \* results[j]: the result stored under dispatcher/result/j
  \* DispatcherAwsStorage
  info,       \* info[m]: the record of machine m
  list,       \* machines in the list under the key instances
  \* AWS
  machines,   \* machines[m]: "unused", "booting", "ready" or "ending"
  commands,   \* commands[c]: the command with id c, once it was sent
  outputs,    \* outputs[o]: the text at key o; None if there is no text
  inputs,     \* inputs[j]: the request whose input files are at the keys of j
  \* the dispatcher process
  pc,         \* the step it is about to take, or "down"
  todo,       \* what is left of the loop it is in: machines or job ids
  cur,        \* the machine it has in hand
  req,        \* the request it has in hand
  out,        \* the command it has sent, or the outcome it will store
  crashes     \* how often it was lost so far

broker  == <<sent, inbox, delivered>>
storage == <<jobs, results>>
records == <<info, list>>
aws     == <<machines, commands, outputs, inputs>>
hand    == <<cur, req, out>>
vars    == <<broker, storage, records, aws, pc, todo, hand, crashes>>

-----------------------------------------------------------------------------

msg == Head(inbox)

InInbox(m) == \E i \in 1..Len(inbox) : inbox[i] = m

Stored(js) == {j \in JobIds : js[j] # None}

\* get_all_instances: listed machines without a record are passed over.
Recorded(ls) == {m \in ls : info[m] # None}

Listed == Recorded(list)

EmptyHand == cur' = None /\ req' = None /\ out' = None

\* The dispatcher process ends.
Dies ==
  /\ pc' = "down"
  /\ todo' = {} /\ EmptyHand
  /\ UNCHANGED <<broker, storage, records, aws>>

Init ==
  /\ sent = {} /\ inbox = <<>> /\ delivered = {}
  /\ jobs = [j \in JobIds |-> None]
  /\ results = [j \in JobIds |-> None]
  /\ info = [m \in Machines |-> None] /\ list = {}
  /\ machines = [m \in Machines |-> "unused"]
  /\ commands = [c \in Commands |-> None]
  /\ outputs = [o \in Objects |-> None]
  /\ inputs = [j \in JobIds |-> None]
  /\ pc = "down" /\ todo = {}
  /\ cur = None /\ req = None /\ out = None
  /\ crashes = 0

-----------------------------------------------------------------------------
(* AwsHandler *)

\* create_instance.
Launches(m) ==
  /\ machines[m] = "unused"
  /\ machines' = [machines EXCEPT ![m] = "booting"]

\* is_instance_ready.
Ready(m) == machines[m] = "ready"

Busy(c) == commands[c] # None /\ commands[c].st = "busy"

\* Machine m begins to shut down.  What runs there goes on until it is down, if
\* it does not end before: CommandEnds says how a command may end.
ShutsDown(m) == machines' = [machines EXCEPT ![m] = "ending"]

\* terminate_instance asks for the end of the machine and does not wait for it;
\* it is no error if the machine has ended already.
Terminates(m) == ShutsDown(m)

\* upload_file, for each input of request r.
Uploads(r) == inputs' = [inputs EXCEPT ![JobIdOf[r]] = r]

\* send_command: request r is to run on machine m.
Sends(c, m, r) ==
  /\ commands[c] = None
  /\ commands' = [commands EXCEPT ![c] = [on |-> m, req |-> r, st |-> "busy"]]

\* get_command_status.
Status(c) == commands[c].st

\* download_file and from_utf8: None if either fails.
Download(r) == outputs[ObjectOf[r]]

\* delete_file of the result, and of the inputs.
DeletesOutput(r) == outputs' = [outputs EXCEPT ![ObjectOf[r]] = None]
DeletesInputs(r) == inputs' = [inputs EXCEPT ![JobIdOf[r]] = None]

-----------------------------------------------------------------------------
(* Clients and AWS *)

Submit(r) ==
  /\ r \notin sent
  /\ sent' = sent \cup {r}
  /\ inbox' = Append(inbox, r)
  /\ UNCHANGED <<delivered, storage, records, aws, pc, todo, hand, crashes>>

Boots(m) ==
  /\ machines[m] = "booting"
  /\ machines' = [machines EXCEPT ![m] = "ready"]
  /\ UNCHANGED <<broker, storage, records, commands, outputs, inputs, pc, todo,
                 hand, crashes>>

MachineFails(m) ==
  /\ m \in Flaky /\ machines[m] \in {"booting", "ready"}
  /\ ShutsDown(m)
  /\ UNCHANGED <<broker, storage, records, commands, outputs, inputs, pc, todo,
                 hand, crashes>>

\* What a run of request r may leave in its result file.
Texts(r) == {r, Bad} \cup (IF r \in Unreadable THEN {None} ELSE {})

\* The last line of a command's script uploads the result file: when the
\* command has succeeded it was uploaded, when it has failed it may have been.
\* The shutdown of its machine is one of the ways to fail.
CommandEnds(c) ==
  /\ Busy(c)
  /\ LET r == commands[c].req
         o == ObjectOf[r]
     IN \E st \in {"ok", "failed"},
           text \in Texts(r) \cup {outputs[o]} :
          /\ st = "ok" => text \in Texts(r)
          /\ commands' = [commands EXCEPT ![c].st = st]
          /\ outputs' = [outputs EXCEPT ![o] = text]
  /\ UNCHANGED <<broker, storage, records, machines, inputs, pc, todo, hand, crashes>>

-----------------------------------------------------------------------------
(* Start, and create_new_jobs in AWS mode *)

\* Variant: the machines come first in a tick, the messages last.
RestartWithMachines ==
  /\ pc = "down"
  /\ pc' = "assign"
  /\ UNCHANGED <<broker, storage, records, aws, todo, hand, crashes>>

\* new: in AWS mode there is nothing to restore.
Restart ==
  /\ pc = "down"
  /\ pc' = "get"
  /\ UNCHANGED <<broker, storage, records, aws, todo, hand, crashes>>

\* get has no message, or fails: a failure is only logged.
GetNothing ==
  /\ pc = "get"
  /\ pc' = "assign"
  /\ UNCHANGED <<broker, storage, records, aws, todo, hand, crashes>>

\* contains_job: a stored job has this id already.
SkipJob ==
  /\ pc = "get" /\ inbox # <<>>
  /\ jobs[JobIdOf[msg]] # None
  /\ pc' = "ack"
  /\ UNCHANGED <<broker, storage, records, aws, todo, hand, crashes>>

\* persist_job.
AcceptJob ==
  /\ pc = "get" /\ inbox # <<>>
  /\ jobs[JobIdOf[msg]] = None
  /\ jobs' = [jobs EXCEPT ![JobIdOf[msg]] = msg]
  /\ pc' = "ack"
  /\ UNCHANGED <<broker, results, records, aws, todo, hand, crashes>>

Ack ==
  /\ pc = "ack"
  /\ inbox' = Tail(inbox)
  /\ pc' = "assign"
  /\ UNCHANGED <<sent, delivered, storage, records, aws, todo, hand, crashes>>

-----------------------------------------------------------------------------
(* assign_jobs, and the machine tick launches for the job it returns *)

\* Variant: a job that has a machine may get another one.
UnassignedAny == Stored(jobs)

Unassigned == Stored(jobs) \ {info[m].job : m \in Listed}

BelowLimit == Cardinality(Listed) < MaxRunningInstances

\* execute_job takes the machines of list ls that were sent no command.
StartExecuting(ls) ==
  /\ pc' = "execute"
  /\ todo' = {m \in Recorded(ls) : info[m].st = "init"}
  /\ EmptyHand

AssignNothing ==
  /\ pc = "assign"
  /\ Unassigned = {} \/ ~BelowLimit
  /\ StartExecuting(list)
  /\ UNCHANGED <<broker, storage, records, aws, crashes>>

CreateInstance(j, m) ==
  /\ pc = "assign"
  /\ j \in Unassigned /\ BelowLimit
  /\ Launches(m)
  /\ cur' = m /\ req' = jobs[j]
  /\ pc' = "save"
  /\ UNCHANGED <<broker, storage, records, commands, outputs, inputs, todo, out, crashes>>

\* EC2 has no machine left for this account: create_instance returns an error.
CreateInstanceFails ==
  /\ pc = "assign"
  /\ Unassigned # {} /\ BelowLimit
  /\ \A m \in Machines : machines[m] # "unused"
  /\ Dies
  /\ UNCHANGED crashes

\* save_instance writes the record, then the list.
SaveInstance ==
  /\ pc = "save"
  /\ info' = [info EXCEPT ![cur] = [job |-> JobIdOf[req], st |-> "init", cmd |-> None]]
  /\ pc' = "list"
  /\ UNCHANGED <<broker, storage, list, aws, todo, hand, crashes>>

ListInstance ==
  /\ pc = "list"
  /\ list' = list \cup {cur}
  /\ StartExecuting(list \cup {cur})
  /\ UNCHANGED <<broker, storage, info, aws, crashes>>

-----------------------------------------------------------------------------
(* execute_job *)

SkipNotReady(m) ==
  /\ pc = "execute" /\ m \in todo
  /\ ~Ready(m)
  /\ todo' = todo \ {m}
  /\ UNCHANGED <<broker, storage, records, aws, pc, hand, crashes>>

\* The job of a machine that is ready: its inputs are uploaded.
UploadInputs(m) ==
  /\ pc = "execute" /\ m \in todo
  /\ Ready(m)
  /\ LET r == jobs[info[m].job]
     IN IF r = None \/ r \in Unrunnable
          THEN Dies  \* JobIdNotFound, or the error of command or input
          ELSE /\ Uploads(r)
               /\ cur' = m /\ req' = r
               /\ pc' = "command"
               /\ UNCHANGED <<broker, storage, records, machines, commands,
                              outputs, todo, out>>
  /\ UNCHANGED crashes

SendCommand(c) ==
  /\ pc = "command"
  /\ Ready(cur)
  /\ Sends(c, cur, req)
  /\ out' = c
  /\ pc' = "running"
  /\ UNCHANGED <<broker, storage, records, machines, outputs, inputs, todo, cur,
                 req, crashes>>

\* The machine has stopped since, or SSM takes no more commands: send_command
\* returns an error.
SendCommandFails ==
  /\ pc = "command"
  /\ ~Ready(cur) \/ \A c \in Commands : commands[c] # None
  /\ Dies
  /\ UNCHANGED crashes

\* Variant: the command id is not kept.
SaveRunningNoCommand ==
  /\ pc = "running"
  /\ info' = [info EXCEPT ![cur].st = "running"]
  /\ todo' = todo \ {cur}
  /\ EmptyHand
  /\ pc' = "execute"
  /\ UNCHANGED <<broker, storage, list, aws, crashes>>

\* save_instance: the machine is in the list, so only its record is written.
SaveRunning ==
  /\ pc = "running"
  /\ info' = [info EXCEPT ![cur].st = "running", ![cur].cmd = out]
  /\ todo' = todo \ {cur}
  /\ EmptyHand
  /\ pc' = "execute"
  /\ UNCHANGED <<broker, storage, list, aws, crashes>>

\* complete_jobs takes the listed machines that were sent a command.
StartCompleting ==
  /\ pc = "execute" /\ todo = {}
  /\ pc' = "complete"
  /\ todo' = {m \in Listed : info[m].st = "running"}
  /\ UNCHANGED <<broker, storage, records, aws, hand, crashes>>

-----------------------------------------------------------------------------
(* complete_jobs *)

\* The command is in progress, or its status is not known yet.
StillBusy(m) ==
  /\ pc = "complete" /\ m \in todo
  /\ Status(info[m].cmd) = "busy"
  /\ todo' = todo \ {m}
  /\ UNCHANGED <<broker, storage, records, aws, pc, hand, crashes>>

\* The text downloaded for r, if extract_structured_json finds in it the type
\* that the job expects; Bad otherwise.
Extracted(r) ==
  LET text == Download(r)
  IN IF text \in JobRequests /\ TypeOf[text] = TypeOf[r] THEN text ELSE Bad

\* complete_jobs is about to store outcome o for request r of machine m.
Collects(m, r, o) ==
  /\ cur' = m /\ req' = r /\ out' = o
  /\ pc' = "store"
  /\ UNCHANGED <<broker, storage, records, aws, todo>>

\* Variant: the machine is terminated as soon as the result is there.
CollectSuccessTerminates(m) ==
  /\ pc = "complete" /\ m \in todo
  /\ Status(info[m].cmd) = "ok"
  /\ LET r == jobs[info[m].job]
     IN /\ r # None /\ Download(r) # None
        /\ cur' = m /\ req' = r /\ out' = Extracted(r)
        /\ Terminates(m)
  /\ pc' = "store"
  /\ UNCHANGED <<broker, storage, records, commands, outputs, inputs, todo, crashes>>

\* The command has succeeded: its result is downloaded.
CollectSuccess(m) ==
  /\ pc = "complete" /\ m \in todo
  /\ Status(info[m].cmd) = "ok"
  /\ LET r == jobs[info[m].job]
     IN IF r = None \/ r \in Unrunnable \/ Download(r) = None
          THEN Dies  \* JobIdNotFound, command().unwrap(), S3 or UTF-8 error
          ELSE Collects(m, r, Extracted(r))
  /\ UNCHANGED crashes

\* The command has failed: its error output becomes the result.
CollectFailure(m) ==
  /\ pc = "complete" /\ m \in todo
  /\ Status(info[m].cmd) = "failed"
  /\ LET r == jobs[info[m].job]
     IN IF r = None THEN Dies ELSE Collects(m, r, Bad)
  /\ UNCHANGED crashes

\* Variant: only the job is removed.
StoreOutcomeNoResult ==
  /\ pc = "store"
  /\ jobs' = [jobs EXCEPT ![JobIdOf[req]] = None]
  /\ pc' = "terminate"
  /\ UNCHANGED <<broker, results, records, aws, todo, hand, crashes>>

\* complete_job: one transaction stores the result and removes the job.
StoreOutcome ==
  /\ pc = "store"
  /\ results' = [results EXCEPT ![JobIdOf[req]] = [req |-> req, out |-> out]]
  /\ jobs' = [jobs EXCEPT ![JobIdOf[req]] = None]
  /\ pc' = "terminate"
  /\ UNCHANGED <<broker, records, aws, todo, hand, crashes>>

\* Variant: the machine is left running.
TerminateInstanceNot ==
  /\ pc = "terminate"
  /\ pc' = IF Status(info[cur].cmd) = "ok" THEN "delete" ELSE "forget"
  /\ UNCHANGED <<broker, storage, records, aws, todo, hand, crashes>>

\* terminate_instance.  Only after a success the S3 objects are deleted.
TerminateInstance ==
  /\ pc = "terminate"
  /\ Terminates(cur)
  /\ pc' = IF Status(info[cur].cmd) = "ok" THEN "delete" ELSE "forget"
  /\ UNCHANGED <<broker, storage, records, commands, outputs, inputs, todo, hand,
                 crashes>>

DeleteResult ==
  /\ pc = "delete"
  /\ DeletesOutput(req)
  /\ pc' = "clean"
  /\ UNCHANGED <<broker, storage, records, machines, commands, inputs, todo, hand,
                 crashes>>

DeleteInputs ==
  /\ pc = "clean"
  /\ DeletesInputs(req)
  /\ pc' = "forget"
  /\ UNCHANGED <<broker, storage, records, machines, commands, outputs, todo, hand,
                 crashes>>

\* Variant: nothing is removed.
RemoveRecordNot ==
  /\ pc = "forget"
  /\ pc' = "complete"
  /\ todo' = todo \ {cur} /\ EmptyHand
  /\ UNCHANGED <<broker, storage, records, aws, crashes>>

\* remove_instance removes the record, then writes the list without it.
RemoveRecord ==
  /\ pc = "forget"
  /\ info' = [info EXCEPT ![cur] = None]
  /\ pc' = "unlist"
  /\ UNCHANGED <<broker, storage, list, aws, todo, hand, crashes>>

UnlistInstance ==
  /\ pc = "unlist"
  /\ list' = list \ {cur}
  /\ todo' = todo \ {cur} /\ EmptyHand
  /\ pc' = "complete"
  /\ UNCHANGED <<broker, storage, info, aws, crashes>>

-----------------------------------------------------------------------------
(* send_results *)

StartSending ==
  /\ pc = "complete" /\ todo = {}
  /\ pc' = "send"
  /\ todo' = Stored(results)
  /\ UNCHANGED <<broker, storage, records, aws, hand, crashes>>

\* The broker takes the result.
SendResult(j) ==
  /\ pc = "send" /\ j \in todo
  /\ delivered' = delivered \cup {results[j]}
  /\ req' = results[j].req
  /\ pc' = "remove"
  /\ UNCHANGED <<sent, inbox, storage, records, aws, todo, cur, out, crashes>>

\* Variant: a refused result is removed too.
SendFailsForgets(j) ==
  /\ pc = "send" /\ j \in todo
  /\ results' = [results EXCEPT ![j] = None]
  /\ todo' = todo \ {j}
  /\ UNCHANGED <<broker, jobs, records, aws, pc, hand, crashes>>

\* The broker refuses the result, or the call fails with the result queued or
\* not: it is kept for the next tick.
SendFails(j) ==
  /\ pc = "send" /\ j \in todo
  /\ delivered' \in {delivered, delivered \cup {results[j]}}
  /\ todo' = todo \ {j}
  /\ UNCHANGED <<sent, inbox, storage, records, aws, pc, hand, crashes>>

\* remove_result.
RemoveResult ==
  /\ pc = "remove"
  /\ results' = [results EXCEPT ![JobIdOf[req]] = None]
  /\ todo' = todo \ {JobIdOf[req]}
  /\ req' = None
  /\ pc' = "send"
  /\ UNCHANGED <<broker, jobs, records, aws, cur, out, crashes>>

EndTick ==
  /\ pc = "send" /\ todo = {}
  /\ pc' = "get"
  /\ UNCHANGED <<broker, storage, records, aws, todo, hand, crashes>>

-----------------------------------------------------------------------------
\* The process is killed or stopped, or a call of the broker, the store or AWS
\* has failed: after the step if the call took effect, before it if not.
Crash ==
  /\ pc # "down"
  /\ crashes < MaxCrashes
  /\ crashes' = crashes + 1
  /\ Dies

-----------------------------------------------------------------------------

GetMessage == SkipJob \/ AcceptJob

\* Everything the dispatcher does of its own accord.
Dispatcher ==
  \/ GetNothing
  \/ GetMessage
  \/ Ack
  \/ AssignNothing
  \/ \E j \in JobIds, m \in Machines : CreateInstance(j, m)
  \/ CreateInstanceFails
  \/ SaveInstance
  \/ ListInstance
  \/ \E m \in Machines : SkipNotReady(m) \/ UploadInputs(m)
  \/ \E c \in Commands : SendCommand(c)
  \/ SendCommandFails
  \/ SaveRunning
  \/ StartCompleting
  \/ \E m \in Machines : StillBusy(m) \/ CollectSuccess(m) \/ CollectFailure(m)
  \/ StoreOutcome
  \/ TerminateInstance
  \/ DeleteResult
  \/ DeleteInputs
  \/ RemoveRecord
  \/ UnlistInstance
  \/ StartSending
  \/ \E j \in JobIds : SendResult(j) \/ SendFails(j)
  \/ RemoveResult
  \/ EndTick

Next ==
  \/ \E r \in JobRequests : Submit(r)
  \/ \E m \in Machines : Boots(m) \/ MachineFails(m)
  \/ \E c \in Commands : CommandEnds(c)
  \/ Restart
  \/ Dispatcher
  \/ Crash

Spec == Init /\ [][Next]_vars

\* What the liveness properties assume: someone restarts the dispatcher, its
\* thread is scheduled, machines boot, commands end, a message that waits is
\* found by one of endlessly many calls of get, and a result is taken by one of
\* endlessly many calls of send.
Fairness ==
  /\ WF_vars(Restart)
  /\ WF_vars(Dispatcher)
  /\ \A m \in Machines \ Flaky : WF_vars(Boots(m))
  /\ \A c \in Commands : WF_vars(CommandEnds(c))
  /\ SF_vars(GetMessage)
  /\ \A j \in JobIds : SF_vars(SendResult(j))

FairSpec == Spec /\ Fairness

-----------------------------------------------------------------------------
(* Properties *)

\* Every variable keeps its kind of value.
TypeOK ==
  /\ sent \subseteq JobRequests /\ inbox \in Seq(JobRequests)
  /\ delivered \subseteq Result
  /\ jobs \in [JobIds -> JobRequests \cup {None}]
  /\ results \in [JobIds -> Result \cup {None}]
  /\ info \in [Machines -> Info \cup {None}] /\ list \subseteq Machines
  /\ machines \in [Machines -> {"unused", "booting", "ready", "ending"}]
  /\ commands \in [Commands -> Command \cup {None}]
  /\ outputs \in [Objects -> JobRequests \cup {Bad, None}]
  /\ inputs \in [JobIds -> JobRequests \cup {None}]
  /\ pc \in {"down", "get", "ack", "assign", "save", "list", "execute",
             "command", "running", "complete", "store", "terminate", "delete",
             "clean", "forget", "unlist", "send", "remove"}
  /\ todo \subseteq Machines \cup JobIds
  /\ cur \in Machines \cup {None}
  /\ req \in JobRequests \cup {None}
  /\ out \in JobRequests \cup Commands \cup {Bad, None}
  /\ crashes \in Nat

Acked(r) == r \in sent /\ ~InInbox(r)

Answered(r) == \E d \in delivered : d.req = r

\* Requests whose job or whose result is stored.
Kept ==
  {r \in JobRequests :
     \/ jobs[JobIdOf[r]] = r
     \/ results[JobIdOf[r]] # None /\ results[JobIdOf[r]].req = r}

UniqueIds == \A q, r \in JobRequests : JobIdOf[q] = JobIdOf[r] => q = r

\* When clients do not reuse job ids, a request whose message was acknowledged
\* is stored as a job, stored as a result or answered, whatever is lost.
AckedIsSafe ==
  \A r \in JobRequests : Acked(r) => r \in Kept \/ Answered(r)

\* No two machines of the list work for one job id, across crashes between the
\* writes of a machine's record and of the list.
OneMachinePerJob ==
  \A m, n \in Listed : info[m].job = info[n].job => m = n

\* Machines that were launched and whose end nobody has asked for.
Live == {m \in Machines : machines[m] \in {"booting", "ready"}}

\* A machine that runs is in the list, or being added to it, but for one for
\* each time the dispatcher was lost (between the launch of a machine and the
\* write that lists it).  So every other one is terminated in the end, and counts
\* for max_running_instances until then.
MachinesAreTracked == Cardinality(Live \ (Listed \cup {cur})) <= crashes

\* Without crashes every machine of the list has its job, so execute_job and
\* complete_jobs do not meet JobIdNotFound; only a machine that is being
\* removed has lost its job already.
MachinesHaveJobs ==
  crashes = 0 => \A m \in Listed : m = cur \/ jobs[info[m].job] # None

\* The command whose end the dispatcher waits for never runs without its inputs,
\* or next to those of another request: no other machine completes or starts a
\* job under the same keys before it has ended.  (One that was sent too, and not
\* recorded because the dispatcher was lost, may well run without them: its
\* machine is still shutting down when they are deleted.)
InputsStay ==
  \A m \in Listed :
    info[m].st = "running" /\ Busy(info[m].cmd)
      => inputs[info[m].job] = commands[info[m].cmd].req

\* When clients do not reuse job ids, the end of a machine is not asked for
\* before the outcome of what it was sent is safe: the result is stored or the
\* client has it.
StopsAfterStored ==
  \A c \in Commands :
    commands[c] # None /\ commands[c].on \notin Flaky
      /\ machines[commands[c].on] = "ending"
      => LET r == commands[c].req
         IN Answered(r) \/ \E j \in JobIds : results[j] # None /\ results[j].req = r

\* The results clients have, or will be sent.
Answers == delivered \cup {results[j] : j \in Stored(results)}

\* Without crashes a success carries the output of the very request it
\* answers, even if requests with one job id follow one another: no machine and
\* no S3 object of the first is left to answer the second.
AnswerIsItsOwn ==
  crashes = 0 => \A s \in Answers : s.out \in {Bad, s.req}

\* In AWS mode too the dispatcher implements JobService for clients that do
\* not reuse job ids.
Service == INSTANCE JobService WITH
  Requests <- JobRequests,
  Outcomes <- JobRequests \cup {Bad},
  asked    <- sent,
  waiting  <- {r \in JobRequests : InInbox(r)},
  kept     <- Kept,
  answers  <- delivered

\* Every step of the dispatcher, of its machines and of its clients is one the
\* service allows, or none at all, across crashes and redeliveries.
ServiceSafety == Service!Safety

\* Every message is eventually acknowledged, although the dispatcher is lost
\* or ends at the same machine again and again: a tick takes its message before
\* it looks at the machines.
QueueDrains == \A r \in JobRequests : r \in sent ~> ~InInbox(r)

\* A result that was saved to be sent back (lib.rs:271) is eventually sent.
ResultsAreSent ==
  \A r \in JobRequests :
    (\E j \in JobIds : results[j] # None /\ results[j].req = r) ~> Answered(r)

\* Every request is eventually answered, the ones too that wait for a machine
\* to be free, if no machine fails and the dispatcher is not lost.
JobsAnswered == \A r \in JobRequests : r \in sent ~> Answered(r) \/ crashes > 0

=============================================================================
