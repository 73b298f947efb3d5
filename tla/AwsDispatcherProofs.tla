-------------------------- MODULE AwsDispatcherProofs --------------------------
(***************************************************************************)
(* Proofs about AwsDispatcher: its type invariant, then one invariant that *)
(* ties the records of machines, the commands sent to them and the stored  *)
(* jobs to the control point, and from these the safety properties.        *)
(***************************************************************************)
EXTENDS AwsDispatcher, QueueLemmas, FiniteSetTheorems, TLAPS

-----------------------------------------------------------------------------
(* Types *)

\* Listed machines that were sent no command yet, as far as is recorded, and
\* those that were.
Fresh   == {m \in Listed : info[m].st = "init"}
Working == {m \in Listed : info[m].st = "running"}

\* The steps that close the job of a machine, after its outcome is stored and
\* before its record is removed.
Closing == {"terminate", "delete", "clean", "forget"}

\* What the dispatcher has in hand at each step is something it can use: its
\* loops walk over what is recorded or stored.
HandOK ==
  /\ pc = "ack" => inbox # <<>>
  /\ pc \in {"save", "list"} => cur \in Machines /\ req \in JobRequests
  /\ pc \in {"execute", "command", "running"} => todo \subseteq Fresh
  /\ pc \in {"command", "running"} => cur \in todo /\ req \in JobRequests
  /\ pc = "running" => out \in Commands
  /\ pc \in {"complete", "store"} \cup Closing => todo \subseteq Working
  /\ pc \in {"store"} \cup Closing => cur \in todo /\ req \in JobRequests
  /\ pc = "store" => out \in JobRequests \cup {Bad}
  /\ pc = "unlist" => /\ cur \in Machines /\ info[cur] = None
                      /\ todo \ {cur} \subseteq Working
  /\ pc \in {"send", "remove"} => todo \subseteq Stored(results)
  /\ pc = "remove" => req \in JobRequests /\ results[JobIdOf[req]] # None
  /\ pc \in {"down", "get", "ack", "assign", "execute", "complete", "send", "remove"}
       => cur = None

\* Jobs and results are stored under the ids of their requests.
KeysOK ==
  /\ \A j \in Stored(jobs) : JobIdOf[jobs[j]] = j
  /\ \A j \in Stored(results) : JobIdOf[results[j].req] = j

TypeInv == TypeOK /\ HandOK /\ KeysOK

\* The death of the dispatcher, whoever causes it, keeps the types.
LEMMA DiesType ==
  ASSUME TypeOK, Dies, crashes' \in Nat
  PROVE  TypeOK'
BY DEF TypeOK, Dies, EmptyHand, broker, storage, records, aws

\* The job of a machine in the list.
LEMMA JobOfListed ==
  ASSUME TypeOK, NEW m \in Listed
  PROVE  /\ m \in Machines /\ info[m] \in Info /\ info[m].job \in JobIds
         /\ jobs[info[m].job] \in JobRequests \cup {None}
BY DEF TypeOK, Listed, Recorded, Info

\* Machine m, whose command has ended with outcome o, is dealt with, or the
\* dispatcher ends.
LEMMA CollectedBy ==
  ASSUME TypeOK, HandOK, NEW m \in Machines,
         CollectSuccess(m) \/ CollectFailure(m)
  PROVE  /\ pc = "complete" /\ m \in todo /\ m \in Working
         /\ UNCHANGED <<broker, storage, records, aws, crashes>>
         /\ \/ Dies
            \/ \E o \in JobRequests \cup {Bad} :
                 /\ Collects(m, jobs[info[m].job], o)
                 /\ jobs[info[m].job] \in JobRequests
<1>1. pc = "complete" /\ m \in todo /\ m \in Working
  BY DEF CollectSuccess, CollectFailure, HandOK
<1>2. m \in Listed /\ jobs[info[m].job] \in JobRequests \cup {None}
  BY <1>1, JobOfListed DEF Working
<1>3. CASE CollectSuccess(m)
  BY <1>1, <1>2, <1>3 DEF CollectSuccess, Collects, Extracted, Dies
<1>4. CASE CollectFailure(m)
  BY <1>1, <1>2, <1>4 DEF CollectFailure, Collects, Dies
<1> QED
  BY <1>3, <1>4

LEMMA InitType == Init => TypeInv
<1> SUFFICES ASSUME Init PROVE TypeInv
  OBVIOUS
<1>1. inbox \in Seq(JobRequests)
  BY EmptySeq DEF Init
<1> QED
  BY <1>1 DEF Init, TypeInv, TypeOK, HandOK, KeysOK, Stored, Closing

\* One step keeps the types.
LEMMA TypeStep ==
  ASSUME TypeOK, HandOK, [Next]_vars
  PROVE  TypeOK'
<1> USE DEF TypeOK, broker, storage, records, aws, hand
<1>1. ASSUME NEW r \in JobRequests, Submit(r) PROVE TypeOK'
  BY <1>1, AppendedIn DEF Submit
<1>2. ASSUME NEW m \in Machines, Boots(m) PROVE TypeOK'
  BY <1>2 DEF Boots
<1>3. ASSUME NEW m \in Machines, MachineFails(m) PROVE TypeOK'
  BY <1>3 DEF MachineFails, ShutsDown
<1>4. ASSUME NEW c \in Commands, CommandEnds(c) PROVE TypeOK'
  <2>1. commands[c] \in Command
    BY <1>4 DEF CommandEnds, Busy
  <2> DEFINE r == commands[c].req
             o == ObjectOf[r]
  <2>2. PICK st \in {"ok", "failed"}, text \in Texts(r) \cup {outputs[o]} :
          /\ commands' = [commands EXCEPT ![c].st = st]
          /\ outputs' = [outputs EXCEPT ![o] = text]
    BY <1>4 DEF CommandEnds
  <2>3. r \in JobRequests /\ o \in Objects
    BY <2>1, RequestsAssumption DEF Command
  <2>4. text \in JobRequests \cup {Bad, None}
    BY <2>3 DEF Texts
  <2>5. [commands[c] EXCEPT !.st = st] \in Command
    BY <2>1 DEF Command
  <2> QED
    BY <1>4, <2>2, <2>3, <2>4, <2>5 DEF CommandEnds
<1>5. CASE Restart
  BY <1>5 DEF Restart
<1>6. CASE GetNothing
  BY <1>6 DEF GetNothing
<1>7. CASE SkipJob
  BY <1>7 DEF SkipJob
<1>8. CASE AcceptJob
  BY <1>8, TailIn, RequestsAssumption DEF AcceptJob, msg
<1>9. CASE Ack
  BY <1>9, TailIn DEF Ack, HandOK
<1>10. CASE AssignNothing
  BY <1>10 DEF AssignNothing, StartExecuting, Recorded, EmptyHand
<1>11. ASSUME NEW j \in JobIds, NEW m \in Machines, CreateInstance(j, m) PROVE TypeOK'
  BY <1>11 DEF CreateInstance, Launches, Unassigned, Stored
<1>12. CASE CreateInstanceFails
  BY <1>12, DiesType DEF CreateInstanceFails
<1>13. CASE SaveInstance
  BY <1>13, RequestsAssumption DEF SaveInstance, HandOK, Info
<1>14. CASE ListInstance
  BY <1>14 DEF ListInstance, StartExecuting, Recorded, EmptyHand, HandOK
<1>15. ASSUME NEW m \in Machines, SkipNotReady(m) PROVE TypeOK'
  BY <1>15 DEF SkipNotReady
<1>16. ASSUME NEW m \in Machines, UploadInputs(m) PROVE TypeOK'
  <2> DEFINE r == jobs[info[m].job]
  <2>1. info[m] \in Info
    BY <1>16 DEF UploadInputs, HandOK, Fresh, Listed, Recorded
  <2>2. r \in JobRequests \cup {None}
    BY <2>1 DEF Info
  <2>3. CASE Dies
    BY <1>16, <2>3, DiesType DEF UploadInputs
  <2>4. CASE ~Dies
    BY <1>16, <2>2, <2>4, RequestsAssumption DEF UploadInputs, Uploads
  <2> QED
    BY <2>3, <2>4
<1>17. ASSUME NEW c \in Commands, SendCommand(c) PROVE TypeOK'
  BY <1>17 DEF SendCommand, Sends, HandOK, Fresh, Listed, Recorded, Command
<1>18. CASE SendCommandFails
  BY <1>18, DiesType DEF SendCommandFails
<1>19. CASE SaveRunning
  <2>1. cur \in Listed /\ cur \in Machines /\ info[cur] \in Info /\ out \in Commands
    BY <1>19, JobOfListed DEF SaveRunning, HandOK, Fresh
  <2>2. info'[cur] \in Info
    BY <1>19, <2>1 DEF SaveRunning, Info
  <2>3. info' \in [Machines -> Info \cup {None}]
    BY <1>19, <2>1, <2>2 DEF SaveRunning
  <2> QED
    BY <1>19, <2>3 DEF SaveRunning, EmptyHand
<1>20. CASE StartCompleting
  BY <1>20 DEF StartCompleting, Listed, Recorded
<1>21. ASSUME NEW m \in Machines, StillBusy(m) PROVE TypeOK'
  BY <1>21 DEF StillBusy
<1>22. ASSUME NEW m \in Machines, CollectSuccess(m) PROVE TypeOK'
  BY <1>22, CollectedBy, DiesType DEF Collects
<1>23. ASSUME NEW m \in Machines, CollectFailure(m) PROVE TypeOK'
  BY <1>23, CollectedBy, DiesType DEF Collects
<1>24. CASE StoreOutcome
  BY <1>24, RequestsAssumption DEF StoreOutcome, HandOK, Result
<1>25. CASE TerminateInstance
  BY <1>25 DEF TerminateInstance, Terminates, ShutsDown
<1>26. CASE DeleteResult
  BY <1>26 DEF DeleteResult, DeletesOutput
<1>27. CASE DeleteInputs
  BY <1>27 DEF DeleteInputs, DeletesInputs
<1>28. CASE RemoveRecord
  BY <1>28 DEF RemoveRecord
<1>29. CASE UnlistInstance
  BY <1>29 DEF UnlistInstance, EmptyHand
<1>30. CASE StartSending
  BY <1>30 DEF StartSending, Stored
<1>31. ASSUME NEW j \in JobIds, SendResult(j) PROVE TypeOK'
  BY <1>31 DEF SendResult, HandOK, Stored, Result
<1>32. ASSUME NEW j \in JobIds, SendFails(j) PROVE TypeOK'
  BY <1>32 DEF SendFails, HandOK, Stored, Result
<1>33. CASE RemoveResult
  BY <1>33 DEF RemoveResult
<1>34. CASE EndTick
  BY <1>34 DEF EndTick
<1>35. CASE Crash
  BY <1>35, DiesType, BoundsAssumption DEF Crash
<1>36. CASE UNCHANGED vars
  BY <1>36 DEF vars
<1> QED
  BY <1>1, <1>2, <1>3, <1>4, <1>5, <1>6, <1>7, <1>8, <1>9, <1>10, <1>11,
     <1>12, <1>13, <1>14, <1>15, <1>16, <1>17, <1>18, <1>19, <1>20, <1>21,
     <1>22, <1>23, <1>24, <1>25, <1>26, <1>27, <1>28, <1>29, <1>30, <1>31,
     <1>32, <1>33, <1>34, <1>35, <1>36
  DEF Next, Dispatcher, GetMessage

\* One step keeps what the dispatcher has in hand usable.
LEMMA HandStep ==
  ASSUME TypeOK, HandOK, KeysOK, [Next]_vars
  PROVE  HandOK'
<1> USE DEF TypeOK, HandOK, Closing, Stored, Fresh, Working, Listed, Recorded, broker, storage, records, aws, hand
<1>1. ASSUME NEW r \in JobRequests, Submit(r) PROVE HandOK'
  BY <1>1, AppendedIn DEF Submit
<1>2. ASSUME NEW m \in Machines, Boots(m) PROVE HandOK'
  BY <1>2 DEF Boots
<1>3. ASSUME NEW m \in Machines, MachineFails(m) PROVE HandOK'
  BY <1>3 DEF MachineFails, ShutsDown
<1>4. ASSUME NEW c \in Commands, CommandEnds(c) PROVE HandOK'
  BY <1>4 DEF CommandEnds
<1>5. CASE Restart
  BY <1>5 DEF Restart
<1>6. CASE GetNothing
  BY <1>6 DEF GetNothing
<1>7. CASE SkipJob
  BY <1>7 DEF SkipJob
<1>8. CASE AcceptJob
  BY <1>8 DEF AcceptJob
<1>9. CASE Ack
  BY <1>9 DEF Ack
<1>10. CASE AssignNothing
  BY <1>10 DEF AssignNothing, StartExecuting, Fresh, Listed, EmptyHand
<1>11. ASSUME NEW j \in JobIds, NEW m \in Machines, CreateInstance(j, m) PROVE HandOK'
  BY <1>11 DEF CreateInstance, Unassigned
<1>12. CASE CreateInstanceFails
  BY <1>12 DEF CreateInstanceFails, Dies, EmptyHand
<1>13. CASE SaveInstance
  BY <1>13 DEF SaveInstance
<1>14. CASE ListInstance
  BY <1>14 DEF ListInstance, StartExecuting, Fresh, Listed, EmptyHand
<1>15. ASSUME NEW m \in Machines, SkipNotReady(m) PROVE HandOK'
  BY <1>15 DEF SkipNotReady
<1>16. ASSUME NEW m \in Machines, UploadInputs(m) PROVE HandOK'
  BY <1>16, JobOfListed DEF UploadInputs, Dies, EmptyHand, Fresh
<1>17. ASSUME NEW c \in Commands, SendCommand(c) PROVE HandOK'
  BY <1>17 DEF SendCommand
<1>18. CASE SendCommandFails
  BY <1>18 DEF SendCommandFails, Dies, EmptyHand
<1>19. CASE SaveRunning
  BY <1>19 DEF SaveRunning, EmptyHand, Fresh, Listed, Recorded
<1>20. CASE StartCompleting
  BY <1>20 DEF StartCompleting, Working
<1>21. ASSUME NEW m \in Machines, StillBusy(m) PROVE HandOK'
  BY <1>21 DEF StillBusy
<1>22. ASSUME NEW m \in Machines, CollectSuccess(m) PROVE HandOK'
  BY <1>22, CollectedBy DEF Collects, Dies, EmptyHand
<1>23. ASSUME NEW m \in Machines, CollectFailure(m) PROVE HandOK'
  BY <1>23, CollectedBy DEF Collects, Dies, EmptyHand
<1>24. CASE StoreOutcome
  BY <1>24 DEF StoreOutcome
<1>25. CASE TerminateInstance
  BY <1>25 DEF TerminateInstance
<1>26. CASE DeleteResult
  BY <1>26 DEF DeleteResult
<1>27. CASE DeleteInputs
  BY <1>27 DEF DeleteInputs
<1>28. CASE RemoveRecord
  BY <1>28 DEF RemoveRecord, Working, Listed, Recorded
<1>29. CASE UnlistInstance
  BY <1>29 DEF UnlistInstance, EmptyHand, Working, Listed, Recorded
<1>30. CASE StartSending
  BY <1>30 DEF StartSending
<1>31. ASSUME NEW j \in JobIds, SendResult(j) PROVE HandOK'
  BY <1>31 DEF SendResult, KeysOK, Result
<1>32. ASSUME NEW j \in JobIds, SendFails(j) PROVE HandOK'
  BY <1>32 DEF SendFails
<1>33. CASE RemoveResult
  BY <1>33 DEF RemoveResult
<1>34. CASE EndTick
  BY <1>34 DEF EndTick
<1>35. CASE Crash
  BY <1>35 DEF Crash, Dies, EmptyHand
<1>36. CASE UNCHANGED vars
  BY <1>36 DEF vars, Fresh, Working, Listed, Recorded
<1> QED
  BY <1>1, <1>2, <1>3, <1>4, <1>5, <1>6, <1>7, <1>8, <1>9, <1>10, <1>11,
     <1>12, <1>13, <1>14, <1>15, <1>16, <1>17, <1>18, <1>19, <1>20, <1>21,
     <1>22, <1>23, <1>24, <1>25, <1>26, <1>27, <1>28, <1>29, <1>30, <1>31,
     <1>32, <1>33, <1>34, <1>35, <1>36
  DEF Next, Dispatcher, GetMessage

\* One step keeps jobs and results under their ids.
LEMMA KeysStep ==
  ASSUME TypeOK, HandOK, KeysOK, [Next]_vars
  PROVE  KeysOK'
<1> USE DEF TypeOK, KeysOK, Stored, broker, storage, records, aws
<1>1. ASSUME NEW r \in JobRequests, Submit(r) PROVE KeysOK'
  BY <1>1 DEF Submit
<1>2. ASSUME NEW m \in Machines, Boots(m) PROVE KeysOK'
  BY <1>2 DEF Boots
<1>3. ASSUME NEW m \in Machines, MachineFails(m) PROVE KeysOK'
  BY <1>3 DEF MachineFails
<1>4. ASSUME NEW c \in Commands, CommandEnds(c) PROVE KeysOK'
  BY <1>4 DEF CommandEnds
<1>5. CASE Restart
  BY <1>5 DEF Restart
<1>6. CASE GetNothing
  BY <1>6 DEF GetNothing
<1>7. CASE SkipJob
  BY <1>7 DEF SkipJob
<1>8. CASE AcceptJob
  BY <1>8, RequestsAssumption, TailIn DEF AcceptJob, msg
<1>9. CASE Ack
  BY <1>9 DEF Ack
<1>10. CASE AssignNothing
  BY <1>10 DEF AssignNothing
<1>11. ASSUME NEW j \in JobIds, NEW m \in Machines, CreateInstance(j, m) PROVE KeysOK'
  BY <1>11 DEF CreateInstance
<1>12. CASE CreateInstanceFails
  BY <1>12 DEF CreateInstanceFails, Dies
<1>13. CASE SaveInstance
  BY <1>13 DEF SaveInstance
<1>14. CASE ListInstance
  BY <1>14 DEF ListInstance
<1>15. ASSUME NEW m \in Machines, SkipNotReady(m) PROVE KeysOK'
  BY <1>15 DEF SkipNotReady
<1>16. ASSUME NEW m \in Machines, UploadInputs(m) PROVE KeysOK'
  BY <1>16 DEF UploadInputs, Dies
<1>17. ASSUME NEW c \in Commands, SendCommand(c) PROVE KeysOK'
  BY <1>17 DEF SendCommand
<1>18. CASE SendCommandFails
  BY <1>18 DEF SendCommandFails, Dies
<1>19. CASE SaveRunning
  BY <1>19 DEF SaveRunning
<1>20. CASE StartCompleting
  BY <1>20 DEF StartCompleting
<1>21. ASSUME NEW m \in Machines, StillBusy(m) PROVE KeysOK'
  BY <1>21 DEF StillBusy
<1>22. ASSUME NEW m \in Machines, CollectSuccess(m) PROVE KeysOK'
  BY <1>22, CollectedBy
<1>23. ASSUME NEW m \in Machines, CollectFailure(m) PROVE KeysOK'
  BY <1>23, CollectedBy
<1>24. CASE StoreOutcome
  BY <1>24, RequestsAssumption DEF StoreOutcome, HandOK, Closing, Result
<1>25. CASE TerminateInstance
  BY <1>25 DEF TerminateInstance
<1>26. CASE DeleteResult
  BY <1>26 DEF DeleteResult
<1>27. CASE DeleteInputs
  BY <1>27 DEF DeleteInputs
<1>28. CASE RemoveRecord
  BY <1>28 DEF RemoveRecord
<1>29. CASE UnlistInstance
  BY <1>29 DEF UnlistInstance
<1>30. CASE StartSending
  BY <1>30 DEF StartSending
<1>31. ASSUME NEW j \in JobIds, SendResult(j) PROVE KeysOK'
  BY <1>31 DEF SendResult
<1>32. ASSUME NEW j \in JobIds, SendFails(j) PROVE KeysOK'
  BY <1>32 DEF SendFails
<1>33. CASE RemoveResult
  BY <1>33, RequestsAssumption DEF RemoveResult, HandOK
<1>34. CASE EndTick
  BY <1>34 DEF EndTick
<1>35. CASE Crash
  BY <1>35 DEF Crash, Dies
<1>36. CASE UNCHANGED vars
  BY <1>36 DEF vars
<1> QED
  BY <1>1, <1>2, <1>3, <1>4, <1>5, <1>6, <1>7, <1>8, <1>9, <1>10, <1>11,
     <1>12, <1>13, <1>14, <1>15, <1>16, <1>17, <1>18, <1>19, <1>20, <1>21,
     <1>22, <1>23, <1>24, <1>25, <1>26, <1>27, <1>28, <1>29, <1>30, <1>31,
     <1>32, <1>33, <1>34, <1>35, <1>36
  DEF Next, Dispatcher, GetMessage

LEMMA NextType == TypeInv /\ [Next]_vars => TypeInv'
BY TypeStep, HandStep, KeysStep DEF TypeInv

\* Every variable keeps its kind of value in every behaviour.
THEOREM TypeCorrect == Spec => []TypeOK
<1>1. TypeInv => TypeOK
  BY DEF TypeInv
<1> QED
  BY <1>1, InitType, NextType, PTL DEF Spec

-----------------------------------------------------------------------------
(* Machines and their jobs *)

Sent(c) == commands[c] # None

\* The dispatcher is launching a machine for the job it has in hand: nothing of
\* the machine is listed, nothing was sent to it, and no machine has the job.
LaunchOK ==
  pc \in {"save", "list"} =>
    /\ machines[cur] # "unused" /\ cur \notin list
    /\ pc = "save" => info[cur] = None
    /\ pc = "list" => info[cur] = [job |-> JobIdOf[req], st |-> "init", cmd |-> None]
    /\ \A c \in Commands : Sent(c) => commands[c].on # cur
    /\ \A n \in Listed : info[n].job # JobIdOf[req]

\* The machine in hand has the job in hand, which is stored until its outcome
\* is; and its end was asked for before its record is removed.
JobInHandOK ==
  /\ pc \in {"save", "list", "command", "running", "store"} => jobs[JobIdOf[req]] = req
  /\ pc \in {"command", "running", "store"} \cup Closing => info[cur].job = JobIdOf[req]
  /\ pc = "terminate" => /\ results[JobIdOf[req]] # None
                         /\ results[JobIdOf[req]].req = req
  /\ pc \in {"delete", "clean", "forget", "unlist"} => machines[cur] = "ending"

\* Machines that were not launched are not known; one that is recorded with a
\* command was sent it.
RecordsOK ==
  /\ \A m \in Machines : machines[m] = "unused" =>
       /\ info[m] = None /\ m \notin list
       /\ \A c \in Commands : Sent(c) => commands[c].on # m
  /\ \A m \in Machines : info[m] # None /\ info[m].st = "running" =>
       Sent(info[m].cmd) /\ commands[info[m].cmd].on = m
  /\ pc = "running" => Sent(out) /\ commands[out].on = cur

MachineInv == TypeInv /\ LaunchOK /\ JobInHandOK /\ RecordsOK /\ OneMachinePerJob

\* The command recorded for machine m runs; that of the machine in hand does not.
Runs(m) == Busy(info[m].cmd)
HandEnded == ~Runs(cur)

\* A command on a listed machine runs for the job of that machine; the inputs of
\* the job in hand are there until its command is recorded; the recorded command
\* of a machine has ended before its outcome is stored.
CommandsOK ==
  /\ \A c \in Commands : Sent(c) /\ commands[c].on \in Listed =>
       info[commands[c].on].job = JobIdOf[commands[c].req]
  /\ pc \in {"command", "running"} => inputs[JobIdOf[req]] = req
  /\ pc = "running" => commands[out].req = req
  /\ pc \in {"store"} \cup Closing => HandEnded
  /\ InputsStay

CommandInv == MachineInv /\ CommandsOK

\* Machines that run and are neither listed nor about to be.
Untracked == Live \ (Listed \cup {cur})

TrackedOK ==
  /\ IsFiniteSet(Untracked)
  /\ MachinesAreTracked

\* Machine m is being removed.
Leaves(m) == m = cur /\ pc \in Closing

\* As long as the dispatcher was not lost, a listed machine has its job.
HaveJobsOK ==
  crashes = 0 => \A m \in Listed : Leaves(m) \/ jobs[info[m].job] # None

\* A command that was sent to a listed machine is the one of its record, or is
\* about to be, and runs for the stored request; when it has succeeded the text
\* in S3 is the one it has uploaded.
OwnCommandOK(c) ==
  Sent(c) /\ commands[c].on \in Listed =>
    LET m == commands[c].on
        r == commands[c].req
    IN /\ \/ info[m].st = "running" /\ info[m].cmd = c
          \/ pc = "running" /\ cur = m /\ out = c
       /\ Leaves(m) \/ jobs[JobIdOf[r]] = r
       /\ commands[c].st = "ok" =>
            Leaves(m) \/ outputs[ObjectOf[r]] \in {r, Bad, None}

\* As long as the dispatcher was not lost, that is so of every command, one that
\* runs does so on a listed machine, and what is about to be stored comes from
\* the request it is stored for.
OwnOK ==
  /\ crashes = 0 =>
       /\ \A c \in Commands : OwnCommandOK(c)
       /\ \A c \in Commands : Busy(c) => commands[c].on \in Listed
       /\ pc = "store" => out \in {Bad, req}
  /\ AnswerIsItsOwn

\* The record of a machine is written while it is not listed yet.
LEMMA SavedListed ==
  ASSUME TypeOK, HandOK, LaunchOK, SaveInstance
  PROVE  /\ Listed' = Listed /\ cur \notin Listed
         /\ \A m \in Machines : m # cur => info'[m] = info[m]
BY DEF TypeOK, HandOK, LaunchOK, SaveInstance, Listed, Recorded

\* A machine joins the list when its record is there, with the job in hand.
LEMMA ListedOne ==
  ASSUME TypeOK, HandOK, LaunchOK, ListInstance
  PROVE  /\ Listed' = Listed \cup {cur} /\ cur \notin Listed
         /\ info[cur] = [job |-> JobIdOf[req], st |-> "init", cmd |-> None]
         /\ info' = info
<1>1. info[cur] = [job |-> JobIdOf[req], st |-> "init", cmd |-> None]
  BY DEF ListInstance, LaunchOK
<1>2. info[cur] # None
  BY <1>1, NoneAssumption, RequestsAssumption DEF ListInstance, HandOK, Info
<1> QED
  BY <1>1, <1>2 DEF ListInstance, LaunchOK, HandOK, TypeOK, Listed, Recorded

\* The record of a listed machine gets its command.
LEMMA RunningListed ==
  ASSUME TypeOK, HandOK, SaveRunning
  PROVE  /\ Listed' = Listed /\ cur \in Listed
         /\ info'[cur] = [job |-> info[cur].job, st |-> "running", cmd |-> out]
         /\ \A m \in Machines : m # cur => info'[m] = info[m]
<1>1. cur \in Fresh /\ cur \in Listed /\ out \in Commands
  BY DEF SaveRunning, HandOK, Fresh
<1>2. info[cur] \in Info /\ cur \in Machines
  BY <1>1, JobOfListed
<1>3. info'[cur] = [job |-> info[cur].job, st |-> "running", cmd |-> out]
  BY <1>2 DEF SaveRunning, TypeOK, Info
<1>4. info'[cur] # None
  BY <1>1, <1>2, <1>3, NoneAssumption DEF Info
<1> QED
  BY <1>1, <1>3, <1>4 DEF SaveRunning, TypeOK, Listed, Recorded

\* A machine leaves the list when its record is removed.
LEMMA RemovedListed ==
  ASSUME TypeOK, HandOK, RemoveRecord
  PROVE  /\ Listed' = Listed \ {cur} /\ cur \in Listed
         /\ \A m \in Machines : m # cur => info'[m] = info[m]
BY DEF TypeOK, HandOK, Closing, RemoveRecord, Working, Listed, Recorded

LEMMA UnlistedListed ==
  ASSUME TypeOK, HandOK, UnlistInstance
  PROVE  Listed' = Listed
BY DEF TypeOK, HandOK, UnlistInstance, Listed, Recorded

\* Commands change only when one is sent or ends.
LEMMA CommandsSame ==
  ASSUME [Next]_vars, ~\E d \in Commands : CommandEnds(d) \/ SendCommand(d)
  PROVE  UNCHANGED commands
BY DEF Next, Dispatcher, GetMessage, Submit, Boots, MachineFails, Restart,
   GetNothing, SkipJob, AcceptJob, Ack, AssignNothing, CreateInstance,
   CreateInstanceFails, SaveInstance, ListInstance, SkipNotReady, UploadInputs,
   SendCommandFails, SaveRunning, StartCompleting, StillBusy, CollectSuccess,
   CollectFailure, Collects, StoreOutcome, TerminateInstance, DeleteResult,
   DeleteInputs, RemoveRecord, UnlistInstance, StartSending, SendResult,
   SendFails, RemoveResult, EndTick, Crash, Dies, vars, aws

\* What a step does to a command: the one that is sent is new and runs for the
\* job and on the machine in hand, all others at most end.
LEMMA CommandStep ==
  ASSUME TypeOK, HandOK, [Next]_vars, NEW c \in Commands
  PROVE  \/ SendCommand(c) /\ ~Sent(c) /\ commands'[c] = [on |-> cur, req |-> req, st |-> "busy"]
         \/ commands'[c] = commands[c]
         \/ /\ Busy(c) /\ commands'[c] # None /\ commands'[c].st # "busy"
            /\ commands'[c].on = commands[c].on /\ commands'[c].req = commands[c].req
<1> DEFINE Goal ==
      \/ /\ SendCommand(c) /\ ~Sent(c)
         /\ commands'[c] = [on |-> cur, req |-> req, st |-> "busy"]
      \/ commands'[c] = commands[c]
      \/ /\ Busy(c) /\ commands'[c] # None /\ commands'[c].st # "busy"
         /\ commands'[c].on = commands[c].on /\ commands'[c].req = commands[c].req
<1> SUFFICES Goal
  OBVIOUS
<1>1. ASSUME NEW d \in Commands, CommandEnds(d) PROVE Goal
  <2>1. PICK st \in {"ok", "failed"} : commands' = [commands EXCEPT ![d].st = st]
    BY <1>1 DEF CommandEnds
  <2>2. CASE c = d
    <3>1. commands[c] \in Command /\ Busy(c)
      BY <1>1, <2>2 DEF TypeOK, CommandEnds, Busy
    <3>2. commands'[c] = [commands[c] EXCEPT !.st = st]
      BY <2>1, <2>2 DEF TypeOK
    <3>3. commands'[c] \in Command
      BY <3>1, <3>2 DEF Command
    <3> QED
      BY <3>1, <3>2, <3>3, NoneAssumption DEF Command
  <2>3. CASE c # d
    BY <2>1, <2>3 DEF TypeOK
  <2> QED
    BY <2>2, <2>3
<1>2. ASSUME NEW d \in Commands, SendCommand(d) PROVE Goal
  BY <1>2 DEF SendCommand, Sends, Sent, TypeOK
<1> QED
  BY <1>1, <1>2, CommandsSame

\* Other steps send no command, and all keep where commands run and for what.
LEMMA CommandsKept ==
  ASSUME TypeOK, HandOK, [Next]_vars, pc' = "running" => pc = "running"
  PROVE  \A c \in Commands :
           /\ Sent(c)' <=> Sent(c)
           /\ Sent(c) => commands'[c].on = commands[c].on /\ commands'[c].req = commands[c].req
           /\ Busy(c)' => Busy(c)
<1> TAKE c \in Commands
<1>1. ~SendCommand(c)
  BY DEF SendCommand
<1>2. CASE commands'[c] = commands[c]
  BY <1>2 DEF Sent, Busy
<1>3. CASE /\ Busy(c) /\ commands'[c] # None /\ commands'[c].st # "busy"
           /\ commands'[c].on = commands[c].on /\ commands'[c].req = commands[c].req
  BY <1>3 DEF Sent, Busy
<1> QED
  BY <1>1, <1>2, <1>3, CommandStep

\* The command that is sent is the only one that changes.
LEMMA SentOne ==
  ASSUME TypeOK, HandOK, NEW c \in Commands, SendCommand(c)
  PROVE  /\ ~Sent(c) /\ Sent(c)' /\ Busy(c)'
         /\ commands'[c].on = cur /\ commands'[c].req = req /\ commands'[c].st = "busy"
         /\ \A d \in Commands : d # c => commands'[d] = commands[d]
<1>1. /\ ~Sent(c) /\ commands'[c] = [on |-> cur, req |-> req, st |-> "busy"]
      /\ \A d \in Commands : d # c => commands'[d] = commands[d]
  BY DEF SendCommand, Sends, TypeOK, Sent
<1>2. commands'[c] \in Command
  BY <1>1 DEF SendCommand, HandOK, Fresh, Listed, Recorded, TypeOK, Command
<1> QED
  BY <1>1, <1>2, NoneAssumption DEF Sent, Busy

\* One step keeps a machine that is being launched unknown to the rest.
LEMMA LaunchStep ==
  ASSUME TypeInv, LaunchOK, JobInHandOK, RecordsOK, OneMachinePerJob, [Next]_vars
  PROVE  LaunchOK'
<1> USE DEF TypeInv, TypeOK, broker, storage, records, aws, hand, LaunchOK
<1>1. ASSUME NEW r \in JobRequests, Submit(r) PROVE LaunchOK'
  BY <1>1 DEF Submit, Listed, Recorded, Sent
<1>2. ASSUME NEW m \in Machines, Boots(m) PROVE LaunchOK'
  BY <1>2 DEF Boots, Listed, Recorded, Sent
<1>3. ASSUME NEW m \in Machines, MachineFails(m) PROVE LaunchOK'
  BY <1>3 DEF MachineFails, ShutsDown, Listed, Recorded, Sent
<1>4. ASSUME NEW c \in Commands, CommandEnds(c) PROVE LaunchOK'
  BY <1>4, CommandsKept DEF CommandEnds, HandOK, Listed, Recorded
<1>5. CASE Restart
  BY <1>5 DEF Restart
<1>6. CASE GetNothing
  BY <1>6 DEF GetNothing
<1>7. CASE SkipJob
  BY <1>7 DEF SkipJob
<1>8. CASE AcceptJob
  BY <1>8 DEF AcceptJob
<1>9. CASE Ack
  BY <1>9 DEF Ack
<1>10. CASE AssignNothing
  BY <1>10 DEF AssignNothing, StartExecuting
<1>11. ASSUME NEW j \in JobIds, NEW m \in Machines, CreateInstance(j, m) PROVE LaunchOK'
  BY <1>11, RequestsAssumption DEF CreateInstance, Launches, RecordsOK, Unassigned, KeysOK, Stored, Listed, Recorded, Sent
<1>12. CASE CreateInstanceFails
  BY <1>12 DEF CreateInstanceFails, Dies, EmptyHand
<1>13. CASE SaveInstance
  <2>1. /\ info'[cur] = [job |-> JobIdOf[req], st |-> "init", cmd |-> None]
        /\ pc = "save" /\ pc' = "list" /\ UNCHANGED <<machines, commands, list, cur, req>>
    BY <1>13 DEF SaveInstance, HandOK
  <2>2. Listed' = Listed /\ \A n \in Listed : n \in Machines /\ info'[n] = info[n]
    BY <1>13, SavedListed DEF Listed, Recorded
  <2> QED
    BY <2>1, <2>2 DEF Sent
<1>14. CASE ListInstance
  BY <1>14 DEF ListInstance, StartExecuting
<1>15. ASSUME NEW m \in Machines, SkipNotReady(m) PROVE LaunchOK'
  BY <1>15 DEF SkipNotReady
<1>16. ASSUME NEW m \in Machines, UploadInputs(m) PROVE LaunchOK'
  BY <1>16 DEF UploadInputs, Dies
<1>17. ASSUME NEW c \in Commands, SendCommand(c) PROVE LaunchOK'
  BY <1>17 DEF SendCommand
<1>18. CASE SendCommandFails
  BY <1>18 DEF SendCommandFails, Dies, EmptyHand
<1>19. CASE SaveRunning
  BY <1>19 DEF SaveRunning
<1>20. CASE StartCompleting
  BY <1>20 DEF StartCompleting
<1>21. ASSUME NEW m \in Machines, StillBusy(m) PROVE LaunchOK'
  BY <1>21 DEF StillBusy
<1>22. ASSUME NEW m \in Machines, CollectSuccess(m) PROVE LaunchOK'
  BY <1>22, CollectedBy DEF Collects, Dies
<1>23. ASSUME NEW m \in Machines, CollectFailure(m) PROVE LaunchOK'
  BY <1>23, CollectedBy DEF Collects, Dies
<1>24. CASE StoreOutcome
  BY <1>24 DEF StoreOutcome
<1>25. CASE TerminateInstance
  BY <1>25 DEF TerminateInstance
<1>26. CASE DeleteResult
  BY <1>26 DEF DeleteResult
<1>27. CASE DeleteInputs
  BY <1>27 DEF DeleteInputs
<1>28. CASE RemoveRecord
  BY <1>28 DEF RemoveRecord
<1>29. CASE UnlistInstance
  BY <1>29 DEF UnlistInstance
<1>30. CASE StartSending
  BY <1>30 DEF StartSending
<1>31. ASSUME NEW j \in JobIds, SendResult(j) PROVE LaunchOK'
  BY <1>31 DEF SendResult
<1>32. ASSUME NEW j \in JobIds, SendFails(j) PROVE LaunchOK'
  BY <1>32 DEF SendFails
<1>33. CASE RemoveResult
  BY <1>33 DEF RemoveResult
<1>34. CASE EndTick
  BY <1>34 DEF EndTick
<1>35. CASE Crash
  BY <1>35 DEF Crash, Dies, EmptyHand
<1>36. CASE UNCHANGED vars
  BY <1>36 DEF vars, Listed, Recorded, Sent
<1> QED
  BY <1>1, <1>2, <1>3, <1>4, <1>5, <1>6, <1>7, <1>8, <1>9, <1>10, <1>11,
     <1>12, <1>13, <1>14, <1>15, <1>16, <1>17, <1>18, <1>19, <1>20, <1>21,
     <1>22, <1>23, <1>24, <1>25, <1>26, <1>27, <1>28, <1>29, <1>30, <1>31,
     <1>32, <1>33, <1>34, <1>35, <1>36
  DEF Next, Dispatcher, GetMessage

\* One step keeps the job in hand and its machine together.
LEMMA JobInHandStep ==
  ASSUME TypeInv, LaunchOK, JobInHandOK, RecordsOK, OneMachinePerJob, [Next]_vars
  PROVE  JobInHandOK'
<1> USE DEF TypeInv, TypeOK, broker, storage, records, aws, hand, JobInHandOK, Closing
<1>1. ASSUME NEW r \in JobRequests, Submit(r) PROVE JobInHandOK'
  BY <1>1 DEF Submit
<1>2. ASSUME NEW m \in Machines, Boots(m) PROVE JobInHandOK'
  BY <1>2 DEF Boots
<1>3. ASSUME NEW m \in Machines, MachineFails(m) PROVE JobInHandOK'
  BY <1>3 DEF MachineFails, ShutsDown
<1>4. ASSUME NEW c \in Commands, CommandEnds(c) PROVE JobInHandOK'
  BY <1>4 DEF CommandEnds
<1>5. CASE Restart
  BY <1>5 DEF Restart
<1>6. CASE GetNothing
  BY <1>6 DEF GetNothing
<1>7. CASE SkipJob
  BY <1>7 DEF SkipJob
<1>8. CASE AcceptJob
  BY <1>8 DEF AcceptJob
<1>9. CASE Ack
  BY <1>9 DEF Ack
<1>10. CASE AssignNothing
  BY <1>10 DEF AssignNothing, StartExecuting
<1>11. ASSUME NEW j \in JobIds, NEW m \in Machines, CreateInstance(j, m) PROVE JobInHandOK'
  BY <1>11 DEF CreateInstance, Unassigned, KeysOK, Stored
<1>12. CASE CreateInstanceFails
  BY <1>12 DEF CreateInstanceFails, Dies, EmptyHand
<1>13. CASE SaveInstance
  BY <1>13 DEF SaveInstance
<1>14. CASE ListInstance
  BY <1>14 DEF ListInstance, StartExecuting
<1>15. ASSUME NEW m \in Machines, SkipNotReady(m) PROVE JobInHandOK'
  BY <1>15 DEF SkipNotReady
<1>16. ASSUME NEW m \in Machines, UploadInputs(m) PROVE JobInHandOK'
  <2>1. CASE Dies
    BY <2>1 DEF Dies
  <2>2. CASE ~Dies
    <3>1. /\ m \in Listed /\ cur' = m /\ req' = jobs[info[m].job] /\ req' # None
          /\ pc' = "command" /\ UNCHANGED <<info, jobs>>
      BY <1>16, <2>2 DEF UploadInputs, HandOK, Fresh
    <3>2. JobIdOf[req'] = info[m].job
      BY <3>1, JobOfListed DEF KeysOK, Stored
    <3> QED
      BY <3>1, <3>2
  <2> QED
    BY <2>1, <2>2
<1>17. ASSUME NEW c \in Commands, SendCommand(c) PROVE JobInHandOK'
  BY <1>17 DEF SendCommand
<1>18. CASE SendCommandFails
  BY <1>18 DEF SendCommandFails, Dies, EmptyHand
<1>19. CASE SaveRunning
  BY <1>19 DEF SaveRunning
<1>20. CASE StartCompleting
  BY <1>20 DEF StartCompleting
<1>21. ASSUME NEW m \in Machines, StillBusy(m) PROVE JobInHandOK'
  BY <1>21 DEF StillBusy
<1>22. ASSUME NEW m \in Machines, CollectSuccess(m) PROVE JobInHandOK'
  <2>1. CASE Dies
    BY <2>1 DEF Dies
  <2>2. CASE ~Dies
    <3>1. PICK o \in JobRequests \cup {Bad} :
            Collects(m, jobs[info[m].job], o) /\ jobs[info[m].job] \in JobRequests
      BY <1>22, <2>2, CollectedBy
    <3>2. JobIdOf[jobs[info[m].job]] = info[m].job
      BY <1>22, <3>1, CollectedBy, JobOfListed, NoneAssumption DEF KeysOK, Stored, Working
    <3> QED
      BY <3>1, <3>2 DEF Collects
  <2> QED
    BY <2>1, <2>2
<1>23. ASSUME NEW m \in Machines, CollectFailure(m) PROVE JobInHandOK'
  <2>1. CASE Dies
    BY <2>1 DEF Dies
  <2>2. CASE ~Dies
    <3>1. PICK o \in JobRequests \cup {Bad} :
            Collects(m, jobs[info[m].job], o) /\ jobs[info[m].job] \in JobRequests
      BY <1>23, <2>2, CollectedBy
    <3>2. JobIdOf[jobs[info[m].job]] = info[m].job
      BY <1>23, <3>1, CollectedBy, JobOfListed, NoneAssumption DEF KeysOK, Stored, Working
    <3> QED
      BY <3>1, <3>2 DEF Collects
  <2> QED
    BY <2>1, <2>2
<1>24. CASE StoreOutcome
  BY <1>24, RequestsAssumption, NoneAssumption DEF StoreOutcome, HandOK, Result
<1>25. CASE TerminateInstance
  BY <1>25 DEF TerminateInstance, Terminates, ShutsDown, HandOK, Working, Listed, Recorded
<1>26. CASE DeleteResult
  BY <1>26 DEF DeleteResult
<1>27. CASE DeleteInputs
  BY <1>27 DEF DeleteInputs
<1>28. CASE RemoveRecord
  BY <1>28 DEF RemoveRecord
<1>29. CASE UnlistInstance
  BY <1>29 DEF UnlistInstance
<1>30. CASE StartSending
  BY <1>30 DEF StartSending
<1>31. ASSUME NEW j \in JobIds, SendResult(j) PROVE JobInHandOK'
  BY <1>31 DEF SendResult
<1>32. ASSUME NEW j \in JobIds, SendFails(j) PROVE JobInHandOK'
  BY <1>32 DEF SendFails
<1>33. CASE RemoveResult
  BY <1>33 DEF RemoveResult
<1>34. CASE EndTick
  BY <1>34 DEF EndTick
<1>35. CASE Crash
  BY <1>35 DEF Crash, Dies, EmptyHand
<1>36. CASE UNCHANGED vars
  BY <1>36 DEF vars
<1> QED
  BY <1>1, <1>2, <1>3, <1>4, <1>5, <1>6, <1>7, <1>8, <1>9, <1>10, <1>11,
     <1>12, <1>13, <1>14, <1>15, <1>16, <1>17, <1>18, <1>19, <1>20, <1>21,
     <1>22, <1>23, <1>24, <1>25, <1>26, <1>27, <1>28, <1>29, <1>30, <1>31,
     <1>32, <1>33, <1>34, <1>35, <1>36
  DEF Next, Dispatcher, GetMessage

\* The steps that touch records or the list of machines.
Records == SaveInstance \/ ListInstance \/ SaveRunning \/ RemoveRecord \/ UnlistInstance

\* All other steps leave them alone.
LEMMA RecordsKept ==
  ASSUME TypeOK, HandOK, [Next]_vars, ~Records
  PROVE  UNCHANGED <<info, list>> /\ Listed' = Listed
<1>1. UNCHANGED <<info, list>>
  <2>1. CASE \E m \in Machines : CollectSuccess(m) \/ CollectFailure(m)
    BY <2>1, CollectedBy DEF records
  <2>2. CASE ~\E m \in Machines : CollectSuccess(m) \/ CollectFailure(m)
    BY <2>2 DEF Records, Next, Dispatcher, GetMessage, Submit, Boots, MachineFails,
       CommandEnds, Restart, GetNothing, SkipJob, AcceptJob, Ack, AssignNothing,
       CreateInstance, CreateInstanceFails, SkipNotReady, UploadInputs,
       SendCommand, SendCommandFails, StartCompleting, StillBusy, StoreOutcome,
       TerminateInstance, DeleteResult, DeleteInputs, StartSending, SendResult,
       SendFails, RemoveResult, EndTick, Crash, Dies, vars, records
  <2> QED
    BY <2>1, <2>2
<1> QED
  BY <1>1 DEF Listed, Recorded

\* Machines are launched once, and do not come back.
LEMMA MachinesStep ==
  ASSUME TypeOK, HandOK, [Next]_vars, NEW m \in Machines
  PROVE  /\ machines'[m] = "unused" => machines[m] = "unused"
         /\ machines[m] = "ending" => machines'[m] = "ending"
<1>1. ASSUME NEW n \in Machines, ShutsDown(n) \/ Launches(n) \/ Boots(n)
      PROVE  /\ machines'[m] = "unused" => machines[m] = "unused"
             /\ machines[m] = "ending" => machines'[m] = "ending"
  BY <1>1 DEF ShutsDown, Launches, Boots, TypeOK
<1>2. ASSUME ~\E n \in Machines : ShutsDown(n) \/ Launches(n) \/ Boots(n)
      PROVE  UNCHANGED machines
  <2>1. CASE \E n \in Machines : CollectSuccess(n) \/ CollectFailure(n)
    BY <2>1, CollectedBy DEF aws
  <2>2. CASE ~\E n \in Machines : CollectSuccess(n) \/ CollectFailure(n)
    BY <1>2, <2>2 DEF Next, Dispatcher, GetMessage, Submit, MachineFails, CommandEnds,
       Restart, GetNothing, SkipJob, AcceptJob, Ack, AssignNothing, CreateInstance,
       CreateInstanceFails, SaveInstance, ListInstance, SkipNotReady, UploadInputs,
       SendCommand, SendCommandFails, SaveRunning, StartCompleting, StillBusy,
       StoreOutcome, TerminateInstance, Terminates, DeleteResult, DeleteInputs,
       RemoveRecord, UnlistInstance, StartSending, SendResult, SendFails,
       RemoveResult, EndTick, Crash, Dies, vars, aws, HandOK, TypeOK, Closing,
       Working, Listed, Recorded
  <2> QED
    BY <2>1, <2>2
<1> QED
  BY <1>1, <1>2

\* The parts of RecordsOK for one machine.
UnknownOK(m) ==
  machines[m] = "unused" =>
    /\ info[m] = None /\ m \notin list
    /\ \A c \in Commands : Sent(c) => commands[c].on # m
CommandOfOK(m) ==
  info[m] # None /\ info[m].st = "running" =>
    Sent(info[m].cmd) /\ commands[info[m].cmd].on = m

\* One step keeps records true to the machines and commands there are.
LEMMA RecordsStep ==
  ASSUME TypeInv, LaunchOK, JobInHandOK, RecordsOK, [Next]_vars
  PROVE  RecordsOK'
<1> USE DEF TypeInv
<1>1. ASSUME NEW m \in Machines PROVE UnknownOK(m)'
  <2> SUFFICES ASSUME machines'[m] = "unused"
               PROVE  /\ info'[m] = None /\ m \notin list'
                      /\ \A c \in Commands : Sent(c)' => commands'[c].on # m
    BY DEF UnknownOK
  <2>1. /\ machines[m] = "unused" /\ info[m] = None /\ m \notin list /\ m \notin Listed
        /\ \A c \in Commands : Sent(c) => commands[c].on # m
    BY MachinesStep DEF RecordsOK, Listed, Recorded
  <2>2. CASE Records
    <3>1. info'[m] = None /\ m \notin list'
      BY <2>1, <2>2, SavedListed, ListedOne, RunningListed, RemovedListed
      DEF Records, SaveInstance, ListInstance, SaveRunning, RemoveRecord,
          UnlistInstance, LaunchOK, TypeOK, records
    <3>2. UNCHANGED commands
      BY <2>2 DEF Records, SaveInstance, ListInstance, SaveRunning, RemoveRecord,
         UnlistInstance, aws
    <3> QED
      BY <2>1, <3>1, <3>2 DEF Sent
  <2>3. ASSUME NEW c \in Commands, SendCommand(c)
        PROVE  \A d \in Commands : Sent(d)' => commands'[d].on # m
    <3>1. cur # m
      BY <2>1, <2>3 DEF SendCommand, HandOK, Fresh
    <3> QED
      BY <2>1, <2>3, <3>1, SentOne DEF Sent
  <2>4. CASE ~Records
    <3>1. info'[m] = None /\ m \notin list'
      BY <2>1, <2>4, RecordsKept
    <3>2. CASE \E c \in Commands : SendCommand(c)
      BY <2>3, <3>1, <3>2
    <3>3. CASE ~\E c \in Commands : SendCommand(c)
      BY <2>1, <3>1, <3>3, CommandStep DEF Sent, Busy
    <3> QED
      BY <3>2, <3>3
  <2> QED
    BY <2>2, <2>4
<1>2. ASSUME NEW m \in Machines PROVE CommandOfOK(m)'
  <2> SUFFICES ASSUME info'[m] # None, info'[m].st = "running"
               PROVE  commands'[info'[m].cmd] # None /\ commands'[info'[m].cmd].on = m
    BY DEF CommandOfOK, Sent
  <2>1. CASE SaveRunning /\ m = cur
    <3>1. info'[m].cmd = out /\ Sent(out) /\ commands[out].on = m
      BY <2>1, RunningListed DEF RecordsOK, SaveRunning
    <3> QED
      BY <2>1, <3>1 DEF SaveRunning, aws, Sent
  <2>2. CASE ~(SaveRunning /\ m = cur)
    <3>1. info'[m] = info[m]
      <4>1. CASE SaveInstance /\ m = cur
        <5>1. info'[m] = [job |-> JobIdOf[req], st |-> "init", cmd |-> None]
          BY <4>1 DEF SaveInstance, TypeOK
        <5> QED
          BY <5>1
      <4>2. CASE RemoveRecord /\ m = cur
        BY <4>2 DEF RemoveRecord, TypeOK
      <4>3. CASE ~(SaveInstance /\ m = cur) /\ ~(RemoveRecord /\ m = cur)
        BY <2>2, <4>3, SavedListed, RunningListed, RemovedListed, RecordsKept
        DEF Records, ListInstance, UnlistInstance
      <4> QED
        BY <4>1, <4>2, <4>3
    <3>2. Sent(info[m].cmd) /\ commands[info[m].cmd].on = m /\ info[m].cmd \in Commands
      BY <3>1 DEF RecordsOK, TypeOK, Info
    <3>3. commands'[info[m].cmd] # None /\ commands'[info[m].cmd].on = m
      BY <3>2, CommandStep DEF Sent, Busy
    <3> QED
      BY <3>1, <3>3
  <2> QED
    BY <2>1, <2>2
<1>3. pc' = "running" => commands'[out'] # None /\ commands'[out'].on = cur'
  <2> SUFFICES ASSUME pc' = "running" PROVE commands'[out'] # None /\ commands'[out'].on = cur'
    OBVIOUS
  <2>1. ASSUME NEW c \in Commands, SendCommand(c) PROVE commands'[out'] # None /\ commands'[out'].on = cur'
    BY <2>1, SentOne DEF SendCommand, Sent
  <2>2. CASE ~\E c \in Commands : SendCommand(c)
    <3>1. pc = "running" /\ UNCHANGED <<cur, out>>
      BY <2>2 DEF Next, Dispatcher, GetMessage, Submit, Boots, MachineFails, CommandEnds,
         Restart, GetNothing, SkipJob, AcceptJob, Ack, AssignNothing, StartExecuting,
         CreateInstance, CreateInstanceFails, SaveInstance, ListInstance,
         SkipNotReady, UploadInputs, SendCommandFails, SaveRunning, StartCompleting,
         StillBusy, CollectSuccess, CollectFailure, Collects, StoreOutcome,
         TerminateInstance, DeleteResult, DeleteInputs, RemoveRecord, UnlistInstance,
         StartSending, SendResult, SendFails, RemoveResult, EndTick, Crash, Dies,
         vars, hand
    <3>2. out \in Commands /\ Sent(out) /\ commands[out].on = cur
      BY <3>1 DEF HandOK, RecordsOK
    <3> QED
      BY <3>1, <3>2, CommandStep DEF Sent, Busy
  <2> QED
    BY <2>1, <2>2
<1> QED
  BY <1>1, <1>2, <1>3 DEF RecordsOK, UnknownOK, CommandOfOK, Sent

\* One step gives no job a second machine.
LEMMA OneMachineStep ==
  ASSUME TypeInv, LaunchOK, JobInHandOK, RecordsOK, OneMachinePerJob, [Next]_vars
  PROVE  OneMachinePerJob'
<1> USE DEF TypeInv, OneMachinePerJob
<1>1. CASE SaveInstance
  <2>1. Listed \subseteq Machines
    BY DEF TypeOK, Listed, Recorded
  <2> QED
    BY <1>1, <2>1, SavedListed
<1>2. CASE ListInstance
  BY <1>2, ListedOne DEF LaunchOK, ListInstance
<1>3. CASE SaveRunning
  <2>1. \A m \in Listed : m \in Machines
    BY DEF TypeOK, Listed, Recorded
  <2>2. \A m \in Listed : info'[m].job = info[m].job
    BY <1>3, <2>1, RunningListed
  <2> QED
    BY <1>3, <2>2, RunningListed
<1>4. CASE RemoveRecord
  <2>1. \A m \in Listed : m \in Machines
    BY DEF TypeOK, Listed, Recorded
  <2> QED
    BY <1>4, <2>1, RemovedListed
<1>5. CASE UnlistInstance
  BY <1>5, UnlistedListed DEF UnlistInstance
<1>6. CASE ~Records
  BY <1>6, RecordsKept
<1> QED
  BY <1>1, <1>2, <1>3, <1>4, <1>5, <1>6 DEF Records

LEMMA MachineInvariant == Spec => []MachineInv
<1>1. Init => MachineInv
  BY InitType DEF Init, MachineInv, LaunchOK, JobInHandOK, RecordsOK, Closing,
     OneMachinePerJob, Listed, Recorded, Sent
<1>2. MachineInv /\ [Next]_vars => MachineInv'
  BY NextType, LaunchStep, JobInHandStep, RecordsStep, OneMachineStep DEF MachineInv
<1> QED
  BY <1>1, <1>2, PTL DEF Spec

\* No job has two machines, for any number of jobs, machines and crashes.
THEOREM OneMachine == Spec => []OneMachinePerJob
<1>1. MachineInv => OneMachinePerJob
  BY DEF MachineInv
<1> QED
  BY <1>1, MachineInvariant, PTL

-----------------------------------------------------------------------------
(* Commands and their inputs *)

\* Records of listed machines keep their jobs, and are written only when the
\* machine is sent its command.
LEMMA ListedStep ==
  ASSUME TypeOK, HandOK, LaunchOK, [Next]_vars
  PROVE  \A m \in Listed' :
           \/ m \in Listed /\ info'[m] = info[m]
           \/ /\ m \in Listed /\ m = cur /\ SaveRunning
              /\ info'[m] = [job |-> info[m].job, st |-> "running", cmd |-> out]
           \/ m = cur /\ ListInstance
<1> SUFFICES ASSUME NEW m \in Listed'
             PROVE  \/ m \in Listed /\ info'[m] = info[m]
                    \/ /\ m \in Listed /\ m = cur /\ SaveRunning
                       /\ info'[m] = [job |-> info[m].job, st |-> "running", cmd |-> out]
                    \/ m = cur /\ ListInstance
  OBVIOUS
<1>1. CASE SaveInstance
  BY <1>1, SavedListed DEF Listed, Recorded, TypeOK
<1>2. CASE ListInstance
  BY <1>2, ListedOne
<1>3. CASE SaveRunning
  BY <1>3, RunningListed DEF Listed, Recorded, TypeOK
<1>4. CASE RemoveRecord
  BY <1>4, RemovedListed DEF Listed, Recorded, TypeOK
<1>5. CASE UnlistInstance
  BY <1>5, UnlistedListed DEF UnlistInstance
<1>6. CASE ~Records
  BY <1>6, RecordsKept
<1> QED
  BY <1>1, <1>2, <1>3, <1>4, <1>5, <1>6 DEF Records

\* A command on a listed machine runs for the job of that machine.
ForJobOK(c) ==
  Sent(c) /\ commands[c].on \in Listed =>
    info[commands[c].on].job = JobIdOf[commands[c].req]

LEMMA ForJobStep ==
  ASSUME CommandInv, [Next]_vars, NEW c \in Commands
  PROVE  ForJobOK(c)'
<1> USE DEF CommandInv, MachineInv, TypeInv
<1> SUFFICES ASSUME commands'[c] # None, commands'[c].on \in Listed'
             PROVE  info'[commands'[c].on].job = JobIdOf[commands'[c].req]
  BY DEF ForJobOK, Sent
<1>1. CASE SendCommand(c)
  <2>1. ~Records
    BY <1>1 DEF SendCommand, Records, SaveInstance, ListInstance, SaveRunning,
       RemoveRecord, UnlistInstance
  <2> QED
    BY <1>1, <2>1, SentOne, RecordsKept DEF SendCommand, JobInHandOK
<1>2. CASE ~SendCommand(c)
  <2>1. /\ Sent(c) /\ commands'[c].on = commands[c].on
        /\ commands'[c].req = commands[c].req
    BY <1>2, CommandStep DEF Sent, Busy
  <2>2. commands[c].on # cur \/ ~ListInstance
    BY <2>1 DEF LaunchOK, ListInstance
  <2> DEFINE m == commands[c].on
  <2>3. m \in Listed'
    BY <2>1
  <2>4. \/ m \in Listed /\ info'[m] = info[m]
        \/ m \in Listed /\ info'[m] = [job |-> info[m].job, st |-> "running", cmd |-> out]
    BY <2>2, <2>3, ListedStep
  <2>5. m \in Listed /\ info'[m].job = info[m].job
    BY <2>4
  <2> QED
    BY <2>1, <2>5 DEF CommandsOK
<1> QED
  BY <1>1, <1>2

\* A stored job is closed only by the machine that has it.
LEMMA JobsStep ==
  ASSUME TypeInv, [Next]_vars, NEW j \in JobIds, jobs[j] # None
  PROVE  jobs'[j] = jobs[j] \/ (StoreOutcome /\ JobIdOf[req] = j)
<1>1. CASE StoreOutcome
  BY <1>1 DEF StoreOutcome, TypeInv, TypeOK
<1>2. CASE AcceptJob
  BY <1>2 DEF AcceptJob, TypeInv, TypeOK
<1>3. CASE \E m \in Machines : CollectSuccess(m) \/ CollectFailure(m)
  BY <1>3, CollectedBy DEF TypeInv, storage
<1>4. ASSUME ~StoreOutcome, ~AcceptJob,
             ~\E m \in Machines : CollectSuccess(m) \/ CollectFailure(m)
      PROVE  UNCHANGED jobs
  BY <1>4 DEF Next, Dispatcher, GetMessage, Submit, Boots, MachineFails, CommandEnds,
     Restart, GetNothing, SkipJob, Ack, AssignNothing, CreateInstance,
     CreateInstanceFails, SaveInstance, ListInstance, SkipNotReady, UploadInputs,
     SendCommand, SendCommandFails, SaveRunning, StartCompleting, StillBusy,
     TerminateInstance, DeleteResult, DeleteInputs, RemoveRecord, UnlistInstance,
     StartSending, SendResult, SendFails, RemoveResult, EndTick, Crash, Dies,
     vars, storage
<1> QED
  BY <1>1, <1>2, <1>3, <1>4

\* The inputs of the job in hand are there before its command is sent, and stay
\* until it is recorded.
LEMMA UploadedStep ==
  ASSUME CommandInv, [Next]_vars, pc' \in {"command", "running"}
  PROVE  inputs'[JobIdOf[req']] = req'
<1> USE DEF CommandInv, MachineInv, TypeInv
<1>1. ASSUME NEW m \in Machines, UploadInputs(m), ~Dies PROVE inputs'[JobIdOf[req']] = req'
  <2> DEFINE r == jobs[info[m].job]
  <2>1. m \in Listed /\ r # None /\ req' = r /\ inputs' = [inputs EXCEPT ![JobIdOf[r]] = r]
    BY <1>1 DEF UploadInputs, Uploads, HandOK, Fresh
  <2> QED
    BY <2>1, JobOfListed, RequestsAssumption DEF TypeOK
<1>2. ASSUME ~\E m \in Machines : UploadInputs(m)
      PROVE  pc \in {"command", "running"} /\ UNCHANGED <<req, inputs>>
  BY <1>2 DEF Next, Dispatcher, GetMessage, Submit, Boots, MachineFails, CommandEnds,
     Restart, GetNothing, SkipJob, AcceptJob, Ack, AssignNothing, StartExecuting,
     CreateInstance, CreateInstanceFails, SaveInstance, ListInstance, SkipNotReady,
     SendCommand, SendCommandFails, SaveRunning, StartCompleting, StillBusy,
     CollectSuccess, CollectFailure, Collects, StoreOutcome, TerminateInstance,
     DeleteResult, DeleteInputs, RemoveRecord, UnlistInstance, StartSending,
     SendResult, SendFails, RemoveResult, EndTick, Crash, Dies, vars, aws, hand
<1>3. CASE Dies
  BY <1>3 DEF Dies
<1> QED
  BY <1>1, <1>2, <1>3 DEF CommandsOK

\* The command that is about to be recorded runs for the job in hand.
LEMMA SentForStep ==
  ASSUME CommandInv, [Next]_vars, pc' = "running"
  PROVE  commands'[out'].req = req'
<1> USE DEF CommandInv, MachineInv, TypeInv
<1>1. ASSUME NEW c \in Commands, SendCommand(c) PROVE commands'[out'].req = req'
  BY <1>1, SentOne DEF SendCommand
<1>2. CASE ~\E c \in Commands : SendCommand(c)
  <2>1. pc = "running" /\ UNCHANGED <<req, out>>
    BY <1>2 DEF Next, Dispatcher, GetMessage, Submit, Boots, MachineFails, CommandEnds,
       Restart, GetNothing, SkipJob, AcceptJob, Ack, AssignNothing, StartExecuting,
       CreateInstance, CreateInstanceFails, SaveInstance, ListInstance,
       SkipNotReady, UploadInputs, SendCommandFails, SaveRunning, StartCompleting,
       StillBusy, CollectSuccess, CollectFailure, Collects, StoreOutcome,
       TerminateInstance, DeleteResult, DeleteInputs, RemoveRecord, UnlistInstance,
       StartSending, SendResult, SendFails, RemoveResult, EndTick, Crash, Dies,
       vars, hand
  <2>2. out \in Commands /\ Sent(out)
    BY <2>1 DEF HandOK, RecordsOK
  <2> QED
    BY <2>1, <2>2, CommandsKept DEF CommandsOK
<1> QED
  BY <1>1, <1>2

\* The recorded command of the machine in hand has ended when its outcome is
\* about to be stored, and does not run again.
LEMMA EndedStep ==
  ASSUME CommandInv, [Next]_vars, pc' \in {"store"} \cup Closing
  PROVE  HandEnded'
<1> USE DEF CommandInv, MachineInv, TypeInv
<1>1. ASSUME NEW m \in Machines, CollectSuccess(m) \/ CollectFailure(m)
      PROVE  HandEnded'
  <2>1. cur' = m /\ commands[info[m].cmd].st # "busy" /\ UNCHANGED <<info, commands>>
    BY <1>1 DEF CollectSuccess, CollectFailure, Collects, Dies, Status, Closing, aws, records
  <2> QED
    BY <2>1 DEF HandEnded, Runs, Busy
<1>2. CASE ~\E m \in Machines : CollectSuccess(m) \/ CollectFailure(m)
  <2>1. pc \in {"store"} \cup Closing /\ UNCHANGED <<cur, info>>
    BY <1>2 DEF Next, Dispatcher, GetMessage, Submit, Boots, MachineFails, CommandEnds,
       Restart, GetNothing, SkipJob, AcceptJob, Ack, AssignNothing, StartExecuting,
       CreateInstance, CreateInstanceFails, SaveInstance, ListInstance,
       SkipNotReady, UploadInputs, SendCommand, SendCommandFails, SaveRunning,
       StartCompleting, StillBusy, StoreOutcome, TerminateInstance, DeleteResult,
       DeleteInputs, RemoveRecord, UnlistInstance, StartSending, SendResult,
       SendFails, RemoveResult, EndTick, Crash, Dies, vars, hand, records, Closing
  <2>2. info[cur].cmd \in Commands /\ ~Busy(info[cur].cmd)
    BY <2>1, JobOfListed DEF HandOK, Working, Info, CommandsOK, HandEnded, Runs
  <2>3. \A c \in Commands : Busy(c)' => Busy(c)
    <3>1. pc' # "running"
      BY DEF Closing
    <3> QED
      BY <3>1, CommandsKept
  <2> QED
    BY <2>1, <2>2, <2>3 DEF HandEnded, Runs, Busy
<1> QED
  BY <1>1, <1>2

\* The inputs of a listed machine's job, once its command is recorded, are
\* touched by no machine but itself, and by itself not before the command has
\* ended.
LEMMA InputsKept ==
  ASSUME CommandInv, [Next]_vars, NEW m \in Listed,
         info[m].st = "running", Busy(info[m].cmd)
  PROVE  inputs'[info[m].job] = inputs[info[m].job]
<1> USE DEF CommandInv, MachineInv, TypeInv
<1>1. info[m].job \in JobIds
  BY JobOfListed
<1>2. ASSUME NEW n \in Machines, UploadInputs(n), ~Dies
      PROVE  inputs'[info[m].job] = inputs[info[m].job]
  <2> DEFINE q == jobs[info[n].job]
  <2>1. n \in Listed /\ info[n].st = "init"
    BY <1>2 DEF UploadInputs, HandOK, Fresh
  <2>2. q # None /\ inputs' = [inputs EXCEPT ![JobIdOf[q]] = q]
    BY <1>2 DEF UploadInputs, Uploads
  <2>3. JobIdOf[q] = info[n].job
    BY <2>1, <2>2, JobOfListed DEF KeysOK, Stored
  <2>4. info[n].job # info[m].job
    BY <2>1 DEF OneMachinePerJob
  <2> QED
    BY <1>1, <2>2, <2>3, <2>4 DEF TypeOK
<1>3. CASE DeleteInputs
  <2>1. cur \in Listed /\ info[cur].job = JobIdOf[req] /\ m # cur
    BY <1>3 DEF DeleteInputs, HandOK, Closing, Working, JobInHandOK, CommandsOK, HandEnded, Runs
  <2>2. JobIdOf[req] # info[m].job
    BY <2>1 DEF OneMachinePerJob
  <2> QED
    BY <1>1, <1>3, <2>2 DEF DeleteInputs, DeletesInputs, TypeOK
<1>4. CASE Dies
  BY <1>4 DEF Dies, aws
<1>5. CASE \E n \in Machines : CollectSuccess(n) \/ CollectFailure(n)
  BY <1>5, CollectedBy DEF aws
<1>6. ASSUME ~\E n \in Machines : UploadInputs(n), ~DeleteInputs, ~Dies,
             ~\E n \in Machines : CollectSuccess(n) \/ CollectFailure(n)
      PROVE  UNCHANGED inputs
  BY <1>6 DEF Next, Dispatcher, GetMessage, Submit, Boots, MachineFails,
     CommandEnds, Restart, GetNothing, SkipJob, AcceptJob, Ack, AssignNothing,
     CreateInstance, CreateInstanceFails, SaveInstance, ListInstance,
     SkipNotReady, SendCommand, SendCommandFails, SaveRunning, StartCompleting,
     StillBusy, StoreOutcome, TerminateInstance, DeleteResult, RemoveRecord,
     UnlistInstance, StartSending, SendResult, SendFails, RemoveResult, EndTick,
     Crash, vars, aws
<1> QED
  BY <1>2, <1>3, <1>4, <1>5, <1>6

\* One step keeps the inputs of the commands that are waited for.
LEMMA InputsStep ==
  ASSUME CommandInv, [Next]_vars, NEW m \in Listed',
         info'[m].st = "running", Runs(m)'
  PROVE  inputs'[info'[m].job] = commands'[info'[m].cmd].req
<1> USE DEF CommandInv, MachineInv, TypeInv
<1>1. CASE m \in Listed /\ info'[m] = info[m]
  <2> DEFINE c == info[m].cmd
  <2>1. Sent(c) /\ c \in Commands
    BY <1>1, JobOfListed DEF RecordsOK, Info, Listed, Recorded
  <2>2. Busy(c) /\ commands'[c] = commands[c]
    BY <1>1, <2>1, CommandStep DEF Runs, Busy
  <2>3. inputs[info[m].job] = commands[c].req
    BY <1>1, <2>2 DEF CommandsOK, InputsStay
  <2> QED
    BY <1>1, <2>2, <2>3, InputsKept
<1>2. CASE /\ m \in Listed /\ m = cur /\ SaveRunning
           /\ info'[m] = [job |-> info[m].job, st |-> "running", cmd |-> out]
  <2>1. info[m].job = JobIdOf[req] /\ inputs[JobIdOf[req]] = req /\ commands[out].req = req
    BY <1>2 DEF SaveRunning, JobInHandOK, CommandsOK
  <2> QED
    BY <1>2, <2>1 DEF SaveRunning, aws
<1>3. CASE m = cur /\ ListInstance
  BY <1>3, ListedOne
<1> QED
  BY <1>1, <1>2, <1>3, ListedStep

LEMMA CommandInvariant == Spec => []CommandInv
<1>1. Init => CommandsOK
  BY DEF Init, CommandsOK, InputsStay, Sent, Listed, Recorded, Closing
<1>2. CommandInv /\ [Next]_vars => CommandsOK'
  <2> SUFFICES ASSUME CommandInv, [Next]_vars PROVE CommandsOK'
    OBVIOUS
  <2>1. \A c \in Commands : ForJobOK(c)'
    BY ForJobStep
  <2>2. pc' \in {"command", "running"} => inputs'[JobIdOf[req']] = req'
    BY UploadedStep
  <2>3. pc' = "running" => commands'[out'].req = req'
    BY SentForStep
  <2>4. pc' \in {"store"} \cup Closing => HandEnded'
    BY EndedStep
  <2>5. InputsStay'
    BY InputsStep DEF InputsStay, Runs
  <2> QED
    BY <2>1, <2>2, <2>3, <2>4, <2>5 DEF CommandsOK, ForJobOK
<1> QED
  BY <1>1, <1>2, MachineInvariant, PTL DEF Spec, CommandInv

\* The command a listed machine is waited for never runs without its inputs or
\* next to those of another request, for any number of jobs, machines and
\* crashes and whatever ids the clients choose.
THEOREM InputsAreThere == Spec => []InputsStay
<1>1. CommandInv => InputsStay
  BY DEF CommandInv, CommandsOK
<1> QED
  BY <1>1, CommandInvariant, PTL

-----------------------------------------------------------------------------
(* Machines that run *)

\* A machine runs only after it was launched for the job then in hand.
LEMMA LiveStep ==
  ASSUME MachineInv, [Next]_vars, NEW m \in Live'
  PROVE  m \in Live \/ (m = cur' /\ pc = "assign" /\ pc' = "save")
<1> USE DEF MachineInv, TypeInv
<1>1. m \in Machines /\ machines'[m] \in {"booting", "ready"}
  BY DEF Live
<1>2. machines[m] # "ending"
  BY <1>1, MachinesStep
<1>3. ASSUME machines[m] = "unused" PROVE m = cur' /\ pc = "assign" /\ pc' = "save"
  <2>1. ASSUME NEW n \in Machines, ShutsDown(n) PROVE FALSE
    BY <1>1, <1>3, <2>1 DEF ShutsDown, TypeOK
  <2>2. ASSUME NEW n \in Machines, Boots(n) PROVE FALSE
    BY <1>1, <1>3, <2>2 DEF Boots, TypeOK
  <2>3. ASSUME NEW j \in JobIds, NEW n \in Machines, CreateInstance(j, n)
        PROVE  m = cur' /\ pc = "assign" /\ pc' = "save"
    BY <1>1, <1>3, <2>3 DEF CreateInstance, Launches, TypeOK
  <2>4. ASSUME ~\E n \in Machines : ShutsDown(n) \/ Boots(n),
               ~\E j \in JobIds, n \in Machines : CreateInstance(j, n)
        PROVE  UNCHANGED machines
    <3>1. CASE \E n \in Machines : CollectSuccess(n) \/ CollectFailure(n)
      BY <3>1, CollectedBy DEF aws
    <3>2. CASE ~\E n \in Machines : CollectSuccess(n) \/ CollectFailure(n)
      BY <2>4, <3>2 DEF Next, Dispatcher, GetMessage, Submit, MachineFails,
         CommandEnds, Restart, GetNothing, SkipJob, AcceptJob, Ack, AssignNothing,
         CreateInstanceFails, SaveInstance, ListInstance, SkipNotReady,
         UploadInputs, SendCommand, SendCommandFails, SaveRunning,
         StartCompleting, StillBusy, StoreOutcome, TerminateInstance, Terminates,
         DeleteResult, DeleteInputs, RemoveRecord, UnlistInstance, StartSending,
         SendResult, SendFails, RemoveResult, EndTick, Crash, Dies, vars, aws,
         HandOK, TypeOK, Closing, Working, Listed, Recorded
    <3> QED
      BY <3>1, <3>2
  <2> QED
    BY <1>1, <1>3, <2>1, <2>2, <2>3, <2>4
<1> QED
  BY <1>1, <1>2, <1>3 DEF Live, TypeOK

\* A step that is no crash leaves no machine behind; a crash leaves at most the
\* one that is being launched.
LEMMA UntrackedStep ==
  ASSUME MachineInv, [Next]_vars
  PROVE  Untracked' \subseteq Untracked \cup (IF Crash THEN {cur} ELSE {})
<1> USE DEF MachineInv, TypeInv
<1> SUFFICES ASSUME NEW m \in Untracked', m = cur => ~Crash
             PROVE  m \in Untracked
  OBVIOUS
<1>1. m \in Live' /\ m \notin Listed' /\ m # cur' /\ m \in Machines
  BY DEF Untracked, Live
<1>2. m \in Live
  BY <1>1, LiveStep
<1>3. m \notin Listed
  <2>1. CASE RemoveRecord
    BY <1>1, <2>1, RemovedListed DEF RemoveRecord, hand
  <2>2. CASE ~RemoveRecord
    BY <1>1, <2>2, SavedListed, ListedOne, RunningListed, UnlistedListed, RecordsKept
    DEF Records
  <2> QED
    BY <2>1, <2>2
<1>4. ASSUME m = cur PROVE FALSE
  <2>1. cur # None
    BY <1>1, <1>4, NoneAssumption
  <2>2. pc \in {"save", "list"}
    BY <1>2, <1>3, <1>4, <2>1 DEF HandOK, TypeOK, Closing, Fresh, Working, Live, JobInHandOK
  <2>3. CASE ListInstance
    BY <1>1, <1>4, <2>3, ListedOne
  <2>4. CASE ~ListInstance
    <3>1. cur' = cur
      BY <1>4, <2>2, <2>4 DEF Next, Dispatcher, GetMessage, Submit, Boots, MachineFails,
         CommandEnds, Restart, GetNothing, SkipJob, AcceptJob, Ack, AssignNothing,
         CreateInstance, CreateInstanceFails, SaveInstance, SkipNotReady,
         UploadInputs, SendCommand, SendCommandFails, SaveRunning, StartCompleting,
         StillBusy, CollectSuccess, CollectFailure, StoreOutcome, TerminateInstance,
         DeleteResult, DeleteInputs, RemoveRecord, UnlistInstance, StartSending,
         SendResult, SendFails, RemoveResult, EndTick, vars, hand
    <3> QED
      BY <1>1, <1>4, <3>1
  <2> QED
    BY <2>3, <2>4
<1> QED
  BY <1>2, <1>3, <1>4 DEF Untracked

\* Crashes are counted.
LEMMA CrashesStep ==
  ASSUME [Next]_vars, crashes \in Nat
  PROVE  (Crash /\ crashes' = crashes + 1) \/ (~Crash /\ crashes' = crashes)
<1>1. CASE Crash
  BY <1>1 DEF Crash
<1>2. CASE ~Crash
  BY <1>2 DEF Next, Dispatcher, GetMessage, Submit, Boots, MachineFails, CommandEnds,
     Restart, GetNothing, SkipJob, AcceptJob, Ack, AssignNothing, CreateInstance,
     CreateInstanceFails, SaveInstance, ListInstance, SkipNotReady, UploadInputs,
     SendCommand, SendCommandFails, SaveRunning, StartCompleting, StillBusy,
     CollectSuccess, CollectFailure, StoreOutcome, TerminateInstance, DeleteResult,
     DeleteInputs, RemoveRecord, UnlistInstance, StartSending, SendResult,
     SendFails, RemoveResult, EndTick, vars
<1> QED
  BY <1>1, <1>2

LEMMA TrackedStep ==
  ASSUME MachineInv, TrackedOK, [Next]_vars
  PROVE  TrackedOK'
<1> USE DEF TrackedOK
<1>1. IsFiniteSet(Untracked) /\ Cardinality(Untracked) \in Nat
      /\ Cardinality(Untracked) <= crashes /\ crashes \in Nat
  BY FS_CardinalityType DEF MachinesAreTracked, Untracked, MachineInv, TypeInv, TypeOK
<1>2. CASE Crash
  <2>1. Untracked' \subseteq Untracked \cup {cur} /\ crashes' = crashes + 1
    BY <1>1, <1>2, UntrackedStep DEF Crash
  <2>2. /\ IsFiniteSet(Untracked \cup {cur})
        /\ Cardinality(Untracked \cup {cur}) <= Cardinality(Untracked) + 1
        /\ Cardinality(Untracked \cup {cur}) \in Nat
    <3>1. /\ IsFiniteSet(Untracked \cup {cur})
          /\ \/ Cardinality(Untracked \cup {cur}) = Cardinality(Untracked)
             \/ Cardinality(Untracked \cup {cur}) = Cardinality(Untracked) + 1
      BY <1>1, FS_AddElement
    <3> QED
      BY <1>1, <3>1
  <2>3. /\ IsFiniteSet(Untracked')
        /\ Cardinality(Untracked') <= Cardinality(Untracked \cup {cur})
        /\ Cardinality(Untracked') \in Nat
    BY <2>1, <2>2, FS_Subset, FS_CardinalityType
  <2>4. Cardinality(Untracked') <= crashes'
    BY <1>1, <2>1, <2>2, <2>3
  <2> QED
    BY <2>3, <2>4 DEF MachinesAreTracked, Untracked
<1>3. CASE ~Crash
  <2>1. Untracked' \subseteq Untracked /\ crashes' = crashes
    BY <1>1, <1>3, UntrackedStep, CrashesStep
  <2>2. /\ IsFiniteSet(Untracked')
        /\ Cardinality(Untracked') <= Cardinality(Untracked)
        /\ Cardinality(Untracked') \in Nat
    BY <1>1, <2>1, FS_Subset, FS_CardinalityType
  <2>3. Cardinality(Untracked') <= crashes'
    BY <1>1, <2>1, <2>2
  <2> QED
    BY <2>2, <2>3 DEF MachinesAreTracked, Untracked
<1> QED
  BY <1>2, <1>3

\* At most one machine for each time the dispatcher was lost runs unknown to it,
\* for any number of jobs and machines.
THEOREM Tracked == Spec => []MachinesAreTracked
<1>1. Init => TrackedOK
  <2> SUFFICES ASSUME Init PROVE TrackedOK
    OBVIOUS
  <2>1. Untracked = {}
    BY DEF Init, Untracked, Live
  <2>2. IsFiniteSet(Untracked) /\ Cardinality(Untracked) = 0
    BY <2>1, FS_EmptySet
  <2>3. Cardinality(Untracked) <= crashes
    BY <2>2 DEF Init
  <2> QED
    BY <2>2, <2>3 DEF TrackedOK, MachinesAreTracked, Untracked
<1>2. MachineInv /\ TrackedOK /\ [Next]_vars => TrackedOK'
  BY TrackedStep
<1>3. TrackedOK => MachinesAreTracked
  BY DEF TrackedOK
<1> QED
  BY <1>1, <1>2, <1>3, MachineInvariant, PTL DEF Spec

-----------------------------------------------------------------------------
(* As long as the dispatcher is not lost *)

\* A machine that is being removed is, until its record is gone.
LEMMA LeavesStep ==
  ASSUME MachineInv, [Next]_vars, ~Crash, NEW m \in Listed', Leaves(m)
  PROVE  m = cur' /\ pc' \in Closing
<1> USE DEF MachineInv, TypeInv, Leaves, Closing
<1>1. CASE RemoveRecord
  BY <1>1, RemovedListed
<1>2. CASE ~RemoveRecord
  BY <1>2 DEF Next, Dispatcher, GetMessage, Submit, Boots, MachineFails, CommandEnds,
     Restart, GetNothing, SkipJob, AcceptJob, Ack, AssignNothing,
     StartExecuting, CreateInstance, CreateInstanceFails, SaveInstance,
     ListInstance, SkipNotReady, UploadInputs, SendCommand, SendCommandFails,
     SaveRunning, StartCompleting, StillBusy, CollectSuccess, CollectFailure,
     Collects, StoreOutcome, TerminateInstance, DeleteResult, DeleteInputs,
     UnlistInstance, StartSending, SendResult, SendFails, RemoveResult,
     EndTick, Dies, vars, hand
<1> QED
  BY <1>1, <1>2

\* The job of a listed machine is closed by no other machine.
LEMMA KeepsJob ==
  ASSUME MachineInv, [Next]_vars, NEW m \in Listed, jobs[info[m].job] # None
  PROVE  \/ jobs'[info[m].job] = jobs[info[m].job]
         \/ m = cur' /\ pc' \in Closing
<1> USE DEF MachineInv, TypeInv
<1>1. info[m].job \in JobIds
  BY JobOfListed
<1>2. ASSUME StoreOutcome, JobIdOf[req] = info[m].job
      PROVE  m = cur' /\ pc' \in Closing
  <2>1. cur \in Listed /\ info[cur].job = JobIdOf[req]
    BY <1>2 DEF StoreOutcome, HandOK, Working, JobInHandOK
  <2>2. m = cur
    BY <1>2, <2>1 DEF OneMachinePerJob
  <2> QED
    BY <1>2, <2>2 DEF StoreOutcome, hand, Closing
<1> QED
  BY <1>1, <1>2, JobsStep

LEMMA HaveJobsStep ==
  ASSUME MachineInv, HaveJobsOK, [Next]_vars
  PROVE  HaveJobsOK'
<1> USE DEF MachineInv, TypeInv
<1> SUFFICES ASSUME crashes' = 0, NEW m \in Listed'
             PROVE  \/ m = cur' /\ pc' \in Closing
                    \/ jobs'[info'[m].job] # None
  BY DEF HaveJobsOK, Leaves
<1>1. ~Crash /\ crashes = 0
  BY CrashesStep DEF TypeOK
<1>2. CASE m = cur /\ ListInstance
  <2>1. jobs[JobIdOf[req]] = req /\ req # None
    BY <1>2, NoneAssumption DEF ListInstance, JobInHandOK, HandOK
  <2> QED
    BY <1>2, <2>1, ListedOne DEF ListInstance, storage
<1>3. CASE ~(m = cur /\ ListInstance)
  <2>1. \/ m \in Listed /\ info'[m] = info[m]
        \/ m \in Listed /\ info'[m] = [job |-> info[m].job, st |-> "running", cmd |-> out]
    BY <1>3, ListedStep
  <2>2. m \in Listed /\ info'[m].job = info[m].job
    BY <2>1
  <2>3. Leaves(m) \/ jobs[info[m].job] # None
    BY <1>1, <2>2 DEF HaveJobsOK
  <2> QED
    BY <1>1, <2>2, <2>3, LeavesStep, KeepsJob
<1> QED
  BY <1>2, <1>3

\* Without crashes every listed machine has its job, unless it is being removed,
\* for any number of jobs and machines, although jobs may end the dispatcher.
THEOREM HaveJobs == Spec => []MachinesHaveJobs
<1>1. Init => HaveJobsOK
  BY DEF Init, HaveJobsOK, Listed, Recorded
<1>2. MachineInv /\ HaveJobsOK /\ [Next]_vars => HaveJobsOK'
  BY HaveJobsStep
<1>3. HaveJobsOK => MachinesHaveJobs
  BY DEF HaveJobsOK, MachinesHaveJobs, Leaves
<1> QED
  BY <1>1, <1>2, <1>3, MachineInvariant, PTL DEF Spec

-----------------------------------------------------------------------------
(* Answers come from the requests they answer *)

\* No key in S3 is used for two job ids: keys start with the id.
ObjectsOfIds ==
  \A q, r \in JobRequests : ObjectOf[q] = ObjectOf[r] => JobIdOf[q] = JobIdOf[r]

OwnInv == CommandInv /\ OwnOK

\* The record of the machine that a command runs on names the command.
LEMMA RecordOfOwn ==
  ASSUME OwnInv, [Next]_vars, crashes = 0, ~Crash, NEW c \in Commands,
         commands'[c] # None, commands'[c].on \in Listed'
  PROVE  LET m == commands'[c].on
         IN \/ info'[m].st = "running" /\ info'[m].cmd = c
            \/ pc' = "running" /\ cur' = m /\ out' = c
<1> USE DEF OwnInv, CommandInv, MachineInv, TypeInv
<1>1. CASE SendCommand(c)
  BY <1>1, SentOne DEF SendCommand
<1>2. CASE ~SendCommand(c)
  <2> DEFINE m == commands[c].on
  <2>1. Sent(c) /\ commands'[c].on = m
    BY <1>2, CommandStep DEF Sent, Busy
  <2>2. ~(m = cur /\ ListInstance)
    BY <2>1 DEF LaunchOK, ListInstance
  <2>3. m \in Listed'
    BY <2>1
  <2>4. \/ m \in Listed /\ info'[m] = info[m]
        \/ /\ m \in Listed /\ m = cur /\ SaveRunning
           /\ info'[m] = [job |-> info[m].job, st |-> "running", cmd |-> out]
    BY <2>2, <2>3, ListedStep
  <2>5. \/ info[m].st = "running" /\ info[m].cmd = c
        \/ pc = "running" /\ cur = m /\ out = c
    BY <2>1, <2>4 DEF OwnOK, OwnCommandOK
  <2>6. CASE SaveRunning /\ m = cur
    <3>1. info'[m] = [job |-> info[m].job, st |-> "running", cmd |-> out]
      BY <2>6, RunningListed
    <3>2. info[m].st = "init"
      BY <2>6 DEF SaveRunning, HandOK, Fresh
    <3> QED
      BY <2>1, <2>5, <3>1, <3>2
  <2>7. CASE ~(SaveRunning /\ m = cur)
    <3>1. info'[m] = info[m]
      BY <2>4, <2>7
    <3>2. ASSUME pc = "running", cur = m, out = c
          PROVE  pc' = "running" /\ cur' = m /\ out' = c
      BY <2>7, <3>2 DEF Next, Dispatcher, GetMessage, Submit, Boots, MachineFails,
         CommandEnds, Restart, GetNothing, SkipJob, AcceptJob, Ack,
         AssignNothing, StartExecuting, CreateInstance, CreateInstanceFails,
         SaveInstance, ListInstance, SkipNotReady, UploadInputs, SendCommand,
         SendCommandFails, SaveRunning, StartCompleting, StillBusy,
         CollectSuccess, CollectFailure, Collects, StoreOutcome,
         TerminateInstance, DeleteResult, DeleteInputs, RemoveRecord,
         UnlistInstance, StartSending, SendResult, SendFails, RemoveResult,
         EndTick, Dies, vars, hand
    <3> QED
      BY <2>1, <2>5, <3>1, <3>2
  <2> QED
    BY <2>6, <2>7
<1> QED
  BY <1>1, <1>2

\* The request that a command runs for is stored.
LEMMA RequestOfOwn ==
  ASSUME OwnInv, [Next]_vars, crashes = 0, ~Crash, NEW c \in Commands,
         commands'[c] # None, commands'[c].on \in Listed'
  PROVE  LET r == commands'[c].req
         IN \/ commands'[c].on = cur' /\ pc' \in Closing
            \/ jobs'[JobIdOf[r]] = r
<1> USE DEF OwnInv, CommandInv, MachineInv, TypeInv
<1>1. CASE SendCommand(c)
  BY <1>1, SentOne DEF SendCommand, JobInHandOK, storage
<1>2. CASE ~SendCommand(c)
  <2> DEFINE m == commands[c].on
             r == commands[c].req
  <2>1. Sent(c) /\ commands'[c].on = m /\ commands'[c].req = r
    BY <1>2, CommandStep DEF Sent, Busy
  <2>2. ~(m = cur /\ ListInstance)
    BY <2>1 DEF LaunchOK, ListInstance
  <2>3. m \in Listed' /\ m \in Listed
    BY <2>1, <2>2, ListedStep
  <2>4. r \in JobRequests /\ r # None /\ info[m].job = JobIdOf[r]
    BY <2>1, <2>3, NoneAssumption DEF CommandsOK, Sent, TypeOK, Command
  <2>5. Leaves(m) \/ jobs[JobIdOf[r]] = r
    BY <2>1, <2>3 DEF OwnOK, OwnCommandOK
  <2>6. (m = cur' /\ pc' \in Closing) \/ jobs'[JobIdOf[r]] = r
    BY <2>3, <2>4, <2>5, LeavesStep, KeepsJob
  <2> QED
    BY <2>1, <2>6
<1> QED
  BY <1>1, <1>2

\* The text of a command that has succeeded stays in S3 until it is deleted: no
\* other command uploads to its key.
LEMMA TextOfOwn ==
  ASSUME ObjectsOfIds, OwnInv, [Next]_vars, crashes = 0, ~Crash, NEW c \in Commands,
         commands'[c] # None, commands'[c].on \in Listed', commands'[c].st = "ok"
  PROVE  LET r == commands'[c].req
         IN \/ commands'[c].on = cur' /\ pc' \in Closing
            \/ outputs'[ObjectOf[r]] \in {r, Bad, None}
<1> USE DEF OwnInv, CommandInv, MachineInv, TypeInv
<1> DEFINE m == commands[c].on
           r == commands[c].req
<1>1. ~SendCommand(c)
  BY SentOne
<1>2. Sent(c) /\ commands'[c].on = m /\ commands'[c].req = r
  BY <1>1, CommandStep DEF Sent, Busy
<1>3. ~(m = cur /\ ListInstance)
  BY <1>2 DEF LaunchOK, ListInstance
<1>4. m \in Listed' /\ m \in Listed
  BY <1>2, <1>3, ListedStep
<1>5. /\ r \in JobRequests /\ ObjectOf[r] \in Objects /\ info[m].job = JobIdOf[r]
      /\ \/ info[m].st = "running" /\ info[m].cmd = c
         \/ pc = "running" /\ cur = m /\ out = c
  BY <1>2, <1>4, RequestsAssumption DEF CommandsOK, OwnOK, OwnCommandOK, Sent, TypeOK, Command
<1>6. ASSUME NEW d \in Commands, CommandEnds(d) PROVE outputs'[ObjectOf[r]] \in {r, Bad, None}
                                                   \/ Leaves(m)
  <2> DEFINE q == commands[d].req
  <2>1. q \in JobRequests /\ ObjectOf[q] \in Objects /\ Busy(d) /\ Sent(d) /\ commands[d].st = "busy"
    BY <1>6, RequestsAssumption DEF CommandEnds, Busy, Sent, TypeOK, Command
  <2>2. PICK st \in {"ok", "failed"}, text \in Texts(q) \cup {outputs[ObjectOf[q]]} :
          /\ st = "ok" => text \in Texts(q)
          /\ commands' = [commands EXCEPT ![d].st = st]
          /\ outputs' = [outputs EXCEPT ![ObjectOf[q]] = text]
    BY <1>6 DEF CommandEnds
  <2>3. CASE d = c
    <3>1. commands'[c] = [commands[c] EXCEPT !.st = st] /\ commands[c] \in Command
      BY <2>1, <2>2, <2>3 DEF TypeOK, Sent
    <3>2. st = "ok"
      BY <3>1 DEF Command
    <3>3. text \in {r, Bad, None}
      BY <2>2, <2>3, <3>2 DEF Texts
    <3> QED
      BY <2>1, <2>2, <2>3, <3>3 DEF TypeOK
  <2>4. CASE d # c
    <3>1. commands'[c] = commands[c]
      BY <2>2, <2>4 DEF TypeOK
    <3>2. Leaves(m) \/ outputs[ObjectOf[r]] \in {r, Bad, None}
      BY <1>2, <1>4, <3>1 DEF OwnOK, OwnCommandOK
    <3>3. ObjectOf[q] # ObjectOf[r]
      <4>1. SUFFICES ASSUME ObjectOf[q] = ObjectOf[r] PROVE FALSE
        OBVIOUS
      <4>2. JobIdOf[q] = JobIdOf[r]
        BY <1>5, <2>1, <4>1 DEF ObjectsOfIds
      <4>3. commands[d].on \in Listed /\ info[commands[d].on].job = JobIdOf[q]
        BY <2>1 DEF CommandsOK, OwnOK
      <4>4. commands[d].on = m
        BY <1>4, <1>5, <4>2, <4>3 DEF OneMachinePerJob
      <4>5. \/ info[m].st = "running" /\ info[m].cmd = d
            \/ pc = "running" /\ cur = m /\ out = d
        BY <2>1, <4>3, <4>4 DEF OwnOK, OwnCommandOK
      <4>6. pc = "running" /\ cur = m => info[m].st = "init"
        BY DEF HandOK, Fresh
      <4> QED
        BY <1>5, <2>4, <4>5, <4>6
    <3> QED
      BY <1>5, <2>1, <2>2, <3>2, <3>3 DEF TypeOK
  <2> QED
    BY <2>3, <2>4
<1>7. ASSUME ~\E d \in Commands : CommandEnds(d)
      PROVE  commands[c].st = "ok"
  <2>1. CASE \E d \in Commands : SendCommand(d)
    BY <1>1, <2>1, SentOne
  <2>2. CASE ~\E d \in Commands : SendCommand(d)
    BY <1>7, <2>2, CommandsSame
  <2> QED
    BY <2>1, <2>2
<1>8. ASSUME ~\E d \in Commands : CommandEnds(d)
      PROVE  outputs'[ObjectOf[r]] \in {outputs[ObjectOf[r]], None}
  <2>1. CASE \E n \in Machines : CollectSuccess(n) \/ CollectFailure(n)
    BY <2>1, CollectedBy DEF aws
  <2>2. CASE DeleteResult
    BY <1>5, <2>2 DEF DeleteResult, DeletesOutput, TypeOK
  <2>3. CASE ~DeleteResult /\ ~\E n \in Machines : CollectSuccess(n) \/ CollectFailure(n)
    BY <1>8, <2>3 DEF Next, Dispatcher, GetMessage, Submit, Boots, MachineFails, Restart,
       GetNothing, SkipJob, AcceptJob, Ack, AssignNothing, CreateInstance,
       CreateInstanceFails, SaveInstance, ListInstance, SkipNotReady,
       UploadInputs, SendCommand, SendCommandFails, SaveRunning,
       StartCompleting, StillBusy, StoreOutcome, TerminateInstance,
       DeleteInputs, RemoveRecord, UnlistInstance, StartSending, SendResult,
       SendFails, RemoveResult, EndTick, Crash, Dies, vars, aws
  <2> QED
    BY <2>1, <2>2, <2>3
<1>9. Leaves(m) \/ outputs'[ObjectOf[r]] \in {r, Bad, None}
  BY <1>2, <1>4, <1>6, <1>7, <1>8 DEF OwnOK, OwnCommandOK
<1>10. Leaves(m) => m = cur' /\ pc' \in Closing
  BY <1>2, <1>4, LeavesStep
<1> QED
  BY <1>2, <1>9, <1>10

\* What is collected for a request is its own output, or none.
LEMMA CollectedOwn ==
  ASSUME OwnInv, crashes = 0, NEW m \in Machines, CollectSuccess(m), ~Dies
  PROVE  out' \in {Bad, req'}
<1> USE DEF OwnInv, CommandInv, MachineInv, TypeInv
<1> DEFINE c == info[m].cmd
           r == jobs[info[m].job]
<1>1. /\ pc = "complete" /\ m \in Working /\ commands[c].st = "ok"
      /\ out' = Extracted(r) /\ req' = r /\ r # None
  BY DEF CollectSuccess, Collects, HandOK, Status
<1>2. m \in Listed /\ info[m] \in Info /\ info[m] # None /\ info[m].st = "running" /\ m \in Machines
  BY <1>1, JobOfListed DEF Working, Listed, Recorded
<1>3. Sent(c) /\ commands[c].on = m /\ c \in Commands
  BY <1>2 DEF RecordsOK, Info
<1>4. info[m].job = JobIdOf[commands[c].req]
  BY <1>2, <1>3 DEF CommandsOK
<1>5. OwnCommandOK(c) /\ ~Leaves(m)
  BY <1>1, <1>3 DEF OwnOK, Leaves, Closing
<1>6. r = commands[c].req /\ outputs[ObjectOf[r]] \in {r, Bad, None}
  BY <1>1, <1>2, <1>3, <1>4, <1>5 DEF OwnCommandOK
<1> QED
  BY <1>1, <1>6, NoneAssumption DEF Extracted, Download

\* The answers there are, and the one that is stored.
LEMMA AnswersStep ==
  ASSUME MachineInv, [Next]_vars
  PROVE  Answers' \subseteq Answers \cup
           (IF StoreOutcome THEN {[req |-> req, out |-> out]} ELSE {})
<1> USE DEF MachineInv, TypeInv
<1>1. CASE StoreOutcome
  BY <1>1 DEF StoreOutcome, Answers, Stored, TypeOK, broker
<1>2. ASSUME NEW j \in JobIds, SendResult(j) \/ SendFails(j) PROVE Answers' \subseteq Answers
  BY <1>2 DEF SendResult, SendFails, Answers, Stored, HandOK, storage
<1>3. CASE RemoveResult
  BY <1>3 DEF RemoveResult, Answers, Stored, TypeOK, broker
<1>4. CASE \E m \in Machines : CollectSuccess(m) \/ CollectFailure(m)
  BY <1>4, CollectedBy DEF broker, storage, Answers, Stored
<1>5. ASSUME ~StoreOutcome, ~\E j \in JobIds : SendResult(j) \/ SendFails(j), ~RemoveResult,
             ~\E m \in Machines : CollectSuccess(m) \/ CollectFailure(m)
      PROVE  UNCHANGED <<delivered, results>>
  BY <1>5 DEF Next, Dispatcher, GetMessage, Submit, Boots, MachineFails, CommandEnds,
     Restart, GetNothing, SkipJob, AcceptJob, Ack, AssignNothing,
     CreateInstance, CreateInstanceFails, SaveInstance, ListInstance,
     SkipNotReady, UploadInputs, SendCommand, SendCommandFails, SaveRunning,
     StartCompleting, StillBusy, TerminateInstance, DeleteResult, DeleteInputs,
     RemoveRecord, UnlistInstance, StartSending, EndTick, Crash, Dies, vars, broker, storage
<1> QED
  BY <1>1, <1>2, <1>3, <1>4, <1>5 DEF Answers, Stored

LEMMA OwnStep ==
  ASSUME ObjectsOfIds, OwnInv, [Next]_vars
  PROVE  OwnOK'
<1> USE DEF OwnInv, CommandInv, MachineInv, TypeInv
<1> SUFFICES ASSUME crashes' = 0 PROVE OwnOK'
  BY DEF OwnOK, AnswerIsItsOwn
<1>1. ~Crash /\ crashes = 0
  BY CrashesStep DEF TypeOK
<1>2. ASSUME NEW c \in Commands PROVE OwnCommandOK(c)'
  <2> SUFFICES ASSUME commands'[c] # None, commands'[c].on \in Listed'
               PROVE  OwnCommandOK(c)'
    BY DEF OwnCommandOK, Sent
  <2> QED
    BY <1>1, RecordOfOwn, RequestOfOwn, TextOfOwn DEF OwnCommandOK, Sent, Leaves
<1>5. ASSUME NEW c \in Commands, Busy(c)' PROVE commands'[c].on \in Listed'
  <2>1. CASE SendCommand(c)
    <3>1. ~Records
      BY <2>1 DEF SendCommand, Records, SaveInstance, ListInstance, SaveRunning,
         RemoveRecord, UnlistInstance
    <3> QED
      BY <2>1, <3>1, SentOne, RecordsKept DEF SendCommand, HandOK, Fresh
  <2>2. CASE ~SendCommand(c)
    <3>1. commands'[c] = commands[c] /\ Busy(c) /\ Sent(c) /\ commands[c].on \in Listed
      BY <1>1, <1>5, <2>2, CommandStep DEF Busy, Sent, OwnOK
    <3>2. ~(RemoveRecord /\ cur = commands[c].on)
      BY <1>1, <3>1 DEF RemoveRecord, OwnOK, OwnCommandOK, CommandsOK, HandEnded, Runs, Closing
    <3> QED
      BY <3>1, <3>2, SavedListed, ListedOne, RunningListed, RemovedListed,
         UnlistedListed, RecordsKept DEF Records
  <2> QED
    BY <2>1, <2>2
<1>3. pc' = "store" => out' \in {Bad, req'}
  <2> SUFFICES ASSUME pc' = "store" PROVE out' \in {Bad, req'}
    OBVIOUS
  <2>1. ASSUME NEW m \in Machines, CollectSuccess(m) PROVE out' \in {Bad, req'}
    BY <1>1, <2>1, CollectedOwn DEF Dies
  <2>2. ASSUME NEW m \in Machines, CollectFailure(m) PROVE out' \in {Bad, req'}
    BY <2>2 DEF CollectFailure, Collects, Dies
  <2>3. CASE ~\E m \in Machines : CollectSuccess(m) \/ CollectFailure(m)
    <3>1. pc = "store" /\ UNCHANGED <<out, req>>
      BY <2>3 DEF Next, Dispatcher, GetMessage, Submit, Boots, MachineFails,
         CommandEnds, Restart, GetNothing, SkipJob, AcceptJob, Ack,
         AssignNothing, StartExecuting, CreateInstance, CreateInstanceFails,
         SaveInstance, ListInstance, SkipNotReady, UploadInputs, SendCommand,
         SendCommandFails, SaveRunning, StartCompleting, StillBusy,
         StoreOutcome, TerminateInstance, DeleteResult, DeleteInputs,
         RemoveRecord, UnlistInstance, StartSending, SendResult, SendFails,
         RemoveResult, EndTick, Crash, Dies, vars, hand
    <3> QED
      BY <1>1, <3>1 DEF OwnOK
  <2> QED
    BY <2>1, <2>2, <2>3
<1>4. \A s \in Answers' : s.out \in {Bad, s.req}
  <2>1. \A s \in Answers : s.out \in {Bad, s.req}
    BY <1>1 DEF OwnOK, AnswerIsItsOwn
  <2>2. CASE StoreOutcome
    BY <1>1, <2>1, <2>2, AnswersStep DEF StoreOutcome, OwnOK
  <2>3. CASE ~StoreOutcome
    BY <2>1, <2>3, AnswersStep
  <2> QED
    BY <2>2, <2>3
<1> QED
  BY <1>2, <1>3, <1>4, <1>5 DEF OwnOK, AnswerIsItsOwn

\* Without crashes a success is the output of the very request it answers, even
\* if requests with one job id follow one another, for any number of jobs and
\* machines.
THEOREM AnswersAreOwn ==
  ASSUME ObjectsOfIds
  PROVE  Spec => []AnswerIsItsOwn
<1>1. Init => OwnOK
  BY DEF Init, OwnOK, OwnCommandOK, AnswerIsItsOwn, Answers, Stored, Sent, Busy
<1>2. CommandInv /\ OwnOK /\ [Next]_vars => OwnOK'
  BY OwnStep DEF OwnInv
<1>3. OwnOK => AnswerIsItsOwn
  BY DEF OwnOK
<1> QED
  BY <1>1, <1>2, <1>3, CommandInvariant, PTL DEF Spec

-----------------------------------------------------------------------------
(* Acknowledged requests *)

\* A request with job id j is stored or answered.
InHand(j) ==
  \/ jobs[j] # None
  \/ results[j] # None
  \/ \E q \in JobRequests : JobIdOf[q] = j /\ Answered(q)

\* Acknowledged ids are in hand, and so is what is about to be acknowledged; a
\* result that is about to be removed was sent.
AckOK ==
  /\ pc = "ack" => jobs[JobIdOf[msg]] # None
  /\ pc = "remove" => Answered(req)
  /\ \A r \in JobRequests : Acked(r) => InHand(JobIdOf[r])

AckInv == MachineInv /\ AckOK

\* Only clients and acknowledgements move messages.
LEMMA BrokerStep ==
  ASSUME TypeInv, [Next]_vars
  PROVE  (\E r \in JobRequests : Submit(r)) \/ Ack \/ UNCHANGED <<sent, inbox>>
<1>1. CASE \E m \in Machines : CollectSuccess(m) \/ CollectFailure(m)
  BY <1>1, CollectedBy DEF TypeInv, broker
<1>2. CASE ~\E m \in Machines : CollectSuccess(m) \/ CollectFailure(m)
  BY <1>2 DEF Next, Dispatcher, GetMessage, Boots, MachineFails, CommandEnds, Restart,
     GetNothing, SkipJob, AcceptJob, AssignNothing, CreateInstance,
     CreateInstanceFails, SaveInstance, ListInstance, SkipNotReady,
     UploadInputs, SendCommand, SendCommandFails, SaveRunning, StartCompleting,
     StillBusy, StoreOutcome, TerminateInstance, DeleteResult, DeleteInputs,
     RemoveRecord, UnlistInstance, StartSending, SendResult, SendFails,
     RemoveResult, EndTick, Crash, Dies, vars, broker
<1> QED
  BY <1>1, <1>2

\* A stored result stays, until one with the same id takes its place or it is
\* removed; a delivered one stays for ever.
LEMMA ResultsStep ==
  ASSUME TypeInv, [Next]_vars
  PROVE  /\ delivered \subseteq delivered'
         /\ \A j \in JobIds :
              \/ results'[j] = results[j]
              \/ /\ StoreOutcome /\ JobIdOf[req] = j
                 /\ results'[j] = [req |-> req, out |-> out]
              \/ RemoveResult /\ JobIdOf[req] = j
<1> USE DEF TypeInv
<1>1. CASE StoreOutcome
  BY <1>1 DEF StoreOutcome, TypeOK, broker
<1>2. CASE RemoveResult
  BY <1>2 DEF RemoveResult, TypeOK, broker
<1>3. CASE \E m \in Machines : CollectSuccess(m) \/ CollectFailure(m)
  BY <1>3, CollectedBy DEF broker, storage
<1>4. ASSUME ~StoreOutcome, ~RemoveResult,
             ~\E m \in Machines : CollectSuccess(m) \/ CollectFailure(m)
      PROVE  UNCHANGED results /\ delivered \subseteq delivered'
  BY <1>4 DEF Next, Dispatcher, GetMessage, Submit, Boots, MachineFails, CommandEnds,
     Restart, GetNothing, SkipJob, AcceptJob, Ack, AssignNothing,
     CreateInstance, CreateInstanceFails, SaveInstance, ListInstance,
     SkipNotReady, UploadInputs, SendCommand, SendCommandFails, SaveRunning,
     StartCompleting, StillBusy, TerminateInstance, DeleteResult, DeleteInputs,
     RemoveRecord, UnlistInstance, StartSending, SendResult, SendFails,
     EndTick, Crash, Dies, vars, broker, storage
<1> QED
  BY <1>1, <1>2, <1>3, <1>4

\* What is in hand stays in hand.
LEMMA InHandStep ==
  ASSUME AckInv, [Next]_vars, NEW j \in JobIds, InHand(j)
  PROVE  InHand(j)'
<1> USE DEF AckInv, MachineInv, TypeInv
<1>1. delivered \subseteq delivered'
  BY ResultsStep
<1>2. CASE \E q \in JobRequests : JobIdOf[q] = j /\ Answered(q)
  BY <1>1, <1>2 DEF InHand, Answered
<1>3. CASE StoreOutcome /\ JobIdOf[req] = j
  <2>1. results'[j] = [req |-> req, out |-> out] /\ [req |-> req, out |-> out] # None
    BY <1>3, NoneAssumption DEF StoreOutcome, HandOK, TypeOK, Result
  <2> QED
    BY <2>1 DEF InHand
<1>4. CASE jobs[j] # None /\ ~(StoreOutcome /\ JobIdOf[req] = j)
  BY <1>4, JobsStep DEF InHand
<1>5. CASE RemoveResult /\ JobIdOf[req] = j
  BY <1>1, <1>5 DEF RemoveResult, AckOK, HandOK, InHand, Answered
<1>6. CASE /\ results[j] # None
           /\ ~(StoreOutcome /\ JobIdOf[req] = j)
           /\ ~(RemoveResult /\ JobIdOf[req] = j)
  BY <1>6, ResultsStep DEF InHand
<1> QED
  BY <1>2, <1>3, <1>4, <1>5, <1>6 DEF InHand

LEMMA AckStep ==
  ASSUME AckInv, [Next]_vars
  PROVE  AckOK'
<1> USE DEF AckInv, MachineInv, TypeInv
<1>1. ASSUME pc' = "ack" PROVE jobs'[JobIdOf[msg']] # None
  <2>1. CASE SkipJob
    BY <1>1, <2>1 DEF SkipJob, msg, broker, storage
  <2>2. CASE AcceptJob
    <3>1. msg \in JobRequests /\ JobIdOf[msg] \in JobIds /\ msg' = msg
      BY <2>2, TailIn, RequestsAssumption DEF AcceptJob, msg, TypeOK, broker
    <3> QED
      BY <2>2, <3>1, NoneAssumption DEF AcceptJob, TypeOK
  <2>3. ASSUME NEW r \in JobRequests, Submit(r) PROVE jobs'[JobIdOf[msg']] # None
    BY <1>1, <2>3, AppendedIn DEF Submit, AckOK, HandOK, TypeOK, msg, storage
  <2>4. CASE \E m \in Machines : CollectSuccess(m) \/ CollectFailure(m)
    BY <1>1, <2>4, CollectedBy DEF Dies, Collects
  <2>5. ASSUME ~SkipJob, ~AcceptJob, ~\E r \in JobRequests : Submit(r),
               ~\E m \in Machines : CollectSuccess(m) \/ CollectFailure(m)
        PROVE  pc = "ack" /\ UNCHANGED <<inbox, jobs>>
    BY <1>1, <2>5 DEF Next, Dispatcher, GetMessage, Boots, MachineFails, CommandEnds, Restart,
       GetNothing, Ack, AssignNothing, StartExecuting, CreateInstance,
       CreateInstanceFails, SaveInstance, ListInstance, SkipNotReady,
       UploadInputs, SendCommand, SendCommandFails, SaveRunning,
       StartCompleting, StillBusy, StoreOutcome, TerminateInstance,
       DeleteResult, DeleteInputs, RemoveRecord, UnlistInstance, StartSending,
       SendResult, SendFails, RemoveResult, EndTick, Crash, Dies, vars, broker, storage
  <2> QED
    BY <2>1, <2>2, <2>3, <2>4, <2>5 DEF AckOK, msg
<1>2. ASSUME pc' = "remove" PROVE Answered(req)'
  <2>1. ASSUME NEW j \in JobIds, SendResult(j) PROVE Answered(req)'
    BY <2>1 DEF SendResult, Answered
  <2>2. CASE \E m \in Machines : CollectSuccess(m) \/ CollectFailure(m)
    BY <1>2, <2>2, CollectedBy DEF Dies, Collects
  <2>3. ASSUME ~\E j \in JobIds : SendResult(j),
               ~\E m \in Machines : CollectSuccess(m) \/ CollectFailure(m)
        PROVE  pc = "remove" /\ UNCHANGED req
    BY <1>2, <2>3 DEF Next, Dispatcher, GetMessage, Submit, Boots, MachineFails, CommandEnds,
       Restart, GetNothing, SkipJob, AcceptJob, Ack, AssignNothing,
       StartExecuting, CreateInstance, CreateInstanceFails, SaveInstance,
       ListInstance, SkipNotReady, UploadInputs, SendCommand, SendCommandFails,
       SaveRunning, StartCompleting, StillBusy, StoreOutcome,
       TerminateInstance, DeleteResult, DeleteInputs, RemoveRecord,
       UnlistInstance, StartSending, SendFails, RemoveResult, EndTick, Crash,
       Dies, vars, hand
  <2>4. delivered \subseteq delivered'
    BY ResultsStep
  <2> QED
    BY <2>1, <2>2, <2>3, <2>4 DEF AckOK, Answered
<1>3. ASSUME NEW r \in JobRequests, Acked(r)' PROVE InHand(JobIdOf[r])
  <2>1. ASSUME NEW q \in JobRequests, Submit(q) PROVE Acked(r)
    <3>1. \A x : InInbox(x)' <=> InInbox(x) \/ x = q
      BY <2>1, AppendedIn DEF Submit, InInbox, TypeOK
    <3> QED
      BY <1>3, <2>1, <3>1 DEF Submit, Acked
  <2>2. CASE Ack
    <3>1. \A x : InInbox(x) <=> InInbox(x)' \/ x = msg
      <4>1. inbox \in Seq(JobRequests) /\ inbox # <<>> /\ inbox' = Tail(inbox)
        BY <2>2 DEF Ack, HandOK, TypeOK
      <4>2. \A x : (\E i \in 1..Len(inbox) : inbox[i] = x)
                   <=> (\E i \in 1..Len(Tail(inbox)) : Tail(inbox)[i] = x) \/ x = Head(inbox)
        BY <4>1, TailIn
      <4> QED
        BY <4>1, <4>2 DEF InInbox, msg
    <3>2. Acked(r) \/ r = msg
      BY <1>3, <2>2, <3>1 DEF Ack, Acked
    <3> QED
      BY <2>2, <3>2 DEF Ack, AckOK, InHand
  <2>3. CASE UNCHANGED <<sent, inbox>>
    BY <1>3, <2>3 DEF Acked, InInbox, AckOK
  <2> QED
    BY <2>1, <2>2, <2>3, BrokerStep DEF AckOK
<1>4. \A r \in JobRequests : Acked(r)' => InHand(JobIdOf[r])'
  BY <1>3, InHandStep, RequestsAssumption
<1> QED
  BY <1>1, <1>2, <1>4 DEF AckOK, msg

LEMMA AckInvariant == Spec => []AckInv
<1>1. Init => AckOK
  BY DEF Init, AckOK, Acked
<1>2. MachineInv /\ AckOK /\ [Next]_vars => AckOK'
  BY AckStep DEF AckInv
<1> QED
  BY <1>1, <1>2, MachineInvariant, PTL DEF Spec, AckInv

\* No request of clients that do not reuse job ids is lost in AWS mode, for any
\* number of clients, jobs, machines and crashes.
THEOREM AckedSafe ==
  ASSUME UniqueIds
  PROVE  Spec => []AckedIsSafe
<1>1. AckInv => AckedIsSafe
  <2> SUFFICES ASSUME AckInv, NEW r \in JobRequests, Acked(r)
               PROVE  r \in Kept \/ Answered(r)
    BY DEF AckedIsSafe
  <2> USE DEF AckInv, MachineInv, TypeInv
  <2> DEFINE j == JobIdOf[r]
  <2>1. j \in JobIds /\ InHand(j)
    BY RequestsAssumption DEF AckOK
  <2>2. CASE jobs[j] # None
    <3>1. jobs[j] \in JobRequests /\ JobIdOf[jobs[j]] = j
      BY <2>1, <2>2 DEF KeysOK, Stored, TypeOK
    <3> QED
      BY <3>1 DEF UniqueIds, Kept
  <2>3. CASE results[j] # None
    <3>1. results[j].req \in JobRequests /\ JobIdOf[results[j].req] = j
      BY <2>1, <2>3 DEF KeysOK, Stored, TypeOK, Result
    <3> QED
      BY <2>3, <3>1 DEF UniqueIds, Kept
  <2>4. CASE \E q \in JobRequests : JobIdOf[q] = j /\ Answered(q)
    BY <2>4 DEF UniqueIds
  <2> QED
    BY <2>1, <2>2, <2>3, <2>4 DEF InHand
<1> QED
  BY <1>1, AckInvariant, PTL

-----------------------------------------------------------------------------
(* Machines whose end was asked for *)

\* The outcome of request r is stored, or was sent.
Safe(r) == Answered(r) \/ \E j \in JobIds : results[j] # None /\ results[j].req = r

\* A machine ends by itself, or is terminated when its outcome is stored.
LEMMA EndingStep ==
  ASSUME TypeInv, [Next]_vars, NEW m \in Machines,
         machines[m] # "ending", machines'[m] = "ending"
  PROVE  MachineFails(m) \/ (TerminateInstance /\ cur = m)
<1> USE DEF TypeInv
<1>1. ASSUME NEW n \in Machines, MachineFails(n) PROVE MachineFails(m)
  <2>1. n = m
    BY <1>1 DEF MachineFails, ShutsDown, TypeOK
  <2> QED
    BY <1>1, <2>1
<1>2. CASE TerminateInstance
  BY <1>2 DEF TerminateInstance, Terminates, ShutsDown, TypeOK
<1>3. ASSUME NEW n \in Machines, Launches(n) \/ Boots(n) PROVE FALSE
  BY <1>3 DEF Launches, Boots, TypeOK
<1>4. CASE \E n \in Machines : CollectSuccess(n) \/ CollectFailure(n)
  BY <1>4, CollectedBy DEF aws
<1>5. ASSUME ~TerminateInstance,
             ~\E n \in Machines : MachineFails(n) \/ Launches(n) \/ Boots(n),
             ~\E n \in Machines : CollectSuccess(n) \/ CollectFailure(n)
      PROVE  UNCHANGED machines
  BY <1>5 DEF Next, Dispatcher, GetMessage, Submit, CommandEnds, Restart, GetNothing,
     SkipJob, AcceptJob, Ack, AssignNothing, CreateInstance,
     CreateInstanceFails, SaveInstance, ListInstance, SkipNotReady,
     UploadInputs, SendCommand, SendCommandFails, SaveRunning, StartCompleting,
     StillBusy, StoreOutcome, DeleteResult, DeleteInputs, RemoveRecord,
     UnlistInstance, StartSending, SendResult, SendFails, RemoveResult,
     EndTick, Crash, Dies, vars, aws
<1> QED
  BY <1>1, <1>2, <1>3, <1>4, <1>5

\* A safe outcome stays safe.
LEMMA SafeStep ==
  ASSUME UniqueIds, AckInv, [Next]_vars, NEW r \in JobRequests, Safe(r)
  PROVE  Safe(r)'
<1> USE DEF AckInv, MachineInv, TypeInv
<1>1. CASE Answered(r)
  BY <1>1, ResultsStep DEF Safe, Answered
<1>2. ASSUME NEW j \in JobIds, results[j] # None, results[j].req = r PROVE Safe(r)'
  <2>1. JobIdOf[r] = j
    BY <1>2 DEF KeysOK, Stored
  <2>2. CASE results'[j] = results[j]
    BY <1>2, <2>2 DEF Safe
  <2>3. ASSUME StoreOutcome, JobIdOf[req] = j, results'[j] = [req |-> req, out |-> out]
        PROVE  Safe(r)'
    <3>1. req = r /\ [req |-> req, out |-> out] # None
      BY <2>1, <2>3, NoneAssumption DEF StoreOutcome, HandOK, Result, UniqueIds
    <3> QED
      BY <2>3, <3>1 DEF Safe
  <2>4. ASSUME RemoveResult, JobIdOf[req] = j PROVE Safe(r)'
    <3>1. req = r /\ Answered(r)
      BY <2>1, <2>4 DEF RemoveResult, HandOK, AckOK, UniqueIds
    <3> QED
      BY <3>1, ResultsStep DEF Safe, Answered
  <2> QED
    BY <2>2, <2>3, <2>4, ResultsStep
<1> QED
  BY <1>1, <1>2 DEF Safe

LEMMA StopsStep ==
  ASSUME UniqueIds, CommandInv, AckOK, StopsAfterStored, [Next]_vars
  PROVE  StopsAfterStored'
<1> USE DEF CommandInv, MachineInv, TypeInv
<1> SUFFICES ASSUME NEW c \in Commands, commands'[c] # None,
                    commands'[c].on \notin Flaky,
                    machines'[commands'[c].on] = "ending"
             PROVE  LET r == commands'[c].req
                    IN \/ \E d \in delivered' : d.req = r
                       \/ \E j \in JobIds : results'[j] # None /\ results'[j].req = r
  BY DEF StopsAfterStored, Answered
<1>1. CASE SendCommand(c)
  BY <1>1, SentOne DEF SendCommand, Ready, HandOK, TypeOK
<1>2. CASE ~SendCommand(c)
  <2> DEFINE m == commands[c].on
             r == commands[c].req
  <2>1. Sent(c) /\ commands'[c].on = m /\ commands'[c].req = r
    BY <1>2, CommandStep DEF Sent, Busy
  <2>2. m \in Machines /\ r \in JobRequests
    BY <2>1 DEF Sent, TypeOK, Command
  <2>3. CASE machines[m] = "ending"
    <3>1. Safe(r)
      BY <2>1, <2>3 DEF Sent, StopsAfterStored, Safe
    <3> QED
      BY <2>1, <2>2, <3>1, SafeStep DEF AckInv, Safe, Answered
  <2>4. CASE machines[m] # "ending"
    <3>1. TerminateInstance /\ cur = m
      BY <2>1, <2>2, <2>4, EndingStep DEF MachineFails
    <3>2. /\ m \in Listed /\ info[m].job = JobIdOf[req] /\ req \in JobRequests
          /\ results[JobIdOf[req]] # None /\ results[JobIdOf[req]].req = req
      BY <3>1 DEF TerminateInstance, HandOK, Working, JobInHandOK, Closing
    <3>3. r = req
      BY <2>1, <2>2, <3>2 DEF CommandsOK, UniqueIds
    <3>4. Safe(r) /\ UNCHANGED <<delivered, results>>
      BY <3>1, <3>2, <3>3, RequestsAssumption DEF TerminateInstance, Safe, broker, storage
    <3> QED
      BY <2>1, <3>4 DEF Safe, Answered
  <2> QED
    BY <2>3, <2>4
<1> QED
  BY <1>1, <1>2

\* Machines are terminated only when the outcome of what they were sent is safe,
\* for any number of jobs, machines and crashes, when job ids are not reused.
THEOREM StopsStored ==
  ASSUME UniqueIds
  PROVE  Spec => []StopsAfterStored
<1>1. Init => StopsAfterStored
  BY DEF Init, StopsAfterStored
<1>2. CommandInv /\ AckInv /\ StopsAfterStored /\ [Next]_vars => StopsAfterStored'
  BY StopsStep DEF AckInv
<1> QED
  BY <1>1, <1>2, CommandInvariant, AckInvariant, PTL DEF Spec

-----------------------------------------------------------------------------
(* The service *)

\* Each message is in the queue at most once, and was sent.
QueueOK == Once(inbox) /\ \A i \in 1..Len(inbox) : inbox[i] \in sent

Waiting == {r \in JobRequests : InInbox(r)}

ServiceInv == AckInv /\ QueueOK

LEMMA QueueStep ==
  ASSUME TypeInv, QueueOK, [Next]_vars
  PROVE  QueueOK'
<1> USE DEF QueueOK
<1>1. inbox \in Seq(JobRequests)
  BY DEF TypeInv, TypeOK
<1>2. ASSUME NEW r \in JobRequests, Submit(r) PROVE QueueOK'
  <2>1. inbox' = Append(inbox, r) /\ sent' = sent \cup {r} /\ r \notin sent
    BY <1>2 DEF Submit
  <2>2. Once(inbox')
    BY <1>1, <2>1, AppendOnce
  <2>3. \A x : (\E i \in 1..Len(inbox') : inbox'[i] = x)
               => (\E i \in 1..Len(inbox) : inbox[i] = x) \/ x = r
    BY <1>1, <2>1, AppendedIn
  <2> QED
    BY <2>1, <2>2, <2>3
<1>3. CASE Ack
  <2>1. inbox' = Tail(inbox) /\ UNCHANGED sent /\ inbox # <<>>
    BY <1>3 DEF Ack, TypeInv, HandOK
  <2>2. Once(inbox')
    BY <1>1, <2>1, TailOnce
  <2>3. \A x : (\E i \in 1..Len(inbox') : inbox'[i] = x)
               => (\E i \in 1..Len(inbox) : inbox[i] = x)
    BY <1>1, <2>1, TailIn
  <2> QED
    BY <2>1, <2>2, <2>3
<1>4. CASE UNCHANGED <<sent, inbox>>
  BY <1>4
<1> QED
  BY <1>2, <1>3, <1>4, BrokerStep

\* Sending a job request is asking.
LEMMA SubmitAsks ==
  ASSUME ServiceInv, NEW r \in JobRequests, Submit(r)
  PROVE  Service!Ask(r)
<1>1. /\ r \notin sent /\ sent' = sent \cup {r} /\ inbox' = Append(inbox, r)
      /\ UNCHANGED <<jobs, results, delivered>>
  BY DEF Submit, storage
<1>2. \A x : InInbox(x)' <=> InInbox(x) \/ x = r
  BY <1>1, AppendedIn DEF ServiceInv, AckInv, MachineInv, TypeInv, TypeOK, InInbox
<1>3. UNCHANGED Kept
  BY <1>1 DEF Kept
<1>4. Waiting' = Waiting \cup {r}
  BY <1>2 DEF Waiting
<1> QED
  BY <1>1, <1>3, <1>4 DEF Service!Ask, Waiting

\* Storing a job is taking its request.
LEMMA AcceptTakes ==
  ASSUME UniqueIds, ServiceInv, AcceptJob
  PROVE  msg \in JobRequests /\ Service!Take(msg)
<1> USE DEF ServiceInv, AckInv, MachineInv, TypeInv, TypeOK
<1>1. /\ inbox # <<>> /\ inbox \in Seq(JobRequests)
      /\ jobs' = [jobs EXCEPT ![JobIdOf[msg]] = msg]
      /\ UNCHANGED <<sent, inbox, results, delivered>>
  BY DEF AcceptJob, broker
<1>2. msg \in JobRequests /\ InInbox(msg)
  BY <1>1, TailIn DEF InInbox, msg
<1>3. Kept' = Kept \cup {msg}
  BY <1>1, <1>2, RequestsAssumption DEF Kept, UniqueIds
<1>4. UNCHANGED Waiting
  BY <1>1 DEF Waiting, InInbox
<1> QED
  BY <1>1, <1>2, <1>3, <1>4 DEF Service!Take, Waiting

\* Acknowledging the message of a job is acknowledging its request.
LEMMA AckAcknowledges ==
  ASSUME UniqueIds, ServiceInv, Ack
  PROVE  msg \in JobRequests /\ Service!Acknowledge(msg)
<1> USE DEF ServiceInv, AckInv, MachineInv, TypeInv, TypeOK
<1>1. /\ pc = "ack" /\ inbox # <<>> /\ inbox' = Tail(inbox) /\ inbox \in Seq(JobRequests)
      /\ UNCHANGED <<sent, jobs, results, delivered>>
  BY DEF Ack, HandOK, storage
<1>2. msg \in JobRequests /\ \A x : InInbox(x) <=> InInbox(x)' \/ x = msg
  <2>1. Head(inbox) \in JobRequests
        /\ \A x : (\E i \in 1..Len(inbox) : inbox[i] = x)
                  <=> (\E i \in 1..Len(Tail(inbox)) : Tail(inbox)[i] = x) \/ x = Head(inbox)
    BY <1>1, TailIn
  <2> QED
    BY <1>1, <2>1 DEF InInbox, msg
<1>3. \A x : InInbox(x)' => x # msg
  BY <1>1, TailOnce DEF InInbox, msg, QueueOK
<1>4. Waiting' = Waiting \ {msg}
  BY <1>2, <1>3 DEF Waiting
<1>5. UNCHANGED Kept
  BY <1>1 DEF Kept
<1>6. jobs[JobIdOf[msg]] = msg
  BY <1>1, <1>2, RequestsAssumption DEF AckOK, KeysOK, Stored, UniqueIds
<1>7. msg \in Kept /\ msg \in Waiting
  BY <1>2, <1>6 DEF Kept, Waiting
<1> QED
  BY <1>1, <1>2, <1>4, <1>5, <1>7 DEF Service!Acknowledge, Waiting

\* Storing an outcome in place of its job is not seen.
LEMMA StoreUnseen ==
  ASSUME UniqueIds, ServiceInv, StoreOutcome
  PROVE  UNCHANGED Service!vars
<1> USE DEF ServiceInv, AckInv, MachineInv, TypeInv, TypeOK
<1>1. /\ req \in JobRequests /\ jobs[JobIdOf[req]] = req
      /\ [req |-> req, out |-> out] # None
      /\ results' = [results EXCEPT ![JobIdOf[req]] = [req |-> req, out |-> out]]
      /\ jobs' = [jobs EXCEPT ![JobIdOf[req]] = None]
      /\ UNCHANGED <<sent, inbox, delivered>>
  BY NoneAssumption DEF StoreOutcome, broker, HandOK, JobInHandOK, Result
<1>2. req \in Kept /\ req \in Kept'
  BY <1>1, RequestsAssumption DEF Kept
<1>3. \A r \in JobRequests \ {req} : r \in Kept' <=> r \in Kept
  BY <1>1, RequestsAssumption DEF Kept, UniqueIds
<1>4. Kept' = Kept
  BY <1>2, <1>3 DEF Kept
<1>5. UNCHANGED Waiting
  BY <1>1 DEF Waiting, InInbox
<1> QED
  BY <1>1, <1>4, <1>5 DEF Service!vars, Waiting

\* Sending a stored result is replying.
LEMMA SendReplies ==
  ASSUME ServiceInv, NEW j \in JobIds, SendResult(j) \/ SendFails(j)
  PROVE  \/ results[j].req \in JobRequests /\ Service!Reply(results[j].req)
         \/ UNCHANGED Service!vars
<1> USE DEF ServiceInv, AckInv, MachineInv, TypeInv, TypeOK
<1>1. /\ results[j] \in Result /\ JobIdOf[results[j].req] = j /\ results[j] # None
      /\ delivered' \in {delivered, delivered \cup {results[j]}}
      /\ UNCHANGED <<sent, inbox, jobs, results>>
  BY DEF SendResult, SendFails, HandOK, KeysOK, Stored, storage
<1>2. /\ results[j].req \in Kept /\ results[j].out \in JobRequests \cup {Bad}
      /\ results[j] = [req |-> results[j].req, out |-> results[j].out]
  BY <1>1 DEF Kept, Result
<1>3. UNCHANGED <<Kept, Waiting>>
  BY <1>1 DEF Kept, Waiting, InInbox
<1> QED
  BY <1>1, <1>2, <1>3 DEF Service!Reply, Service!vars, Kept, Waiting

\* Removing a result closes its request, unless its job is stored again.
LEMMA RemoveCloses ==
  ASSUME UniqueIds, ServiceInv, RemoveResult
  PROVE  (req \in JobRequests /\ Service!Close(req)) \/ UNCHANGED Service!vars
<1> USE DEF ServiceInv, AckInv, MachineInv, TypeInv, TypeOK
<1>1. /\ req \in JobRequests /\ Answered(req) /\ results[JobIdOf[req]] # None
      /\ results' = [results EXCEPT ![JobIdOf[req]] = None]
      /\ UNCHANGED <<sent, inbox, jobs, delivered>>
  BY DEF RemoveResult, HandOK, AckOK, broker
<1>2. results[JobIdOf[req]].req = req
  BY <1>1, RequestsAssumption DEF KeysOK, Stored, UniqueIds, Result
<1>3. req \in Kept
  BY <1>1, <1>2 DEF Kept
<1>4. \A r \in JobRequests \ {req} : r \in Kept' <=> r \in Kept
  BY <1>1, RequestsAssumption DEF Kept, UniqueIds
<1>5. Kept' = Kept \/ Kept' = Kept \ {req}
  BY <1>3, <1>4 DEF Kept
<1>6. UNCHANGED Waiting
  BY <1>1 DEF Waiting, InInbox
<1>7. Service!Answered(req)
  BY <1>1 DEF Answered, Service!Answered
<1> QED
  BY <1>1, <1>3, <1>5, <1>6, <1>7 DEF Service!Close, Service!vars, Waiting

\* In AWS mode too the queue, the store and the answers move together as
\* JobService says, for any number of jobs, machines and crashes, when job ids
\* are not reused.
THEOREM Implements ==
  ASSUME UniqueIds
  PROVE  Spec => ServiceSafety
<1>1. Init => Service!Init
  <2> SUFFICES ASSUME Init PROVE Service!Init
    OBVIOUS
  <2>1. Waiting = {}
    BY EmptySeq DEF Init, Waiting, InInbox
  <2>2. \A r \in JobRequests : jobs[JobIdOf[r]] = None /\ results[JobIdOf[r]] = None
    BY RequestsAssumption DEF Init
  <2>3. Kept = {}
    BY <2>2, NoneAssumption DEF Kept
  <2> QED
    BY <2>1, <2>3 DEF Init, Service!Init, Waiting
<1>2. ServiceInv /\ [Next]_vars => [Service!Next]_(Service!vars)
  <2> SUFFICES ASSUME ServiceInv, [Next]_vars PROVE [Service!Next]_(Service!vars)
    OBVIOUS
  <2> USE DEF Service!Next
  <2>1. ASSUME NEW r \in JobRequests, Submit(r) PROVE [Service!Next]_(Service!vars)
    BY <2>1, SubmitAsks
  <2>2. CASE AcceptJob
    BY <2>2, AcceptTakes
  <2>3. CASE Ack
    BY <2>3, AckAcknowledges
  <2>4. CASE StoreOutcome
    BY <2>4, StoreUnseen
  <2>5. ASSUME NEW j \in JobIds, SendResult(j) \/ SendFails(j)
        PROVE  [Service!Next]_(Service!vars)
    BY <2>5, SendReplies
  <2>6. CASE RemoveResult
    BY <2>6, RemoveCloses
  <2>7. ASSUME ~\E r \in JobRequests : Submit(r), ~AcceptJob, ~Ack, ~StoreOutcome,
               ~\E j \in JobIds : SendResult(j) \/ SendFails(j), ~RemoveResult
        PROVE  UNCHANGED Service!vars
    <3>1. UNCHANGED <<broker, storage>>
      <4>1. CASE \E m \in Machines : CollectSuccess(m) \/ CollectFailure(m)
        BY <4>1, CollectedBy DEF ServiceInv, AckInv, MachineInv, TypeInv
      <4>2. CASE ~\E m \in Machines : CollectSuccess(m) \/ CollectFailure(m)
        BY <2>7, <4>2 DEF Next, Dispatcher, GetMessage, Boots, MachineFails, CommandEnds,
           Restart, GetNothing, SkipJob, AssignNothing, CreateInstance,
           CreateInstanceFails, SaveInstance, ListInstance, SkipNotReady,
           UploadInputs, SendCommand, SendCommandFails, SaveRunning,
           StartCompleting, StillBusy, TerminateInstance, DeleteResult,
           DeleteInputs, RemoveRecord, UnlistInstance, StartSending, EndTick,
           Crash, Dies, vars, broker, storage
      <4> QED
        BY <4>1, <4>2
    <3> QED
      BY <3>1 DEF broker, storage, Service!vars, Kept, InInbox
  <2> QED
    BY <2>1, <2>2, <2>3, <2>4, <2>5, <2>6, <2>7
<1>3. Spec => []QueueOK
  <2>1. Init => QueueOK
    BY EmptySeq DEF Init, QueueOK, Once
  <2>2. MachineInv /\ QueueOK /\ [Next]_vars => QueueOK'
    BY QueueStep DEF MachineInv
  <2> QED
    BY <2>1, <2>2, MachineInvariant, PTL DEF Spec
<1>4. AckInv /\ QueueOK => ServiceInv
  BY DEF ServiceInv
<1> QED
  BY <1>1, <1>2, <1>3, <1>4, AckInvariant, PTL
  DEF Spec, ServiceSafety, Service!Safety

=============================================================================
