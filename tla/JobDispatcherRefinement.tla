----------------------- MODULE JobDispatcherRefinement -----------------------
(***************************************************************************)
(* JobDispatcher implements the safety part of JobService for clients that *)
(* do not reuse job ids: five kinds of steps ask, take, acknowledge, reply *)
(* and close, all others change nothing the service speaks of.             *)
(***************************************************************************)
EXTENDS JobDispatcherProofs

\* Each message is in the queue at most once, and was sent.
QueueOK == Once(inbox) /\ \A i \in 1..Len(inbox) : inbox[i] \in sent

Waiting == {r \in JobRequests : InInbox(r)}

\* All that the service speaks of.
Seen == <<sent, inbox, jobs, results, delivered>>

-----------------------------------------------------------------------------

LEMMA QueueStep ==
  ASSUME TypeOK, HandOK, QueueOK, [Next]_vars
  PROVE  QueueOK'
<1> USE DEF QueueOK
<1>1. ASSUME NEW m \in Messages, Submit(m) PROVE QueueOK'
  <2>1. inbox' = Append(inbox, m) /\ sent' = sent \cup {m} /\ m \notin sent
    BY <1>1 DEF Submit
  <2>2. inbox \in Seq(Messages)
    BY DEF TypeOK
  <2>3. Once(inbox')
    BY <2>1, <2>2, AppendOnce
  <2>4. \A x : (\E i \in 1..Len(inbox') : inbox'[i] = x)
               => (\E i \in 1..Len(inbox) : inbox[i] = x) \/ x = m
    BY <2>1, <2>2, AppendedIn
  <2> QED
    BY <2>1, <2>3, <2>4
<1>2. CASE Ack
  <2>1. inbox' = Tail(inbox) /\ UNCHANGED sent /\ inbox # <<>>
    BY <1>2 DEF Ack, HandOK
  <2>2. inbox \in Seq(Messages)
    BY DEF TypeOK
  <2>3. Once(inbox')
    BY <2>1, <2>2, TailOnce
  <2>4. \A x : (\E i \in 1..Len(inbox') : inbox'[i] = x)
               => (\E i \in 1..Len(inbox) : inbox[i] = x)
    BY <2>1, <2>2, TailIn
  <2> QED
    BY <2>1, <2>3, <2>4
<1>3. ASSUME ~\E m \in Messages : Submit(m), ~Ack PROVE QueueOK'
  <2>1. UNCHANGED <<sent, inbox>>
    BY <1>3 DEF Next, Dispatcher, GetMessage, WorkerWrites, WorkerExits, Restart,
       RestoreJob, RestoreFails, EndRestore, GetNothing, AnswerPing, DropJunk,
       SkipJob, AcceptJob, SpawnJob, SpawnFails, KeepWorker, CollectWorker,
       WaitFails, CommitCheckpoint, CompleteJob, StartSending, SendResult,
       SendFails, RemoveResult, EndTick, Crash, Dies, vars, broker
  <2> QED
    BY <2>1
<1> QED
  BY <1>1, <1>2, <1>3

-----------------------------------------------------------------------------
(* The five kinds of steps *)

AllInv == StepInv /\ AckOK /\ QueueOK

\* Sending a job request is asking; sending anything else is not seen.
LEMMA SubmitAsks ==
  ASSUME AllInv, NEW m \in Messages, Submit(m)
  PROVE  (m \in JobRequests /\ Service!Ask(m)) \/ UNCHANGED Service!vars
<1>1. /\ m \notin sent /\ sent' = sent \cup {m} /\ inbox' = Append(inbox, m)
      /\ UNCHANGED <<jobs, results, delivered>>
  BY DEF Submit, storage
<1>2. \A x : InInbox(x)' <=> InInbox(x) \/ x = m
  BY <1>1, AppendedIn DEF AllInv, StepInv, TypeInv, TypeOK, InInbox
<1>3. UNCHANGED Kept
  BY <1>1 DEF Kept
<1>4. CASE m \in JobRequests
  <2>1. Waiting' = Waiting \cup {m}
    BY <1>2, <1>4 DEF Waiting
  <2>2. (sent \cap JobRequests)' = (sent \cap JobRequests) \cup {m}
    BY <1>1, <1>4
  <2> QED
    BY <1>1, <1>3, <1>4, <2>1, <2>2 DEF Service!Ask, Waiting
<1>5. CASE m \notin JobRequests
  <2>1. Waiting' = Waiting
    BY <1>2, <1>5 DEF Waiting
  <2>2. (sent \cap JobRequests)' = sent \cap JobRequests
    BY <1>1, <1>5
  <2> QED
    BY <1>1, <1>3, <2>1, <2>2 DEF Service!vars, Waiting
<1> QED
  BY <1>4, <1>5

\* Storing a job is taking its request.
LEMMA AcceptTakes ==
  ASSUME UniqueIds, AllInv, AcceptJob
  PROVE  msg \in JobRequests /\ Service!Take(msg)
<1> USE DEF AllInv, StepInv, TypeInv, TypeOK
<1>1. /\ msg \in JobRequests /\ inbox # <<>>
      /\ jobs' = [jobs EXCEPT ![JobIdOf[msg]] = msg]
      /\ UNCHANGED <<sent, inbox, results, delivered>>
  BY DEF AcceptJob, broker
<1>2. InInbox(msg)
  BY <1>1, TailIn DEF InInbox, msg
<1>3. Kept' = Kept \cup {msg}
  BY <1>1, RequestsAssumption DEF Kept, UniqueIds
<1>4. UNCHANGED Waiting
  BY <1>1 DEF Waiting, InInbox
<1> QED
  BY <1>1, <1>2, <1>3, <1>4 DEF Service!Take, Waiting

\* Acknowledging the message of a job is acknowledging its request.
LEMMA AckAcknowledges ==
  ASSUME UniqueIds, AllInv, Ack
  PROVE  (msg \in JobRequests /\ Service!Acknowledge(msg)) \/ UNCHANGED Service!vars
<1> USE DEF AllInv, StepInv, TypeInv, TypeOK
<1>1. /\ pc = "ack" /\ inbox # <<>> /\ inbox' = Tail(inbox)
      /\ UNCHANGED <<sent, jobs, results, delivered>>
  BY DEF Ack, HandOK, storage
<1>2. \A x : InInbox(x) <=> InInbox(x)' \/ x = msg
  <2>1. \A x : (\E i \in 1..Len(inbox) : inbox[i] = x)
               <=> (\E i \in 1..Len(Tail(inbox)) : Tail(inbox)[i] = x) \/ x = Head(inbox)
    BY <1>1, TailIn
  <2> QED
    BY <1>1, <2>1 DEF InInbox, msg
<1>3. \A x : InInbox(x)' => x # msg
  BY <1>1, TailOnce DEF InInbox, msg, QueueOK
<1>4. Waiting' = Waiting \ {msg}
  BY <1>2, <1>3 DEF Waiting
<1>5. UNCHANGED Kept
  BY <1>1 DEF Kept
<1>6. CASE msg \in JobRequests
  <2>1. jobs[JobIdOf[msg]] = msg
    BY <1>1, <1>6, RequestsAssumption DEF AckOK, KeysOK, Stored, UniqueIds
  <2>2. msg \in Kept /\ msg \in Waiting
    BY <1>2, <1>6, <2>1 DEF Kept, Waiting
  <2> QED
    BY <1>1, <1>4, <1>5, <1>6, <2>2 DEF Service!Acknowledge, Waiting
<1>7. CASE msg \notin JobRequests
  <2>1. Waiting' = Waiting
    BY <1>4, <1>7 DEF Waiting
  <2> QED
    BY <1>1, <1>5, <2>1 DEF Service!vars, Waiting
<1> QED
  BY <1>6, <1>7

\* Storing a result in place of its job is not seen.
LEMMA CompleteUnseen ==
  ASSUME UniqueIds, AllInv, CompleteJob
  PROVE  UNCHANGED Service!vars
<1> USE DEF AllInv, StepInv, TypeInv, TypeOK
<1>1. /\ cur \in JobRequests /\ jobs[JobIdOf[cur]] = cur
      /\ [req |-> cur, out |-> out] # None
      /\ results' = [results EXCEPT ![JobIdOf[cur]] = [req |-> cur, out |-> out]]
      /\ jobs' = [jobs EXCEPT ![JobIdOf[cur]] = None]
      /\ UNCHANGED <<sent, inbox, delivered>>
  BY NoneAssumption DEF CompleteJob, broker, HandOK, OwnersOK, Result
<1>2. cur \in Kept /\ cur \in Kept'
  BY <1>1, RequestsAssumption DEF Kept
<1>3. \A r \in JobRequests \ {cur} : r \in Kept' <=> r \in Kept
  BY <1>1, RequestsAssumption DEF Kept, UniqueIds
<1>4. Kept' = Kept
  BY <1>2, <1>3 DEF Kept
<1>5. UNCHANGED Waiting
  BY <1>1 DEF Waiting, InInbox
<1> QED
  BY <1>1, <1>4, <1>5 DEF Service!vars, Waiting

\* Sending a stored result is replying.
LEMMA SendReplies ==
  ASSUME AllInv, NEW j \in JobIds, SendResult(j) \/ SendFails(j)
  PROVE  \/ results[j].req \in JobRequests /\ Service!Reply(results[j].req)
         \/ UNCHANGED Service!vars
<1> USE DEF AllInv, StepInv, TypeInv, TypeOK
<1>1. /\ results[j] \in Result /\ JobIdOf[results[j].req] = j /\ results[j] # None
      /\ delivered' \in {delivered, delivered \cup {results[j]}}
      /\ UNCHANGED <<sent, inbox, jobs, results>>
  BY DEF SendResult, SendFails, HandOK, KeysOK, Stored, storage
<1>2. /\ results[j].req \in Kept /\ results[j].out \in JobRequests \cup {Bad}
      /\ results[j] = [req |-> results[j].req, out |-> results[j].out]
  BY <1>1 DEF Kept, Result
<1>3. UNCHANGED <<Kept, Waiting>>
  BY <1>1 DEF Kept, Waiting, InInbox
<1> QED
  BY <1>1, <1>2, <1>3 DEF Service!Reply, Service!vars, Kept, Waiting

\* Removing a result closes its request, unless its job is stored again.
LEMMA RemoveCloses ==
  ASSUME UniqueIds, AllInv, RemoveResult
  PROVE  (cur \in JobRequests /\ Service!Close(cur)) \/ UNCHANGED Service!vars
<1> USE DEF AllInv, StepInv, TypeInv, TypeOK
<1>1. /\ cur \in JobRequests /\ Answered(cur) /\ results[JobIdOf[cur]] # None
      /\ results' = [results EXCEPT ![JobIdOf[cur]] = None]
      /\ UNCHANGED <<sent, inbox, jobs, delivered>>
  BY DEF RemoveResult, HandOK, AckOK, broker
<1>2. results[JobIdOf[cur]].req = cur
  BY <1>1, RequestsAssumption DEF KeysOK, Stored, UniqueIds, Result
<1>3. cur \in Kept
  BY <1>1, <1>2 DEF Kept
<1>4. \A r \in JobRequests \ {cur} : r \in Kept' <=> r \in Kept
  BY <1>1, RequestsAssumption DEF Kept, UniqueIds
<1>5. Kept' = Kept \/ Kept' = Kept \ {cur}
  BY <1>3, <1>4 DEF Kept
<1>6. UNCHANGED Waiting
  BY <1>1 DEF Waiting, InInbox
<1>7. Service!Answered(cur)
  BY <1>1 DEF Answered, Service!Answered
<1> QED
  BY <1>1, <1>3, <1>5, <1>6, <1>7 DEF Service!Close, Service!vars, Waiting

-----------------------------------------------------------------------------

\* The queue, the store and the answers move together as JobService says, for
\* any number of clients, jobs and crashes, when job ids are not reused.
THEOREM Implements ==
  ASSUME UniqueIds
  PROVE  Spec => ServiceSafety
<1>1. Init => Service!Init
  <2> SUFFICES ASSUME Init PROVE Service!Init
    OBVIOUS
  <2>1. Waiting = {}
    BY EmptySeq DEF Init, Waiting, InInbox
  <2>2. \A r \in JobRequests : jobs[JobIdOf[r]] = None /\ results[JobIdOf[r]] = None
    BY RequestsAssumption DEF Init
  <2>3. Kept = {}
    BY <2>2, NoneAssumption DEF Kept, Messages
  <2> QED
    BY <2>1, <2>3 DEF Init, Service!Init, Waiting
<1>2. AllInv /\ [Next]_vars => [Service!Next]_(Service!vars)
  <2> SUFFICES ASSUME AllInv, [Next]_vars PROVE [Service!Next]_(Service!vars)
    OBVIOUS
  <2> USE DEF Service!Next
  <2>1. ASSUME NEW m \in Messages, Submit(m) PROVE [Service!Next]_(Service!vars)
    BY <2>1, SubmitAsks
  <2>2. CASE AcceptJob
    BY <2>2, AcceptTakes
  <2>3. CASE Ack
    BY <2>3, AckAcknowledges
  <2>4. CASE CompleteJob
    BY <2>4, CompleteUnseen
  <2>5. ASSUME NEW j \in JobIds, SendResult(j) \/ SendFails(j)
        PROVE  [Service!Next]_(Service!vars)
    BY <2>5, SendReplies
  <2>6. CASE RemoveResult
    BY <2>6, RemoveCloses
  <2>7. ASSUME ~\E m \in Messages : Submit(m), ~AcceptJob, ~Ack, ~CompleteJob,
               ~\E j \in JobIds : SendResult(j) \/ SendFails(j), ~RemoveResult
        PROVE  UNCHANGED Service!vars
    <3>1. UNCHANGED Seen
      BY <2>7 DEF Next, Dispatcher, GetMessage, WorkerWrites, WorkerExits, Restart,
         RestoreJob, RestoreFails, EndRestore, GetNothing, AnswerPing, DropJunk,
         SkipJob, SpawnJob, SpawnFails, KeepWorker, CollectWorker, WaitFails,
         CommitCheckpoint, StartSending, EndTick, Crash, Dies, vars, broker,
         storage, Seen
    <3> QED
      BY <3>1 DEF Seen, Service!vars, Kept, InInbox
  <2> QED
    BY <2>1, <2>2, <2>3, <2>4, <2>5, <2>6, <2>7
<1>3. Spec => []QueueOK
  <2>1. Init => QueueOK
    BY EmptySeq DEF Init, QueueOK, Once
  <2>2. StepInv /\ QueueOK /\ [Next]_vars => QueueOK'
    BY QueueStep DEF StepInv, TypeInv
  <2> QED
    BY <2>1, <2>2, StepInvariant, PTL DEF Spec
<1>4. StepInv /\ AckOK /\ QueueOK => AllInv
  BY DEF AllInv
<1> QED
  BY <1>1, <1>2, <1>3, <1>4, StepInvariant, AckInvariant, PTL
  DEF Spec, ServiceSafety, Service!Safety

=============================================================================
