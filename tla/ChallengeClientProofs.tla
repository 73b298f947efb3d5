------------------------- MODULE ChallengeClientProofs -------------------------
(***************************************************************************)
(* Proofs about ChallengeClient: how far the two queues and the store can  *)
(* be behind the client, and from this what the client takes for an answer *)
(* and what it can miss.                                                   *)
(***************************************************************************)
EXTENDS ChallengeClient, JobDispatcherProofs, FiniteSetTheorems

-----------------------------------------------------------------------------
(* The invariant *)

\* The types, and that there is a job to send or to wait for.
ClientType ==
  /\ ClientTypeOK
  /\ cpc \in {"send", "wait"} => Len(taken) < Len(Challenge)

\* The place of a job in the challenge, and of the job of a result.
Place    == [r \in Jobs |-> CHOOSE i \in 1..Len(Challenge) : Challenge[i] = r]
ResultAt == [m \in Result |-> Place[m.req]]

\* Jobs a result is queued for, a result is stored for, that are stored, that
\* are queued.
Mailed == {mailbox[i].req : i \in 1..Len(mailbox)}
Done   == {results[j].req : j \in Stored(results)}
Open   == {jobs[j] : j \in Stored(jobs)}
Queued == {inbox[i] : i \in 1..Len(inbox)}

\* No job of P comes before one of Q in the challenge.
Behind(Q, P) == \A q \in Q, p \in P : Place[q] <= Place[p]

\* From the client's queue back to the dispatcher's, jobs come in the order of
\* the challenge.
OrderOK ==
  /\ Sorted(mailbox, ResultAt)
  /\ Sorted(inbox, Place)
  /\ Behind(Mailed, Done \cup Open \cup Queued)
  /\ Behind(Done, Open \cup Queued)
  /\ Behind(Open, Queued)

\* What is on its way belongs to the job the client is at, or to the one before.
WindowOK ==
  /\ \A r \in sent : r \in Jobs /\ Place[r] <= Len(taken) + 1
  /\ Mailed \cup Done \cup Open \cup Queued \subseteq sent
  /\ \A r \in Mailed \cup Done \cup Open \cup Queued : Len(taken) <= Place[r]

\* The client took one success for each job it is past.
TakenOK ==
  /\ \A i \in 1..Len(mailbox) : mailbox[i] \in delivered
  /\ \A i \in 1..Len(taken) : taken[i] \in delivered /\ taken[i].out # Bad
  /\ \A d \in delivered : d.req \in sent
  /\ AnswersInOrder

\* The client took, or will find, a result for job r, or was told of an error.
Told(r) ==
  \/ \E i \in 1..Len(taken) : taken[i].req = r
  \/ r \in Mailed
  \/ [req |-> r, out |-> Bad] \in delivered

\* As long as the dispatcher was not lost, a message is handled once.
HandledOnce ==
  crashes = 0 =>
    /\ Once(inbox)
    /\ Open \cap Queued # {} => pc \in {"spawn", "ack"}
    /\ pc \in {"spawn", "ack"} => jobs[JobIdOf[msg]] = msg
    /\ \A d \in delivered : d.req \notin Open \cup Queued
    /\ Done \cap (Open \cup Queued) = {}
    /\ pc = "remove" => results[JobIdOf[cur]].req = cur /\ Told(cur)

\* What the file that all jobs write holds.
Text == files[FileOf[Challenge[1]]]

\* Job r has succeeded: the client has, or will be sent, its output.
Success(r) ==
  \/ \E d \in Answers : d.req = r /\ d.out # Bad
  \/ pc \in {"commit", "complete"} /\ cur = r /\ out # Bad

\* As long as the dispatcher was neither lost nor stopped, a worker that is no
\* longer tracked is one whose job had an error, and the file holds nothing from
\* before the last job that has succeeded.
OutputsOK ==
  crashes = 0 /\ stops = 0 =>
    /\ pc \in {"down", "restore"} => Open = {}
    /\ \A r \in orphans : /\ r \in sent /\ ~Success(r) /\ r \notin Queued
                          /\ r \in Open => pc = "complete" /\ cur = r
    /\ Text # Bad => /\ Text \in sent /\ Place[Text] >= Len(taken)
                     /\ \A r \in sent : Success(r) => Place[Text] >= Place[r]
    /\ \A d \in Answers : d.out \in {Bad, d.req}
    /\ pc \in {"commit", "complete"} => out \in {Bad, cur}

-----------------------------------------------------------------------------
(* The jobs of a challenge *)

\* How Challenge is laid out.
LEMMA ChallengeJobs ==
  LET n == TotalRounds(MaxSteps, Nary)
  IN /\ n \in Nat /\ Len(Challenge) = 2*n + 4
     /\ Challenge[1] = Job("ProverExecute", 0)
     /\ Challenge[2] = Job("VerifierCheckExecution", 0)
     /\ \A i \in 1..2*n : Challenge[i + 2] =
          IF i % 2 = 1 THEN Job("ProverGetHashesForRound", (i + 1) \div 2)
                       ELSE Job("VerifierChooseSegment", i \div 2)
     /\ Challenge[2*n + 3] = Job("ProverFinalTrace", 0)
     /\ Challenge[2*n + 4] = Job("VerifierChooseChallenge", 0)
<1> DEFINE n == TotalRounds(MaxSteps, Nary)
           Round(i) == IF i % 2 = 1 THEN Job("ProverGetHashesForRound", (i + 1) \div 2)
                                    ELSE Job("VerifierChooseSegment", i \div 2)
           a == Job("ProverExecute", 0)
           b == Job("VerifierCheckExecution", 0)
           c == Job("ProverFinalTrace", 0)
           d == Job("VerifierChooseChallenge", 0)
           rounds == [i \in 1..2*n |-> Round(i)]
           S == {a, b, c, d} \cup {Round(i) : i \in 1..2*n}
<1>1. n \in Nat
  BY RoundsAssumption
<1>2. Challenge = <<a, b>> \o rounds \o <<c, d>>
  BY DEF Challenge
<1>3. rounds \in Seq(S) /\ Len(rounds) = 2*n /\ \A i \in 1..2*n : rounds[i] = Round(i)
  <2> HIDE DEF n
  <2>1. rounds \in [1..2*n -> S] /\ 2*n \in Nat
    BY <1>1
  <2> HIDE DEF rounds
  <2>2. rounds \in Seq(S)
    BY <2>1, SeqDef
  <2>3. DOMAIN rounds = 1..Len(rounds) /\ Len(rounds) \in Nat /\ DOMAIN rounds = 1..2*n
    BY <2>1, <2>2, LenProperties
  <2>4. Len(rounds) = 2*n
    BY <2>1, <2>3
  <2> QED
    BY <2>2, <2>4 DEF rounds
<1> HIDE DEF n, Round, a, b, c, d, rounds
<1>4. <<a, b>> \in Seq(S) /\ <<c, d>> \in Seq(S)
  OBVIOUS
<1> HIDE DEF S
<1>5. /\ <<a, b>> \o rounds \in Seq(S)
      /\ Len(<<a, b>> \o rounds) = 2 + 2*n
      /\ \A i \in 1..2 + 2*n :
           (<<a, b>> \o rounds)[i] = IF i <= 2 THEN <<a, b>>[i] ELSE rounds[i - 2]
  <2>1. Len(<<a, b>>) = 2
    OBVIOUS
  <2> QED
    BY <1>3, <1>4, <2>1, ConcatProperties
<1>6. /\ Len(Challenge) = 2*n + 4
      /\ \A i \in 1..2*n + 4 :
           Challenge[i] = IF i <= 2*n + 2 THEN (<<a, b>> \o rounds)[i]
                                          ELSE <<c, d>>[i - (2*n + 2)]
  <2>1. Len(<<c, d>>) = 2
    OBVIOUS
  <2>2. /\ Len(Challenge) = 2 + 2*n + 2
        /\ \A i \in 1..2 + 2*n + 2 :
             Challenge[i] = IF i <= 2 + 2*n THEN (<<a, b>> \o rounds)[i]
                                            ELSE <<c, d>>[i - (2 + 2*n)]
    BY <1>2, <1>4, <1>5, <2>1, ConcatProperties
  <2>3. 2 + 2*n + 2 = 2*n + 4 /\ 2 + 2*n = 2*n + 2
    BY <1>1
  <2> QED
    BY <2>2, <2>3
<1>7. Challenge[1] = a /\ Challenge[2] = b
  BY <1>1, <1>5, <1>6
<1>8. \A i \in 1..2*n : Challenge[i + 2] = Round(i)
  BY <1>1, <1>3, <1>5, <1>6
<1>9. Challenge[2*n + 3] = c /\ Challenge[2*n + 4] = d
  BY <1>1, <1>6
<1> QED
  BY <1>1, <1>6, <1>7, <1>8, <1>9 DEF n, Round, a, b, c, d

\* What kind of job stands where.
LEMMA JobAt ==
  ASSUME NEW i \in 1..Len(Challenge)
  PROVE  LET n == TotalRounds(MaxSteps, Nary)
         IN \/ i = 1 /\ Challenge[i] = Job("ProverExecute", 0)
            \/ i = 2 /\ Challenge[i] = Job("VerifierCheckExecution", 0)
            \/ \E k \in 1..n : i = 2*k + 1 /\ Challenge[i] = Job("ProverGetHashesForRound", k)
            \/ \E k \in 1..n : i = 2*k + 2 /\ Challenge[i] = Job("VerifierChooseSegment", k)
            \/ i = 2*n + 3 /\ Challenge[i] = Job("ProverFinalTrace", 0)
            \/ i = 2*n + 4 /\ Challenge[i] = Job("VerifierChooseChallenge", 0)
<1> DEFINE n == TotalRounds(MaxSteps, Nary)
<1>0. n \in Nat /\ Len(Challenge) = 2*n + 4
  BY ChallengeJobs
<1> DEFINE Kinds ==
             \/ i = 1 /\ Challenge[i] = Job("ProverExecute", 0)
             \/ i = 2 /\ Challenge[i] = Job("VerifierCheckExecution", 0)
             \/ \E k \in 1..n : i = 2*k + 1 /\ Challenge[i] = Job("ProverGetHashesForRound", k)
             \/ \E k \in 1..n : i = 2*k + 2 /\ Challenge[i] = Job("VerifierChooseSegment", k)
             \/ i = 2*n + 3 /\ Challenge[i] = Job("ProverFinalTrace", 0)
             \/ i = 2*n + 4 /\ Challenge[i] = Job("VerifierChooseChallenge", 0)
<1> SUFFICES Kinds
  OBVIOUS
<1> HIDE DEF n
<1>1. CASE i \in 3..2*n + 2
  <2>1. i - 2 \in 1..2*n /\ i = (i - 2) + 2
    BY <1>0, <1>1
  <2>2. Challenge[i] = IF (i - 2) % 2 = 1
                         THEN Job("ProverGetHashesForRound", ((i - 2) + 1) \div 2)
                         ELSE Job("VerifierChooseSegment", (i - 2) \div 2)
    BY <2>1, ChallengeJobs DEF n
  <2>3. CASE (i - 2) % 2 = 1
    <3>1. ((i - 2) + 1) \div 2 \in 1..n /\ i = 2 * (((i - 2) + 1) \div 2) + 1
      BY <1>0, <1>1, <2>1, <2>3
    <3> QED
      BY <2>2, <2>3, <3>1
  <2>4. CASE (i - 2) % 2 # 1
    <3>1. (i - 2) \div 2 \in 1..n /\ i = 2 * ((i - 2) \div 2) + 2
      BY <1>0, <1>1, <2>1, <2>4
    <3> QED
      BY <2>2, <2>4, <3>1
  <2> QED
    BY <2>3, <2>4
<1>2. CASE i \notin 3..2*n + 2
  <2>1. i \in {1, 2, 2*n + 3, 2*n + 4}
    BY <1>0, <1>2
  <2> QED
    BY <1>0, <2>1, ChallengeJobs DEF n
<1> QED
  BY <1>1, <1>2 DEF n

\* No job comes twice, jobs next to one another are of different kinds and on
\* different checkpoints, and the last is a VerifierChooseChallenge.
LEMMA ChallengeOrder ==
  /\ Len(Challenge) \in Nat /\ Len(Challenge) > 0
  /\ \A i, k \in 1..Len(Challenge) : Challenge[i] = Challenge[k] => i = k
  /\ \A i, k \in 1..Len(Challenge) :
       k = i + 1 => /\ Challenge[i].kind # Challenge[k].kind
                    /\ BaseOf(Challenge[i]) # BaseOf(Challenge[k])
  /\ Challenge[Len(Challenge)].kind = "VerifierChooseChallenge"
<1> DEFINE n == TotalRounds(MaxSteps, Nary)
           N == 2*n + 4
<1>1. n \in Nat /\ Len(Challenge) = N
  BY ChallengeJobs
<1>2. ASSUME NEW i \in 1..N
      PROVE  \/ i = 1 /\ Challenge[i] = Job("ProverExecute", 0)
             \/ i = 2 /\ Challenge[i] = Job("VerifierCheckExecution", 0)
             \/ \E k \in 1..n : i = 2*k + 1 /\ Challenge[i] = Job("ProverGetHashesForRound", k)
             \/ \E k \in 1..n : i = 2*k + 2 /\ Challenge[i] = Job("VerifierChooseSegment", k)
             \/ i = N - 1 /\ Challenge[i] = Job("ProverFinalTrace", 0)
             \/ i = N /\ Challenge[i] = Job("VerifierChooseChallenge", 0)
  BY <1>1, JobAt
<1> HIDE DEF n
<1>3. \A k, r : Job(k, r).kind = k /\ Job(k, r).round = r
  BY DEF Job
<1>4. \A i, k \in 1..N : Challenge[i] = Challenge[k] => i = k
  BY <1>1, <1>2, <1>3
<1>5. \A i, k \in 1..N : k = i + 1 => Challenge[i].kind # Challenge[k].kind
  BY <1>1, <1>2, <1>3
<1>6. \A i, k \in 1..N : k = i + 1 => BaseOf(Challenge[i]) # BaseOf(Challenge[k])
  BY <1>1, <1>2, <1>3 DEF BaseOf
<1>7. Challenge[N].kind = "VerifierChooseChallenge"
  BY <1>3, ChallengeJobs DEF n
<1> QED
  BY <1>1, <1>4, <1>5, <1>6, <1>7

\* The places of the jobs.
LEMMA Places ==
  /\ Place \in [Jobs -> Nat] /\ ResultAt \in [Result -> Nat]
  /\ \A r \in Jobs : Place[r] \in 1..Len(Challenge) /\ Challenge[Place[r]] = r
  /\ \A i \in 1..Len(Challenge) : Challenge[i] \in Jobs /\ Place[Challenge[i]] = i
<1>1. ASSUME NEW r \in Jobs
      PROVE  Place[r] \in 1..Len(Challenge) /\ Challenge[Place[r]] = r
  <2>1. \E i \in 1..Len(Challenge) : Challenge[i] = r
    BY DEF Jobs
  <2> QED
    BY <2>1 DEF Place
<1>2. Place \in [Jobs -> Nat]
  BY <1>1, ChallengeOrder DEF Place
<1>3. ASSUME NEW m \in Result PROVE m.req \in Jobs
  BY ChallengeAssumption DEF Result
<1>4. ResultAt \in [Result -> Nat]
  BY <1>2, <1>3 DEF ResultAt
<1>5. \A i \in 1..Len(Challenge) : Challenge[i] \in Jobs
  BY DEF Jobs
<1>6. \A i \in 1..Len(Challenge) : Place[Challenge[i]] = i
  BY <1>1, <1>5, ChallengeOrder
<1> QED
  BY <1>1, <1>2, <1>4, <1>5, <1>6

\* All jobs have one id and one file; a type is that of a kind.
LEMMA OneIdOneFile ==
  /\ JobRequests = Jobs /\ Unspawnable = {}
  /\ \A q, r \in Jobs : /\ JobIdOf[q] = JobIdOf[r] /\ FileOf[q] = FileOf[r]
                        /\ TypeOf[q] = TypeOf[r] <=> q.kind = r.kind
BY ChallengeAssumption

-----------------------------------------------------------------------------
(* Types *)

\* The job to send, or to wait for.
LEMMA CurrentJob ==
  ASSUME ClientType, cpc \in {"send", "wait"}
  PROVE  /\ Len(taken) \in Nat /\ Len(taken) + 1 \in 1..Len(Challenge)
         /\ current \in Jobs /\ current = Challenge[Len(taken) + 1]
         /\ Place[current] = Len(taken) + 1
<1>1. Len(taken) \in Nat
  BY LenProperties DEF ClientType, ClientTypeOK
<1>2. Len(taken) + 1 \in 1..Len(Challenge)
  BY <1>1, ChallengeOrder DEF ClientType
<1> QED
  BY <1>1, <1>2, Places DEF current

\* A step is one of JobDispatcher, or a stop.
LEMMA DispatcherSteps ==
  ASSUME ClientType, [ClientNext]_cvars
  PROVE  [Next]_vars \/ Stop
<1>1. CASE SendJob
  BY <1>1, CurrentJob, OneIdOneFile DEF SendJob, Next, Messages
<1>2. CASE Client /\ ~SendJob
  BY <1>2 DEF Client, SendRefused, ClientFails, TakeAnswer, DiscardAnswer, WaitLonger, GiveUp
<1>3. CASE DispatcherRuns
  BY <1>3 DEF DispatcherRuns, OtherStep, DeliverResult, DeliverAndFail, Next, Dispatcher
<1>4. CASE Surroundings
  BY <1>4 DEF Surroundings, Next
<1> QED
  BY <1>1, <1>2, <1>3, <1>4 DEF ClientNext, cvars

\* A stop does to the dispatcher what a death does.
LEMMA StopKeeps ==
  ASSUME StepInv, OutcomeOK, Stop
  PROVE  StepInv' /\ OutcomeOK'
<1>1. /\ TypeOK /\ HandOK /\ KeysOK /\ OwnersOK /\ CoveredOK
      /\ Dies /\ crashes' = crashes
  BY DEF StepInv, TypeInv, Stop
<1>2. TypeOK'
  BY <1>1, DiesType DEF TypeOK
<1>3. HandOK' /\ KeysOK'
  BY <1>1 DEF HandOK, KeysOK, Dies, Stored, storage
<1>4. OwnersOK' /\ CoveredOK'
  BY <1>1, DiesTracked DEF OwnersOK, CoveredOK, Dies
<1>5. OutcomeOK'
  BY <1>1 DEF OutcomeOK, SuccessIsCommitted, AnswerHasItsType, Answers, Stored, Dies,
     broker, storage
<1> QED
  BY <1>2, <1>3, <1>4, <1>5 DEF StepInv, TypeInv

BaseInv == StepInv /\ OutcomeOK /\ ClientType

\* A result joins the client's queue.
Delivers(j) ==
  /\ pc = "send" /\ j \in Stored(results) /\ results[j] \in Result
  /\ delivered' = delivered \cup {results[j]}
  /\ mailbox' = Append(mailbox, results[j])
  /\ UNCHANGED <<sent, inbox, jobs, results, orphans, files, out, crashes, client, stops>>
  /\ \/ pc' = "remove" /\ cur' = results[j].req
     \/ pc' = "send" /\ cur' = cur

LEMMA ResultDelivered ==
  ASSUME TypeOK, HandOK, NEW j \in JobIds, DeliverResult(j) \/ DeliverAndFail(j)
  PROVE  Delivers(j)
<1>1. pc = "send" /\ j \in Stored(results) /\ results[j] \in Result
  BY DEF TypeOK, HandOK, DeliverResult, DeliverAndFail, SendResult, SendFails, Stored
<1> QED
  BY <1>1 DEF Delivers, DeliverResult, DeliverAndFail, SendResult, SendFails,
     storage, system, client

\* What moves jobs from queue to store to queue.
flow == <<sent, inbox, delivered, jobs, results, mailbox, taken>>

\* Any other step moves nothing; one that is no crash leaves the handling of a
\* message, or of a result, only where it ends.
Quiet ==
  /\ UNCHANGED flow
  /\ crashes' = 0 =>
       /\ pc \in {"spawn", "ack"} => pc' \in {"spawn", "ack"}
       /\ pc' \in {"spawn", "ack"} =>
            pc \in {"spawn", "ack"} \/ SkipJob \/ AnswerPing \/ DropJunk
       /\ pc' = "remove" => pc = "remove" /\ cur' = cur

FlowNext ==
  \/ SendJob \/ TakeAnswer \/ DiscardAnswer
  \/ (AcceptJob \/ Ack \/ CompleteJob \/ RemoveResult) /\ UNCHANGED <<mailbox, client, stops>>
  \/ \E j \in JobIds : Delivers(j)
  \/ Quiet

\* The steps of the dispatcher that move nothing.
LEMMA QuietSteps ==
  ASSUME Dispatcher, pc' # "remove",
         ~(AcceptJob \/ Ack \/ CompleteJob \/ RemoveResult), delivered' = delivered,
         UNCHANGED <<mailbox, client, stops>>
  PROVE  Quiet
<1> USE DEF Quiet, flow, client, broker, storage
<1>1. CASE \E p \in Pids : CollectWorker(p)
  BY <1>1 DEF CollectWorker, Dies
<1>2. CASE \E j \in JobIds, p \in Pids : RestoreJob(j, p)
  BY <1>2 DEF RestoreJob
<1>3. CASE \E j \in JobIds : RestoreFails(j)
  BY <1>3 DEF RestoreFails, Dies
<1>4. CASE SpawnFails
  BY <1>4, OneIdOneFile DEF SpawnFails
<1>5. CASE \E p \in Pids : SpawnJob(p) \/ KeepWorker(p) \/ WaitFails(p)
  BY <1>5 DEF SpawnJob, KeepWorker, WaitFails
<1>6. CASE EndRestore \/ GetNothing \/ CommitCheckpoint \/ StartSending \/ EndTick
  BY <1>6 DEF EndRestore, GetNothing, StartPolling, CommitCheckpoint, StartSending, EndTick
<1>7. CASE AnswerPing \/ DropJunk \/ SkipJob
  BY <1>7 DEF AnswerPing, DropJunk, SkipJob
<1>8. CASE \E j \in JobIds : SendResult(j) \/ SendFails(j)
  BY <1>8 DEF SendResult, SendFails
<1> QED
  BY <1>1, <1>2, <1>3, <1>4, <1>5, <1>6, <1>7, <1>8 DEF Dispatcher, GetMessage

LEMMA FlowSteps ==
  ASSUME TypeOK, HandOK, [ClientNext]_cvars
  PROVE  FlowNext
<1>1. CASE SendJob \/ TakeAnswer \/ DiscardAnswer
  BY <1>1 DEF FlowNext
<1>2. CASE SendRefused \/ ClientFails \/ WaitLonger \/ GiveUp
  BY <1>2 DEF SendRefused, ClientFails, WaitLonger, GiveUp, FlowNext, Quiet, flow, vars,
     broker, storage, locals
<1>3. CASE OtherStep
  BY <1>3, QuietSteps DEF OtherStep, FlowNext
<1>4. CASE \E j \in JobIds : DeliverResult(j) \/ DeliverAndFail(j)
  BY <1>4, ResultDelivered DEF FlowNext
<1>5. CASE Stop
  BY <1>5 DEF Stop, Dies, FlowNext, Quiet, flow, client, broker, storage
<1>6. CASE Surroundings
  <2>1. CASE Crash
    BY <1>6, <2>1 DEF Crash, Dies, Surroundings, FlowNext, Quiet, flow, client,
       broker, storage, TypeOK
  <2>2. CASE Restart
    BY <1>6, <2>2 DEF Restart, Surroundings, FlowNext, Quiet, flow, client, broker, storage
  <2>3. CASE (\E r \in JobRequests : WorkerWrites(r)) \/ \E p \in Pids : WorkerExits(p)
    <3>1. UNCHANGED <<sent, inbox, delivered, jobs, results, pc, cur>>
      BY <2>3 DEF WorkerWrites, WorkerExits, broker, storage, locals
    <3> QED
      BY <1>6, <3>1 DEF Surroundings, FlowNext, Quiet, flow, client
  <2> QED
    BY <1>6, <2>1, <2>2, <2>3 DEF Surroundings
<1>7. CASE UNCHANGED cvars
  BY <1>7 DEF cvars, FlowNext, Quiet, flow, vars, broker, storage, locals, client
<1> QED
  BY <1>1, <1>2, <1>3, <1>4, <1>5, <1>6, <1>7 DEF ClientNext, Client, DispatcherRuns

\* One step keeps the client's types.
LEMMA ClientTypeStep ==
  ASSUME BaseInv, [ClientNext]_cvars
  PROVE  ClientType'
<1> USE DEF ClientType, ClientTypeOK, client
<1>1. TypeOK /\ HandOK /\ ClientType
  BY DEF BaseInv, StepInv, TypeInv
<1>2. CASE SendJob
  BY <1>1, <1>2, BoundsAssumption DEF SendJob
<1>3. CASE TakeAnswer
  <2>1. Len(taken) + 1 \in 1..Len(Challenge) /\ current = Challenge[Len(taken) + 1]
    BY <1>1, <1>3, CurrentJob DEF TakeAnswer, Waiting
  <2>2. /\ Head(mailbox) \in Result /\ mailbox' \in Seq(Result)
        /\ taken' = Append(taken, Head(mailbox))
    BY <1>1, <1>3, TailIn DEF TakeAnswer
  <2>3. taken' \in Seq(Result) /\ Len(taken') = Len(taken) + 1
    BY <1>1, <2>2, AppendProperties
  <2>4. cpc' \in {"send", "wait"} => Len(taken) + 1 # Len(Challenge)
    BY <1>3, <2>1, ChallengeOrder DEF TakeAnswer
  <2>5. cpc' \in {"send", "done"} /\ UNCHANGED <<attempts, stops>>
    BY <1>3 DEF TakeAnswer
  <2>6. Len(taken') <= Len(Challenge) /\ (cpc' \in {"send", "wait"} => Len(taken') < Len(Challenge))
    BY <2>1, <2>3, <2>4, ChallengeOrder
  <2> QED
    BY <1>1, <2>2, <2>3, <2>5, <2>6
<1>4. CASE DiscardAnswer
  BY <1>1, <1>4, TailIn, BoundsAssumption DEF DiscardAnswer, Waiting
<1>5. CASE SendRefused \/ ClientFails \/ WaitLonger \/ GiveUp
  BY <1>1, <1>5, BoundsAssumption DEF SendRefused, ClientFails, WaitLonger, GiveUp, Waiting
<1>6. CASE OtherStep \/ Surroundings
  BY <1>1, <1>6 DEF OtherStep, Surroundings
<1>7. ASSUME NEW j \in JobIds, Delivers(j) PROVE ClientType'
  BY <1>1, <1>7, AppendedIn DEF Delivers
<1>8. CASE Stop
  <2>1. stops' \in 0..MaxCrashes
    BY <1>1, <1>8, MaxCrashesAssumption DEF Stop, TypeOK
  <2> QED
    BY <1>1, <1>8, <2>1 DEF Stop
<1>9. CASE UNCHANGED cvars
  BY <1>1, <1>9 DEF cvars
<1> QED
  BY <1>1, <1>2, <1>3, <1>4, <1>5, <1>6, <1>7, <1>8, <1>9, ResultDelivered
  DEF ClientNext, Client, DispatcherRuns

LEMMA BaseStep == BaseInv /\ [ClientNext]_cvars => BaseInv'
BY DispatcherSteps, ClientTypeStep, StopKeeps, NextType, OwnersStep, CoveredStep, OutcomeStep
DEF BaseInv, StepInv, TypeInv

LEMMA BaseInvariant == ClientSpec => []BaseInv
<1>1. ClientInit => BaseInv
  <2> SUFFICES ASSUME ClientInit PROVE BaseInv
    OBVIOUS
  <2>1. TypeInv /\ Init
    BY InitType DEF ClientInit
  <2>2. OwnersOK /\ CoveredOK
    BY <2>1 DEF OwnersOK, CoveredOK, Init, Tracked
  <2>3. OutcomeOK
    BY <2>1 DEF Init, OutcomeOK, SuccessIsCommitted, AnswerHasItsType, Answers, Stored
  <2>4. mailbox \in Seq(Result) /\ taken \in Seq(Result) /\ Len(taken) = 0
    BY EmptySeq DEF ClientInit
  <2>5. ClientType
    BY <2>4, BoundsAssumption, MaxCrashesAssumption, ChallengeOrder
    DEF ClientInit, ClientType, ClientTypeOK
  <2> QED
    BY <2>1, <2>2, <2>3, <2>5 DEF BaseInv, StepInv
<1> QED
  BY <1>1, BaseStep, PTL DEF ClientSpec

\* The client's variables keep their kinds of values, for searches of every size.
THEOREM ClientTypeCorrect == ClientSpec => []ClientTypeOK
<1>1. BaseInv => ClientTypeOK
  BY DEF BaseInv, ClientType
<1> QED
  BY <1>1, BaseInvariant, PTL

-----------------------------------------------------------------------------
(* How a step moves jobs along *)

\* One job is stored at a time, and one result, since all have one id.
LEMMA OneStored ==
  ASSUME TypeOK, KeysOK
  PROVE  /\ Open \subseteq Jobs /\ Done \subseteq Jobs
         /\ \A r \in Jobs : r \in Open <=> jobs[JobIdOf[r]] = r
         /\ \A r \in Jobs, q \in Open : jobs[JobIdOf[r]] = q
         /\ \A r \in Jobs : Open = {} <=> jobs[JobIdOf[r]] = None
         /\ \A r \in Jobs, j \in Stored(results) : j = JobIdOf[r]
<1>1. \A r \in Jobs : JobIdOf[r] \in JobIds /\ r # None
  BY OneIdOneFile, RequestsAssumption, NoneAssumption DEF Messages
<1>2. \A j \in Stored(jobs) : j \in JobIds /\ jobs[j] \in Jobs /\ JobIdOf[jobs[j]] = j
  BY OneIdOneFile DEF TypeOK, KeysOK, Stored
<1>3. \A j \in Stored(results) :
        j \in JobIds /\ results[j].req \in Jobs /\ JobIdOf[results[j].req] = j
  BY OneIdOneFile DEF TypeOK, KeysOK, Stored, Result
<1>4. \A r \in Jobs, j \in Stored(jobs) \cup Stored(results) : j = JobIdOf[r]
  BY <1>2, <1>3, OneIdOneFile
<1>5. \A r \in Jobs : Stored(jobs) = {} <=> jobs[JobIdOf[r]] = None
  BY <1>1, <1>4 DEF Stored
<1> QED
  BY <1>1, <1>2, <1>3, <1>4, <1>5 DEF Open, Done, Stored

\* A job that is sent is queued behind all others.
LEMMA SendEffect ==
  ASSUME BaseInv, SendJob
  PROVE  /\ current \in Jobs /\ Place[current] = Len(taken) + 1 /\ current \notin sent
         /\ sent' = sent \cup {current} /\ inbox' = Append(inbox, current)
         /\ Queued' = Queued \cup {current}
         /\ UNCHANGED <<Mailed, Done, Open, delivered, mailbox, taken>>
<1>1. ClientType /\ inbox \in Seq(Messages)
  BY DEF BaseInv, StepInv, TypeInv, TypeOK
<1>2. current \in Jobs /\ Place[current] = Len(taken) + 1 /\ current \in Messages
  BY <1>1, CurrentJob, OneIdOneFile DEF SendJob, Messages
<1>3. /\ current \notin sent /\ sent' = sent \cup {current} /\ inbox' = Append(inbox, current)
      /\ UNCHANGED <<jobs, results, delivered, mailbox, taken>>
  BY DEF SendJob, Submit, storage
<1>4. {Append(inbox, current)[i] : i \in 1..Len(Append(inbox, current))} = Queued \cup {current}
  BY <1>1, <1>2, AppendedIn DEF Queued
<1>5. Queued' = Queued \cup {current}
  BY <1>3, <1>4 DEF Queued
<1> QED
  BY <1>2, <1>3, <1>5 DEF Mailed, Done, Open, Stored

\* The message that is taken becomes the one stored job.
LEMMA AcceptEffect ==
  ASSUME BaseInv, AcceptJob, UNCHANGED <<mailbox, client, stops>>
  PROVE  /\ msg \in Queued /\ msg \in Jobs /\ Open = {} /\ Open' = {msg}
         /\ UNCHANGED <<Mailed, Done, Queued, sent, inbox, delivered, results, mailbox, taken>>
<1>1. TypeOK /\ KeysOK /\ inbox \in Seq(Messages) /\ inbox # <<>>
  BY DEF BaseInv, StepInv, TypeInv, TypeOK, AcceptJob
<1>2. msg \in Queued
  BY <1>1, TailIn DEF Queued, msg
<1>3. /\ msg \in Jobs /\ JobIdOf[msg] \in JobIds /\ msg # None
      /\ jobs[JobIdOf[msg]] = None /\ jobs' = [jobs EXCEPT ![JobIdOf[msg]] = msg]
      /\ UNCHANGED <<sent, inbox, delivered, results, mailbox, taken>>
  BY OneIdOneFile, RequestsAssumption, NoneAssumption DEF AcceptJob, broker, client, Messages
<1>4. Open = {}
  BY <1>1, <1>3, OneStored
<1>5. \A j \in JobIds : jobs[j] = None /\ jobs'[j] = IF j = JobIdOf[msg] THEN msg ELSE None
  <2>1. \A j \in JobIds : jobs[j] = None
    BY <1>4 DEF Open, Stored
  <2>2. jobs \in [JobIds -> JobRequests \cup {None}]
    BY <1>1 DEF TypeOK
  <2> QED
    BY <1>3, <2>1, <2>2
<1>6. Open' = {msg}
  BY <1>3, <1>5 DEF Open, Stored
<1> QED
  BY <1>2, <1>3, <1>4, <1>6 DEF Mailed, Done, Queued, Stored

\* The acknowledged message leaves the head of the queue.
LEMMA AckEffect ==
  ASSUME BaseInv, Ack, UNCHANGED <<mailbox, client, stops>>
  PROVE  /\ inbox # <<>> /\ inbox' = Tail(inbox)
         /\ Queued = Queued' \cup {msg}
         /\ UNCHANGED <<Mailed, Done, Open, sent, delivered, jobs, results, mailbox, taken>>
<1>1. inbox \in Seq(Messages) /\ inbox # <<>> /\ inbox' = Tail(inbox)
  BY DEF BaseInv, StepInv, TypeInv, TypeOK, HandOK, Ack
<1>2. Queued = {Tail(inbox)[i] : i \in 1..Len(Tail(inbox))} \cup {Head(inbox)}
  BY <1>1, TailIn DEF Queued
<1>3. Queued' = {Tail(inbox)[i] : i \in 1..Len(Tail(inbox))}
  BY <1>1 DEF Queued
<1>4. UNCHANGED <<sent, delivered, jobs, results, mailbox, taken>>
  BY DEF Ack, storage, client
<1> QED
  BY <1>1, <1>2, <1>3, <1>4 DEF Mailed, Done, Open, Stored, msg

\* The stored job becomes the one stored result.
LEMMA CompleteEffect ==
  ASSUME BaseInv, CompleteJob, UNCHANGED <<mailbox, client, stops>>
  PROVE  /\ cur \in Open /\ cur \in Jobs /\ Open' = {} /\ Done' = {cur}
         /\ results' = [results EXCEPT ![JobIdOf[cur]] = [req |-> cur, out |-> out]]
         /\ \A j \in Stored(results)' : results'[j] = [req |-> cur, out |-> out]
         /\ UNCHANGED <<Mailed, Queued, sent, inbox, delivered, mailbox, taken>>
<1>1. TypeOK /\ KeysOK /\ OwnersOK /\ cur \in Jobs /\ out \in Jobs \cup {Bad}
  BY OneIdOneFile DEF BaseInv, StepInv, TypeInv, HandOK, CompleteJob
<1>2. JobIdOf[cur] \in JobIds /\ [req |-> cur, out |-> out] # None /\ cur # None
  BY <1>1, OneIdOneFile, RequestsAssumption, NoneAssumption DEF Result, Messages
<1>3. /\ jobs' = [jobs EXCEPT ![JobIdOf[cur]] = None]
      /\ results' = [results EXCEPT ![JobIdOf[cur]] = [req |-> cur, out |-> out]]
      /\ UNCHANGED <<sent, inbox, delivered, mailbox, taken>>
  BY DEF CompleteJob, broker, client
<1>4. cur \in Open
  BY <1>1, OneStored DEF CompleteJob, OwnersOK
<1>5. \A j \in JobIds : j # JobIdOf[cur] => jobs[j] = None /\ results[j] = None
  BY <1>1, <1>2, <1>4, OneStored, OneIdOneFile DEF Open, Stored, KeysOK
<1>6. \A j \in JobIds :
        /\ jobs'[j] = None
        /\ results'[j] = IF j = JobIdOf[cur] THEN [req |-> cur, out |-> out] ELSE None
  BY <1>1, <1>2, <1>3, <1>5 DEF TypeOK
<1>7. Open' = {} /\ Stored(results)' = {JobIdOf[cur]}
  BY <1>2, <1>6 DEF Open, Stored
<1>8. \A j \in Stored(results)' : results'[j] = [req |-> cur, out |-> out]
  BY <1>2, <1>6, <1>7
<1>9. Done' = {cur}
  BY <1>7, <1>8 DEF Done
<1>10. UNCHANGED <<Mailed, Queued>>
  BY <1>3 DEF Mailed, Queued
<1> QED
  BY <1>1, <1>3, <1>4, <1>7, <1>8, <1>9, <1>10

\* The stored result goes.
LEMMA RemoveEffect ==
  ASSUME BaseInv, RemoveResult, UNCHANGED <<mailbox, client, stops>>
  PROVE  /\ Done' = {} /\ Stored(results)' = {} /\ cur \in Jobs
         /\ JobIdOf[cur] \in Stored(results)
         /\ UNCHANGED <<Mailed, Open, Queued, sent, inbox, delivered, mailbox, taken>>
<1>1. /\ TypeOK /\ KeysOK /\ cur \in Jobs /\ results[JobIdOf[cur]] # None
      /\ JobIdOf[cur] \in JobIds
  BY OneIdOneFile, RequestsAssumption DEF BaseInv, StepInv, TypeInv, HandOK, RemoveResult
<1>2. /\ results' = [results EXCEPT ![JobIdOf[cur]] = None]
      /\ UNCHANGED <<sent, inbox, delivered, jobs, mailbox, taken>>
  BY DEF RemoveResult, broker, client
<1>3. \A j \in JobIds : results'[j] = None
  BY <1>1, <1>2, OneStored DEF Stored, TypeOK
<1>4. Stored(results)' = {}
  BY <1>3 DEF Stored
<1>5. Done' = {}
  BY <1>4 DEF Done
<1> QED
  BY <1>1, <1>2, <1>4, <1>5 DEF Mailed, Open, Queued, Stored

\* A result that is delivered is the stored one.
LEMMA DeliverEffect ==
  ASSUME BaseInv, NEW j \in JobIds, Delivers(j)
  PROVE  /\ results[j].req \in Done /\ results[j].req \in Jobs /\ results[j] \in Result
         /\ Done = {results[j].req}
         /\ Mailed' = Mailed \cup {results[j].req}
         /\ UNCHANGED <<Done, Open, Queued>>
<1>1. /\ TypeOK /\ KeysOK /\ mailbox \in Seq(Result)
      /\ j \in Stored(results) /\ results[j] \in Result /\ results[j].req \in Jobs
  BY OneIdOneFile
  DEF BaseInv, StepInv, TypeInv, ClientType, ClientTypeOK, Delivers, Result
<1>2. mailbox' = Append(mailbox, results[j]) /\ UNCHANGED <<jobs, results, inbox>>
  BY DEF Delivers
<1>3. Done = {results[j].req}
  BY <1>1, OneStored, OneIdOneFile DEF Done
<1>4. {Append(mailbox, results[j])[i].req : i \in 1..Len(Append(mailbox, results[j]))}
        = Mailed \cup {results[j].req}
  BY <1>1, AppendProperties, LenProperties DEF Mailed
<1>5. Mailed' = Mailed \cup {results[j].req}
  BY <1>2, <1>4 DEF Mailed
<1> QED
  BY <1>1, <1>2, <1>3, <1>5 DEF Done, Open, Queued, Stored

\* The client takes or drops what is at the head of its queue.
LEMMA TakeEffect ==
  ASSUME BaseInv, TakeAnswer \/ DiscardAnswer
  PROVE  /\ cpc = "wait" /\ mailbox # <<>> /\ mailbox' = Tail(mailbox)
         /\ Head(mailbox) \in Result
         /\ \E i \in 1..Len(mailbox) : mailbox[i] = Head(mailbox)
         /\ \A i \in 1..Len(mailbox') : \E k \in 1..Len(mailbox) : mailbox[k] = mailbox'[i]
         /\ Mailed = Mailed' \cup {Head(mailbox).req}
         /\ UNCHANGED <<vars, Done, Open, Queued, stops>>
<1>1. /\ mailbox \in Seq(Result) /\ mailbox # <<>> /\ mailbox' = Tail(mailbox)
      /\ UNCHANGED <<vars, stops>>
  BY DEF BaseInv, ClientType, ClientTypeOK, TakeAnswer, DiscardAnswer
<1>2. Head(mailbox) \in Result
      /\ \A x : (\E i \in 1..Len(mailbox) : mailbox[i] = x)
                <=> (\E i \in 1..Len(Tail(mailbox)) : Tail(mailbox)[i] = x) \/ x = Head(mailbox)
  BY <1>1, TailIn
<1>3. \A i \in 1..Len(mailbox') : \E k \in 1..Len(mailbox) : mailbox[k] = mailbox'[i]
  <2>1. \A i \in 1..Len(Tail(mailbox)) : \E k \in 1..Len(mailbox) : mailbox[k] = Tail(mailbox)[i]
    BY <1>2
  <2> QED
    BY <1>1, <2>1
<1>4. {mailbox[i].req : i \in 1..Len(mailbox)}
        = {Tail(mailbox)[i].req : i \in 1..Len(Tail(mailbox))} \cup {Head(mailbox).req}
  <2>1. \A i \in 1..Len(mailbox) :
          \/ \E k \in 1..Len(Tail(mailbox)) : Tail(mailbox)[k] = mailbox[i]
          \/ mailbox[i] = Head(mailbox)
    BY <1>2
  <2>2. \A i \in 1..Len(Tail(mailbox)) : \E k \in 1..Len(mailbox) : mailbox[k] = Tail(mailbox)[i]
    BY <1>2
  <2>3. \E k \in 1..Len(mailbox) : mailbox[k] = Head(mailbox)
    BY <1>2
  <2>4. \A i \in 1..Len(mailbox) :
          \/ \E k \in 1..Len(Tail(mailbox)) : Tail(mailbox)[k].req = mailbox[i].req
          \/ mailbox[i].req = Head(mailbox).req
    BY <2>1
  <2>5. \A i \in 1..Len(Tail(mailbox)) :
          \E k \in 1..Len(mailbox) : mailbox[k].req = Tail(mailbox)[i].req
    BY <2>2
  <2>6. \E k \in 1..Len(mailbox) : mailbox[k].req = Head(mailbox).req
    BY <2>3
  <2> DEFINE A == {mailbox[i].req : i \in 1..Len(mailbox)}
             B == {Tail(mailbox)[i].req : i \in 1..Len(Tail(mailbox))}
  <2>7. \A x \in A : x \in B \/ x = Head(mailbox).req
    BY <2>4
  <2>8. B \subseteq A
    BY <2>5
  <2>9. Head(mailbox).req \in A
    BY <2>6
  <2> HIDE DEF A, B
  <2>10. A = B \cup {Head(mailbox).req}
    BY <2>7, <2>8, <2>9
  <2> QED
    BY <2>10 DEF A, B
<1>5. Mailed = Mailed' \cup {Head(mailbox).req}
  BY <1>1, <1>4 DEF Mailed
<1>6. UNCHANGED <<Done, Open, Queued>>
  BY <1>1 DEF vars, broker, storage, Done, Open, Queued, Stored
<1> QED
  BY <1>1, <1>2, <1>3, <1>5, <1>6 DEF TakeAnswer, DiscardAnswer, Waiting

-----------------------------------------------------------------------------
(* Answers come in order *)

FlowInv == BaseInv /\ OrderOK /\ WindowOK /\ TakenOK

Flowing == Mailed \cup Done \cup Open \cup Queued

\* Where a job that is on its way stands.
LEMMA InWindow ==
  ASSUME BaseInv, WindowOK, NEW r \in Flowing
  PROVE  /\ r \in Jobs /\ r \in sent
         /\ Len(taken) \in Nat /\ Place[r] \in 1..Len(Challenge) /\ r = Challenge[Place[r]]
         /\ Place[r] = Len(taken) \/ Place[r] = Len(taken) + 1
<1>1. r \in Jobs /\ r \in sent /\ Len(taken) <= Place[r] /\ Place[r] <= Len(taken) + 1
  BY DEF WindowOK, Flowing
<1>2. Len(taken) \in Nat
  BY LenProperties DEF BaseInv, ClientType, ClientTypeOK
<1>3. Place[r] \in 1..Len(Challenge) /\ r = Challenge[Place[r]] /\ Len(Challenge) \in Nat
  BY <1>1, Places, ChallengeOrder
<1> QED
  BY <1>1, <1>2, <1>3

\* What the client takes is the result of the job it waits for.
LEMMA TakesCurrent ==
  ASSUME BaseInv, WindowOK, TakenOK, TakeAnswer
  PROVE  /\ Head(mailbox).req = current /\ Place[current] = Len(taken) + 1
         /\ Head(mailbox) \in delivered /\ Head(mailbox).out # Bad
         /\ taken \in Seq(Result) /\ Head(mailbox) \in Result
         /\ taken' = Append(taken, Head(mailbox)) /\ Len(taken') = Len(taken) + 1
         /\ Len(taken) \in Nat /\ current \in Jobs
<1> DEFINE m == Head(mailbox)
<1>1. m \in Result /\ m \in delivered /\ m.req \in Mailed
  BY TakeEffect DEF TakenOK
<1>2. m.out # Bad /\ TypeOf[m.out] = TypeOf[current] /\ taken' = Append(taken, m)
  BY DEF TakeAnswer, Expected
<1>3. /\ current \in Jobs /\ current = Challenge[Len(taken) + 1]
      /\ Place[current] = Len(taken) + 1 /\ Len(taken) \in Nat
      /\ Len(taken) + 1 \in 1..Len(Challenge)
  BY CurrentJob DEF BaseInv, TakeAnswer, Waiting
<1>4. TypeOf[m.out] = TypeOf[m.req]
  BY <1>1, <1>2 DEF BaseInv, OutcomeOK, AnswerHasItsType, Answers
<1>5. /\ m.req \in Jobs /\ m.req = Challenge[Place[m.req]] /\ Place[m.req] \in 1..Len(Challenge)
      /\ Place[m.req] = Len(taken) \/ Place[m.req] = Len(taken) + 1
  BY <1>1, InWindow DEF Flowing
<1>6. m.req.kind = current.kind
  BY <1>2, <1>3, <1>4, <1>5, OneIdOneFile
<1>7. Place[m.req] = Len(taken) + 1
  <2>1. Place[m.req] = Len(taken) => Challenge[Place[m.req]].kind # Challenge[Len(taken) + 1].kind
    BY <1>3, <1>5, ChallengeOrder
  <2> QED
    BY <1>3, <1>5, <1>6, <2>1
<1>8. m.req = current
  BY <1>3, <1>5, <1>7
<1>9. taken \in Seq(Result)
  BY DEF BaseInv, ClientType, ClientTypeOK
<1>10. Len(taken') = Len(taken) + 1
  BY <1>1, <1>2, <1>9, AppendProperties
<1> QED
  BY <1>1, <1>2, <1>3, <1>8, <1>9, <1>10

\* Nothing older than what the client takes is left behind it.
LEMMA NothingOlder ==
  ASSUME FlowInv, TakeAnswer
  PROVE  \A r \in Flowing : Place[r] >= Len(taken) + 1
<1> USE DEF FlowInv
<1>1. /\ Head(mailbox).req = current /\ Place[current] = Len(taken) + 1
      /\ Len(taken) \in Nat
  BY TakesCurrent
<1>2. /\ mailbox # <<>> /\ \E i \in 1..Len(mailbox) : mailbox[i] = Head(mailbox)
  BY TakeEffect
<1>3. mailbox \in Seq(Result)
  BY DEF BaseInv, ClientType, ClientTypeOK
<1>4. \A i \in 1..Len(mailbox) : ResultAt[Head(mailbox)] <= ResultAt[mailbox[i]]
  BY <1>2, <1>3, TailSorted DEF OrderOK
<1>5. \A i \in 1..Len(mailbox) : mailbox[i] \in Result
  BY <1>3, ElementOfSeq
<1>6. ASSUME NEW i \in 1..Len(mailbox) PROVE Place[mailbox[i].req] >= Len(taken) + 1
  <2>1. /\ ResultAt[mailbox[i]] = Place[mailbox[i].req]
        /\ ResultAt[Head(mailbox)] = Place[Head(mailbox).req]
    BY <1>2, <1>5 DEF ResultAt
  <2>2. Place[mailbox[i].req] \in Nat
    BY <1>5, Places, OneIdOneFile DEF Result
  <2> QED
    BY <1>1, <1>4, <2>1, <2>2
<1>7. current \in Mailed
  BY <1>1, <1>2 DEF Mailed
<1>8. \A r \in Done \cup Open \cup Queued : Place[current] <= Place[r]
  BY <1>7 DEF OrderOK, Behind
<1>9. \A r \in Flowing : Place[r] \in Nat
  BY InWindow
<1> QED
  BY <1>1, <1>6, <1>8, <1>9 DEF Flowing, Mailed

LEMMA WindowStep ==
  ASSUME FlowInv, [ClientNext]_cvars
  PROVE  WindowOK'
<1> USE DEF FlowInv
<1>1. TypeOK /\ HandOK
  BY DEF BaseInv, StepInv, TypeInv
<1>2. Len(taken) \in Nat /\ \A r \in Jobs : Place[r] \in Nat
  BY LenProperties, Places DEF BaseInv, ClientType, ClientTypeOK
<1> SUFFICES /\ \A r \in sent' : r \in Jobs /\ Place[r] <= Len(taken') + 1
             /\ Flowing' \subseteq sent'
             /\ \A r \in Flowing' : Len(taken') <= Place[r]
  BY DEF WindowOK, Flowing
<1>3. /\ \A r \in sent : r \in Jobs /\ Place[r] <= Len(taken) + 1
      /\ Flowing \subseteq sent
      /\ \A r \in Flowing : Len(taken) <= Place[r]
  BY DEF WindowOK, Flowing
<1>4. CASE SendJob
  <2>1. Flowing' = Flowing \cup {current}
    BY <1>4, SendEffect DEF Flowing
  <2> QED
    BY <1>2, <1>3, <1>4, <2>1, SendEffect
<1>5. CASE AcceptJob /\ UNCHANGED <<mailbox, client, stops>>
  <2>1. Flowing' \subseteq Flowing /\ UNCHANGED <<sent, taken>>
    BY <1>5, AcceptEffect DEF Flowing
  <2> QED
    BY <1>3, <2>1
<1>6. CASE Ack /\ UNCHANGED <<mailbox, client, stops>>
  <2>1. Flowing' \subseteq Flowing /\ UNCHANGED <<sent, taken>>
    BY <1>6, AckEffect DEF Flowing
  <2> QED
    BY <1>3, <2>1
<1>7. CASE CompleteJob /\ UNCHANGED <<mailbox, client, stops>>
  <2>1. Flowing' \subseteq Flowing /\ UNCHANGED <<sent, taken>>
    BY <1>7, CompleteEffect DEF Flowing
  <2> QED
    BY <1>3, <2>1
<1>8. CASE RemoveResult /\ UNCHANGED <<mailbox, client, stops>>
  <2>1. Flowing' \subseteq Flowing /\ UNCHANGED <<sent, taken>>
    BY <1>8, RemoveEffect DEF Flowing
  <2> QED
    BY <1>3, <2>1
<1>9. ASSUME NEW j \in JobIds, Delivers(j) PROVE WindowOK'
  <2>1. Flowing' = Flowing /\ UNCHANGED <<sent, taken>>
    BY <1>9, DeliverEffect DEF Flowing, Delivers, client
  <2> QED
    BY <1>3, <2>1 DEF WindowOK, Flowing
<1>10. CASE TakeAnswer
  <2>1. Flowing' \subseteq Flowing /\ sent' = sent
    BY <1>10, TakeEffect DEF Flowing, vars, broker
  <2>2. Len(taken') = Len(taken) + 1 /\ \A r \in Flowing : Place[r] >= Len(taken) + 1
    BY <1>10, TakesCurrent, NothingOlder
  <2> QED
    BY <1>2, <1>3, <2>1, <2>2
<1>11. CASE DiscardAnswer
  <2>1. Flowing' \subseteq Flowing /\ sent' = sent /\ taken' = taken
    BY <1>11, TakeEffect DEF Flowing, vars, broker, DiscardAnswer
  <2> QED
    BY <1>3, <2>1
<1>12. CASE Quiet
  <2>1. Flowing' = Flowing /\ UNCHANGED <<sent, taken>>
    BY <1>12 DEF Quiet, flow, Flowing, Mailed, Done, Open, Queued, Stored
  <2> QED
    BY <1>3, <2>1
<1>13. WindowOK' => /\ Flowing' \subseteq sent'
                    /\ \A r \in sent' : r \in Jobs /\ Place[r] <= Len(taken') + 1
  BY DEF WindowOK, Flowing
<1>14. WindowOK' => \A r \in Flowing' : Len(taken') <= Place[r]
  BY DEF WindowOK, Flowing
<1> QED
  BY <1>1, <1>4, <1>5, <1>6, <1>7, <1>8, <1>9, <1>10, <1>11, <1>12, <1>13, <1>14,
     FlowSteps DEF FlowNext

LEMMA TakenStep ==
  ASSUME FlowInv, [ClientNext]_cvars
  PROVE  TakenOK'
<1> USE DEF FlowInv
<1>1. /\ TypeOK /\ HandOK /\ mailbox \in Seq(Result)
  BY DEF BaseInv, StepInv, TypeInv, ClientType, ClientTypeOK
<1>2. CASE SendJob
  BY <1>2, SendEffect DEF TakenOK, AnswersInOrder
<1>3. CASE AcceptJob /\ UNCHANGED <<mailbox, client, stops>>
  BY <1>3, AcceptEffect DEF TakenOK, AnswersInOrder
<1>4. CASE Ack /\ UNCHANGED <<mailbox, client, stops>>
  BY <1>4, AckEffect DEF TakenOK, AnswersInOrder
<1>5. CASE CompleteJob /\ UNCHANGED <<mailbox, client, stops>>
  BY <1>5, CompleteEffect DEF TakenOK, AnswersInOrder
<1>6. CASE RemoveResult /\ UNCHANGED <<mailbox, client, stops>>
  BY <1>6, RemoveEffect DEF TakenOK, AnswersInOrder
<1>7. ASSUME NEW j \in JobIds, Delivers(j) PROVE TakenOK'
  <2>1. /\ results[j].req \in Done /\ results[j] \in Result
        /\ delivered' = delivered \cup {results[j]} /\ mailbox' = Append(mailbox, results[j])
        /\ UNCHANGED <<sent, taken>>
    BY <1>7, DeliverEffect DEF Delivers, client
  <2>2. results[j].req \in sent
    BY <2>1 DEF WindowOK
  <2>3. \A i \in 1..Len(Append(mailbox, results[j])) : Append(mailbox, results[j])[i] \in delivered'
    <3>1. \A x : (\E i \in 1..Len(Append(mailbox, results[j])) : Append(mailbox, results[j])[i] = x)
                   <=> (\E i \in 1..Len(mailbox) : mailbox[i] = x) \/ x = results[j]
      BY <1>1, <2>1, AppendedIn
    <3> QED
      BY <2>1, <3>1 DEF TakenOK
  <2>4. \A i \in 1..Len(mailbox') : mailbox'[i] \in delivered'
    BY <2>1, <2>3
  <2> QED
    BY <2>1, <2>2, <2>4 DEF TakenOK, AnswersInOrder
<1>8. CASE TakeAnswer
  <2>1. /\ mailbox' = Tail(mailbox) /\ UNCHANGED <<delivered, sent>>
        /\ \A i \in 1..Len(mailbox') : \E k \in 1..Len(mailbox) : mailbox[k] = mailbox'[i]
    BY <1>8, TakeEffect DEF vars, broker
  <2>2. /\ taken \in Seq(Result) /\ Head(mailbox) \in Result
        /\ taken' = Append(taken, Head(mailbox)) /\ Len(taken) \in Nat
        /\ Head(mailbox) \in delivered /\ Head(mailbox).out # Bad
        /\ Head(mailbox).req = Challenge[Len(taken) + 1]
    <3>1. current = Challenge[Len(taken) + 1]
      BY DEF current
    <3> QED
      BY <1>8, <3>1, TakesCurrent
  <2>3. \A i \in 1..Len(Append(taken, Head(mailbox))) :
          \/ i \in 1..Len(taken) /\ Append(taken, Head(mailbox))[i] = taken[i]
          \/ i = Len(taken) + 1 /\ Append(taken, Head(mailbox))[i] = Head(mailbox)
    BY <2>2, AppendProperties
  <2>4. \A i \in 1..Len(Append(taken, Head(mailbox))) :
          LET t == Append(taken, Head(mailbox))[i]
          IN t \in delivered /\ t.out # Bad /\ t.req = Challenge[i]
    BY <2>2, <2>3 DEF TakenOK, AnswersInOrder
  <2>5. \A i \in 1..Len(taken') :
          taken'[i] \in delivered /\ taken'[i].out # Bad /\ taken'[i].req = Challenge[i]
    BY <2>2, <2>4
  <2>6. \A i \in 1..Len(mailbox') : mailbox'[i] \in delivered
    BY <2>1 DEF TakenOK
  <2> QED
    BY <2>1, <2>5, <2>6 DEF TakenOK, AnswersInOrder
<1>9. CASE DiscardAnswer
  <2>1. /\ UNCHANGED <<delivered, sent, taken>>
        /\ \A i \in 1..Len(mailbox') : \E k \in 1..Len(mailbox) : mailbox[k] = mailbox'[i]
    BY <1>9, TakeEffect DEF vars, broker, DiscardAnswer
  <2> QED
    BY <2>1 DEF TakenOK, AnswersInOrder
<1>10. CASE Quiet
  BY <1>10 DEF Quiet, flow, TakenOK, AnswersInOrder
<1> QED
  BY <1>1, <1>2, <1>3, <1>4, <1>5, <1>6, <1>7, <1>8, <1>9, <1>10, FlowSteps DEF FlowNext

\* The queue holds jobs only.
LEMMA QueueOfJobs ==
  ASSUME BaseInv, WindowOK
  PROVE  inbox \in Seq(Jobs)
<1>1. inbox \in Seq(Messages)
  BY DEF BaseInv, StepInv, TypeInv, TypeOK
<1>2. \A i \in 1..Len(inbox) : inbox[i] \in Jobs
  BY InWindow DEF Flowing, Queued
<1>3. Len(inbox) \in Nat /\ inbox \in [1..Len(inbox) -> Jobs]
  BY <1>1, <1>2, LenProperties
<1> QED
  BY <1>3, SeqDef

LEMMA OrderStep ==
  ASSUME FlowInv, [ClientNext]_cvars
  PROVE  OrderOK'
<1> USE DEF FlowInv
<1>1. TypeOK /\ HandOK /\ mailbox \in Seq(Result) /\ inbox \in Seq(Jobs)
  BY QueueOfJobs DEF BaseInv, StepInv, TypeInv, ClientType, ClientTypeOK
<1>2. \A r \in Flowing : Place[r] \in Nat /\ Place[r] <= Place[r] /\ Place[r] <= Len(taken) + 1
  <2>1. \A r \in Flowing : Place[r] \in Nat /\ Place[r] <= Len(taken) + 1
    BY InWindow
  <2> QED
    BY <2>1
<1>3. CASE SendJob
  <2>1. /\ current \in Jobs /\ Place[current] = Len(taken) + 1
        /\ inbox' = Append(inbox, current) /\ Queued' = Queued \cup {current}
        /\ UNCHANGED <<Mailed, Done, Open, mailbox>>
    BY <1>3, SendEffect
  <2>2. \A r \in Flowing : Place[r] <= Place[current]
    BY <1>2, <2>1
  <2>3. \A i \in 1..Len(inbox) : Place[inbox[i]] <= Place[current]
    BY <2>2 DEF Flowing, Queued
  <2>4. Sorted(Append(inbox, current), Place)
    BY <1>1, <2>1, <2>3, AppendSorted, Places DEF OrderOK
  <2> QED
    BY <2>1, <2>2, <2>4 DEF OrderOK, Behind, Flowing
<1>4. CASE AcceptJob /\ UNCHANGED <<mailbox, client, stops>>
  <2>1. /\ msg \in Queued /\ Open' = {msg}
        /\ UNCHANGED <<Mailed, Done, Queued, inbox, mailbox>>
    BY <1>4, AcceptEffect
  <2>2. \A r \in Queued : Place[msg] <= Place[r]
    <3>1. inbox # <<>>
      BY <1>4 DEF AcceptJob
    <3>2. \A i \in 1..Len(inbox) : Place[Head(inbox)] <= Place[inbox[i]]
      BY <1>1, <3>1, TailSorted DEF OrderOK
    <3> QED
      BY <3>2 DEF Queued, msg
  <2> QED
    BY <2>1, <2>2 DEF OrderOK, Behind
<1>5. CASE Ack /\ UNCHANGED <<mailbox, client, stops>>
  <2>1. /\ inbox # <<>> /\ inbox' = Tail(inbox) /\ Queued' \subseteq Queued
        /\ UNCHANGED <<Mailed, Done, Open, mailbox>>
    BY <1>5, AckEffect
  <2>2. Sorted(Tail(inbox), Place)
    BY <1>1, <2>1, TailSorted DEF OrderOK
  <2> QED
    BY <2>1, <2>2 DEF OrderOK, Behind
<1>6. CASE CompleteJob /\ UNCHANGED <<mailbox, client, stops>>
  BY <1>6, CompleteEffect DEF OrderOK, Behind
<1>7. CASE RemoveResult /\ UNCHANGED <<mailbox, client, stops>>
  BY <1>7, RemoveEffect DEF OrderOK, Behind
<1>8. ASSUME NEW j \in JobIds, Delivers(j) PROVE OrderOK'
  <2> DEFINE q == results[j].req
  <2>1. /\ q \in Done /\ results[j] \in Result
        /\ Done = {q} /\ Mailed' = Mailed \cup {q}
        /\ mailbox' = Append(mailbox, results[j])
        /\ UNCHANGED <<Done, Open, Queued, inbox>>
    BY <1>8, DeliverEffect DEF Delivers
  <2>2. \A r \in Mailed : Place[r] <= Place[q]
    BY <2>1 DEF OrderOK, Behind
  <2>3. \A i \in 1..Len(mailbox) : ResultAt[mailbox[i]] <= ResultAt[results[j]]
    <3>1. \A i \in 1..Len(mailbox) : mailbox[i] \in Result /\ mailbox[i].req \in Mailed
      BY <1>1, ElementOfSeq DEF Mailed
    <3> QED
      BY <2>1, <2>2, <3>1 DEF ResultAt
  <2>4. Sorted(Append(mailbox, results[j]), ResultAt)
    BY <1>1, <2>1, <2>3, AppendSorted, Places DEF OrderOK
  <2>5. Place[q] <= Place[q]
    BY <1>2, <2>1 DEF Flowing
  <2> QED
    BY <2>1, <2>4, <2>5 DEF OrderOK, Behind
<1>9. CASE TakeAnswer \/ DiscardAnswer
  <2>1. /\ mailbox # <<>> /\ mailbox' = Tail(mailbox) /\ Mailed' \subseteq Mailed
        /\ UNCHANGED <<Done, Open, Queued, inbox>>
    BY <1>9, TakeEffect DEF vars, broker
  <2>2. Sorted(Tail(mailbox), ResultAt)
    BY <1>1, <2>1, TailSorted DEF OrderOK
  <2> QED
    BY <2>1, <2>2 DEF OrderOK, Behind
<1>10. CASE Quiet
  BY <1>10 DEF Quiet, flow, OrderOK, Behind, Mailed, Done, Open, Queued, Stored
<1> QED
  BY <1>1, <1>3, <1>4, <1>5, <1>6, <1>7, <1>8, <1>9, <1>10, FlowSteps DEF FlowNext

LEMMA FlowInvariant == ClientSpec => []FlowInv
<1>1. ClientInit => OrderOK /\ WindowOK /\ TakenOK
  <2> SUFFICES ASSUME ClientInit PROVE OrderOK /\ WindowOK /\ TakenOK
    OBVIOUS
  <2>1. inbox = <<>> /\ mailbox = <<>> /\ taken = <<>> /\ sent = {} /\ delivered = {}
        /\ \A j \in JobIds : jobs[j] = None /\ results[j] = None
    BY DEF ClientInit, Init
  <2>2. Mailed = {} /\ Done = {} /\ Open = {} /\ Queued = {}
    BY <2>1 DEF Mailed, Done, Open, Queued, Stored
  <2> QED
    BY <2>1, <2>2 DEF OrderOK, WindowOK, TakenOK, AnswersInOrder, Behind, Sorted
<1>2. BaseInv /\ OrderOK /\ WindowOK /\ TakenOK /\ [ClientNext]_cvars
        => OrderOK' /\ WindowOK' /\ TakenOK'
  BY OrderStep, WindowStep, TakenStep DEF FlowInv
<1>3. BaseInv /\ OrderOK /\ WindowOK /\ TakenOK <=> FlowInv
  BY DEF FlowInv
<1> QED
  BY <1>1, <1>2, <1>3, BaseInvariant, PTL DEF ClientSpec

\* Every result the client takes answers the job it had sent for that stage, for
\* searches of every size and arity and any number of crashes and stops.
THEOREM InOrder == ClientSpec => []AnswersInOrder
<1>1. FlowInv => AnswersInOrder
  BY DEF FlowInv, TakenOK
<1> QED
  BY <1>1, FlowInvariant, PTL

\* Two jobs on one checkpoint are never queued or stored together, for searches
\* of every size and any number of crashes and stops.
THEOREM Patient == ClientSpec => []PatientOnBase
<1>1. FlowInv => PatientOnBase
  <2> SUFFICES ASSUME FlowInv, NEW q \in sent, NEW r \in sent, q # r, BaseOf(q) = BaseOf(r),
                      InInbox(q) \/ jobs[JobIdOf[q]] = q, InInbox(r) \/ jobs[JobIdOf[r]] = r
               PROVE  FALSE
    BY DEF PatientOnBase
  <2>1. TypeOK /\ KeysOK /\ q \in Jobs /\ r \in Jobs
    BY DEF FlowInv, BaseInv, StepInv, TypeInv, WindowOK
  <2>2. q \in Flowing /\ r \in Flowing
    BY <2>1, OneStored DEF Flowing, Queued, InInbox
  <2>3. \/ Place[q] = Place[r] + 1 \/ Place[r] = Place[q] + 1 \/ Place[q] = Place[r]
    BY <2>2, InWindow DEF FlowInv
  <2>4. /\ q = Challenge[Place[q]] /\ Place[q] \in 1..Len(Challenge)
        /\ r = Challenge[Place[r]] /\ Place[r] \in 1..Len(Challenge)
    BY <2>1, Places
  <2> QED
    BY <2>3, <2>4, ChallengeOrder
<1> QED
  BY <1>1, FlowInvariant, PTL

-----------------------------------------------------------------------------
(* No answer is missed *)

LEMMA NoCrashBefore ==
  ASSUME ClientType, TypeOK, [ClientNext]_cvars, crashes' = 0
  PROVE  crashes = 0
<1> USE DEF broker, storage, system, locals
<1>1. CASE Stop
  BY <1>1 DEF Stop
<1>2. CASE UNCHANGED vars
  BY <1>2 DEF vars
<1>3. CASE Dispatcher
  BY <1>3 DEF Dispatcher, RestoreJob, RestoreFails, EndRestore, GetNothing, GetMessage, AnswerPing,
     DropJunk, SkipJob, AcceptJob, SpawnJob, SpawnFails, Ack, KeepWorker, CollectWorker, WaitFails,
     CommitCheckpoint, CompleteJob, StartSending, SendResult, SendFails, RemoveResult, EndTick
<1>4. CASE Crash
  BY <1>4 DEF Crash, TypeOK
<1>5. CASE \/ \E m \in Messages : Submit(m)
           \/ \E r \in JobRequests : WorkerWrites(r)
           \/ \E p \in Pids : WorkerExits(p)
           \/ Restart
  BY <1>5 DEF Submit, WorkerWrites, WorkerExits, Restart
<1> QED
  BY <1>1, <1>2, <1>3, <1>4, <1>5, DispatcherSteps DEF Next

\* What is on its way and is not the client's current job was answered.
LEMMA PastIsTaken ==
  ASSUME FlowInv, NEW r \in Flowing, Place[r] = Len(taken)
  PROVE  \E i \in 1..Len(taken) : taken[i].req = r /\ taken[i] \in delivered
<1>1. Len(taken) \in 1..Len(taken) /\ r = Challenge[Len(taken)]
  BY InWindow DEF FlowInv
<1>2. taken[Len(taken)].req = Challenge[Len(taken)] /\ taken[Len(taken)] \in delivered
  BY <1>1 DEF FlowInv, TakenOK, AnswersInOrder
<1> QED
  BY <1>1, <1>2

\* Without a crash, what is queued or stored is the job the client is at.
LEMMA StillToDo ==
  ASSUME FlowInv, HandledOnce, crashes = 0, NEW r \in Open \cup Queued
  PROVE  r \in Jobs /\ Place[r] = Len(taken) + 1 /\ r = Challenge[Len(taken) + 1]
<1>1. r \in Flowing
  BY DEF Flowing
<1>2. Place[r] # Len(taken)
  BY <1>1, PastIsTaken DEF HandledOnce
<1> QED
  BY <1>1, <1>2, InWindow DEF FlowInv

\* What the client was told it does not forget.
LEMMA ToldStays ==
  ASSUME FlowInv, [ClientNext]_cvars, NEW r, Told(r)
  PROVE  Told(r)'
<1>1. /\ BaseInv /\ WindowOK /\ TakenOK /\ TypeOK /\ HandOK /\ OutcomeOK
      /\ mailbox \in Seq(Result) /\ taken \in Seq(Result)
  BY DEF FlowInv, BaseInv, StepInv, TypeInv, ClientType, ClientTypeOK
<1>2. CASE UNCHANGED <<taken, Mailed>> /\ delivered \subseteq delivered'
  BY <1>2 DEF Told
<1>3. CASE SendJob
  BY <1>1, <1>2, <1>3, SendEffect
<1>4. CASE (AcceptJob \/ Ack \/ CompleteJob \/ RemoveResult) /\ UNCHANGED <<mailbox, client, stops>>
  BY <1>1, <1>2, <1>4, AcceptEffect, AckEffect, CompleteEffect, RemoveEffect
<1>5. ASSUME NEW j \in JobIds, Delivers(j) PROVE Told(r)'
  <2>1. taken' = taken /\ Mailed \subseteq Mailed' /\ delivered \subseteq delivered'
    BY <1>1, <1>5, DeliverEffect DEF Delivers, client
  <2> QED
    BY <2>1 DEF Told
<1>6. CASE Quiet
  BY <1>2, <1>6 DEF Quiet, flow, Mailed
<1>7. CASE TakeAnswer
  <2>1. Mailed = Mailed' \cup {Head(mailbox).req} /\ delivered' = delivered
    BY <1>1, <1>7, TakeEffect DEF vars, broker
  <2>2. /\ taken' = Append(taken, Head(mailbox))
        /\ taken \in Seq(Result) /\ Head(mailbox) \in Result
    BY <1>1, <1>7, TakesCurrent
  <2>3. \A x : (\E i \in 1..Len(Append(taken, Head(mailbox))) : Append(taken, Head(mailbox))[i] = x)
                 <=> (\E i \in 1..Len(taken) : taken[i] = x) \/ x = Head(mailbox)
    BY ONLY <2>2, AppendedIn
  <2>4. \A x : (\E i \in 1..Len(taken) : taken[i] = x) \/ x = Head(mailbox)
                 => \E i \in 1..Len(taken') : taken'[i] = x
    BY <2>2, <2>3
  <2>5. \A x : (\E i \in 1..Len(taken) : taken[i].req = x) \/ x = Head(mailbox).req
                 => \E i \in 1..Len(taken') : taken'[i].req = x
    BY <2>4
  <2> QED
    BY <2>1, <2>5 DEF Told
<1>8. CASE DiscardAnswer
  <2>1. /\ Mailed = Mailed' \cup {Head(mailbox).req} /\ UNCHANGED <<delivered, taken>>
        /\ Head(mailbox) \in Result /\ Head(mailbox) \in delivered /\ Head(mailbox).req \in Mailed
        /\ cpc = "wait" /\ ~Expected(Head(mailbox))
    BY <1>1, <1>8, TakeEffect DEF vars, broker, DiscardAnswer, TakenOK
  <2>2. CASE Head(mailbox).out = Bad
    <3>1. [req |-> Head(mailbox).req, out |-> Bad] \in delivered
      BY <2>1, <2>2 DEF Result
    <3> QED
      BY <2>1, <3>1 DEF Told
  <2>3. CASE Head(mailbox).out # Bad
    <3>1. TypeOf[Head(mailbox).out] = TypeOf[Head(mailbox).req]
      BY <1>1, <2>1, <2>3 DEF OutcomeOK, AnswerHasItsType, Answers
    <3>2. Head(mailbox).req # Challenge[Len(taken) + 1]
      BY <2>1, <2>3, <3>1 DEF Expected, current
    <3>3. Head(mailbox).req \in Flowing
      BY <2>1 DEF Flowing
    <3>4. Place[Head(mailbox).req] = Len(taken)
      BY <1>1, <3>2, <3>3, InWindow
    <3>5. \E i \in 1..Len(taken) : taken[i].req = Head(mailbox).req
      BY <3>3, <3>4, PastIsTaken
    <3> QED
      BY <2>1, <3>5 DEF Told
  <2> QED
    BY <2>2, <2>3
<1> QED
  BY <1>1, <1>3, <1>4, <1>5, <1>6, <1>7, <1>8, FlowSteps DEF FlowNext

LEMMA HandledOnceStep ==
  ASSUME FlowInv, HandledOnce, [ClientNext]_cvars
  PROVE  HandledOnce'
<1> SUFFICES ASSUME crashes' = 0 PROVE HandledOnce'
  BY DEF HandledOnce
<1>1. /\ BaseInv /\ WindowOK /\ TakenOK /\ TypeOK /\ HandOK /\ KeysOK /\ ClientType
      /\ inbox \in Seq(Jobs)
  BY QueueOfJobs DEF FlowInv, BaseInv, StepInv, TypeInv
<1>2. crashes = 0
  BY <1>1, NoCrashBefore
<1>3. /\ Once(inbox)
      /\ Open \cap Queued # {} => pc \in {"spawn", "ack"}
      /\ pc \in {"spawn", "ack"} => jobs[JobIdOf[msg]] = msg
      /\ \A d \in delivered : d.req \notin Open \cup Queued
      /\ Done \cap (Open \cup Queued) = {}
      /\ pc = "remove" => results[JobIdOf[cur]].req = cur /\ Told(cur)
  BY <1>2 DEF HandledOnce
<1>4. pc \in {"spawn", "ack"} => inbox # <<>>
  BY <1>1 DEF HandOK
<1>5. CASE SendJob
  <2>1. /\ current \in Jobs /\ current \notin sent
        /\ inbox' = Append(inbox, current) /\ Queued' = Queued \cup {current}
        /\ UNCHANGED <<Done, Open, delivered>>
    BY <1>1, <1>5, SendEffect
  <2>2. UNCHANGED <<pc, cur, jobs, results>>
    BY <1>5 DEF SendJob, Submit, storage, locals
  <2>3. current \notin Done \cup Open \cup Queued /\ \A d \in delivered : d.req # current
    BY <1>1, <2>1 DEF WindowOK, TakenOK
  <2>4. Once(Append(inbox, current)) /\ (inbox # <<>> => Head(Append(inbox, current)) = Head(inbox))
    <3>1. \A i \in 1..Len(inbox) : inbox[i] # current
      BY <2>3 DEF Queued
    <3> QED
      BY <1>1, <1>3, <2>1, <3>1, AppendOnce, AppendedIn
  <2>5. Once(inbox)' /\ (pc \in {"spawn", "ack"} => msg' = msg)
    BY <1>4, <2>1, <2>4 DEF Once, msg
  <2>6. \A r : Told(r) => Told(r)'
    BY ToldStays
  <2> QED
    BY <1>3, <2>1, <2>2, <2>3, <2>5, <2>6 DEF HandledOnce, Told
<1>6. CASE AcceptJob /\ UNCHANGED <<mailbox, client, stops>>
  <2>1. /\ msg \in Queued /\ msg \in Jobs /\ Open' = {msg}
        /\ UNCHANGED <<Done, Queued, inbox, delivered>>
    BY <1>1, <1>6, AcceptEffect
  <2>2. pc' = "spawn" /\ msg' = msg /\ jobs'[JobIdOf[msg]] = msg
    BY <1>1, <1>6, <2>1, OneStored, RequestsAssumption, OneIdOneFile
    DEF AcceptJob, msg, TypeOK, broker
  <2> QED
    BY <1>3, <2>1, <2>2 DEF HandledOnce, Once
<1>7. CASE Ack /\ UNCHANGED <<mailbox, client, stops>>
  <2>1. /\ inbox # <<>> /\ inbox' = Tail(inbox) /\ Queued = Queued' \cup {msg}
        /\ UNCHANGED <<Done, Open, delivered>>
    BY <1>1, <1>7, AckEffect
  <2>2. pc = "ack" /\ pc' = "poll"
    BY <1>7 DEF Ack, StartPolling
  <2>3. /\ Once(Tail(inbox))
        /\ \A i \in 1..Len(Tail(inbox)) : Tail(inbox)[i] # msg
    BY <1>1, <1>3, <2>1, TailOnce DEF msg
  <2>4. Once(inbox') /\ \A i \in 1..Len(inbox') : inbox'[i] # msg
    BY <2>1, <2>3
  <2>5. msg \in Jobs
    BY <1>1, <2>1, TailIn DEF msg
  <2>6. \A q \in Open : q = msg
    BY <1>1, <1>3, <2>2, <2>5, OneStored
  <2>7. Open' \cap Queued' = {}
    BY <2>1, <2>4, <2>6 DEF Queued
  <2> QED
    BY <1>3, <2>1, <2>2, <2>4, <2>7 DEF HandledOnce, Once
<1>8. CASE CompleteJob /\ UNCHANGED <<mailbox, client, stops>>
  <2>1. /\ cur \in Open /\ Open' = {} /\ Done' = {cur}
        /\ UNCHANGED <<Queued, inbox, delivered>>
    BY <1>1, <1>8, CompleteEffect
  <2>2. pc = "complete" /\ pc' = "poll"
    BY <1>8 DEF CompleteJob
  <2> QED
    BY <1>3, <2>1, <2>2 DEF HandledOnce, Once
<1>9. CASE RemoveResult /\ UNCHANGED <<mailbox, client, stops>>
  <2>1. Done' = {} /\ UNCHANGED <<Open, Queued, inbox, delivered>>
    BY <1>1, <1>9, RemoveEffect
  <2>2. pc = "remove" /\ pc' = "send"
    BY <1>9 DEF RemoveResult
  <2> QED
    BY <1>3, <2>1, <2>2 DEF HandledOnce, Once
<1>10. ASSUME NEW j \in JobIds, Delivers(j) PROVE HandledOnce'
  <2>1. /\ results[j].req \in Done /\ results[j].req \in Jobs
        /\ Mailed' = Mailed \cup {results[j].req}
        /\ UNCHANGED <<Done, Open, Queued>>
    BY <1>1, <1>10, DeliverEffect
  <2>2. /\ pc = "send" /\ j \in Stored(results) /\ UNCHANGED <<inbox, jobs, results>>
        /\ delivered' = delivered \cup {results[j]}
        /\ \/ pc' = "remove" /\ cur' = results[j].req
           \/ pc' = "send" /\ cur' = cur
    BY <1>10 DEF Delivers
  <2>3. j = JobIdOf[results[j].req]
    BY <1>1, <2>1, <2>2, OneStored
  <2>4. pc' = "remove" => results'[JobIdOf[cur']].req = cur' /\ cur' \in Mailed'
    BY <2>1, <2>2, <2>3
  <2> QED
    BY <1>3, <2>1, <2>2, <2>4 DEF HandledOnce, Once, Told
<1>11. CASE TakeAnswer \/ DiscardAnswer
  <2>1. UNCHANGED <<Done, Open, Queued, inbox, delivered, jobs, results, pc, cur>>
    BY <1>1, <1>11, TakeEffect DEF vars, broker, storage, locals
  <2>2. \A r : Told(r) => Told(r)'
    BY ToldStays
  <2> QED
    BY <1>3, <2>1, <2>2 DEF HandledOnce, Once, Told, msg
<1>12. CASE Quiet
  <2>1. UNCHANGED <<Mailed, Done, Open, Queued, inbox, delivered, jobs, results, taken>>
    BY <1>12 DEF Quiet, flow, Mailed, Done, Open, Queued, Stored
  <2>2. /\ pc \in {"spawn", "ack"} => pc' \in {"spawn", "ack"}
        /\ pc' \in {"spawn", "ack"} =>
             pc \in {"spawn", "ack"} \/ SkipJob \/ AnswerPing \/ DropJunk
        /\ pc' = "remove" => pc = "remove" /\ cur' = cur
    BY <1>12 DEF Quiet
  <2>3. ~AnswerPing /\ ~DropJunk
    <3>1. inbox # <<>> => msg \in JobRequests
      BY <1>1, TailIn, OneIdOneFile DEF msg
    <3> QED
      BY <3>1, RequestsAssumption DEF AnswerPing, DropJunk
  <2>4. ~SkipJob
    <3> SUFFICES ASSUME SkipJob PROVE FALSE
      OBVIOUS
    <3>1. pc = "get" /\ inbox # <<>> /\ msg \in Jobs /\ jobs[JobIdOf[msg]] # None
      BY OneIdOneFile DEF SkipJob
    <3>2. msg \in Queued
      BY <1>1, <3>1, TailIn DEF msg, Queued
    <3>3. PICK q \in Open : TRUE
      BY <1>1, <3>1, OneStored
    <3>4. q = msg
      BY <1>2, <3>2, <3>3, StillToDo
    <3> QED
      BY <1>3, <3>1, <3>2, <3>3, <3>4
  <2> QED
    BY <1>3, <2>1, <2>2, <2>3, <2>4 DEF HandledOnce, Once, Told, msg
<1> QED
  BY <1>1, <1>5, <1>6, <1>7, <1>8, <1>9, <1>10, <1>11, <1>12, FlowSteps DEF FlowNext

\* As long as the dispatcher was not lost, a job that was sent is on its way to
\* being answered, or was answered.
Followed ==
  crashes = 0 => \A r \in sent : Told(r) \/ r \in Done \cup Open \cup Queued

LEMMA FollowedStep ==
  ASSUME FlowInv, HandledOnce, Followed, [ClientNext]_cvars
  PROVE  Followed'
<1> SUFFICES ASSUME crashes' = 0, NEW r \in sent'
             PROVE  Told(r)' \/ r \in Done' \cup Open' \cup Queued'
  BY DEF Followed, Told
<1>1. /\ BaseInv /\ WindowOK /\ TakenOK /\ TypeOK /\ HandOK /\ KeysOK /\ ClientType
  BY DEF FlowInv, BaseInv, StepInv, TypeInv
<1>2. crashes = 0
  BY <1>1, NoCrashBefore
<1>3. r \in sent => Told(r) \/ r \in Done \cup Open \cup Queued
  BY <1>2 DEF Followed
<1>4. CASE Told(r)
  BY <1>4, ToldStays
<1> SUFFICES ASSUME ~Told(r) PROVE Told(r)' \/ r \in Done' \cup Open' \cup Queued'
  BY <1>4
<1>5. CASE SendJob
  <2>1. sent' = sent \cup {current} /\ Queued' = Queued \cup {current} /\ UNCHANGED <<Done, Open>>
    BY <1>1, <1>5, SendEffect
  <2> QED
    BY <1>3, <2>1
<1>6. CASE AcceptJob /\ UNCHANGED <<mailbox, client, stops>>
  BY <1>1, <1>3, <1>6, AcceptEffect
<1>7. CASE Ack /\ UNCHANGED <<mailbox, client, stops>>
  <2>1. /\ Queued = Queued' \cup {msg} /\ UNCHANGED <<Done, Open, sent>>
    BY <1>1, <1>7, AckEffect
  <2>2. msg \in Jobs
    BY <1>1, <2>1 DEF WindowOK
  <2>3. msg \in Open
    <3>1. jobs[JobIdOf[msg]] = msg
      BY <1>2, <1>7 DEF HandledOnce, Ack
    <3> QED
      BY <1>1, <2>2, <3>1, OneStored
  <2> QED
    BY <1>3, <2>1, <2>3
<1>8. CASE CompleteJob /\ UNCHANGED <<mailbox, client, stops>>
  <2>1. /\ cur \in Open /\ Done' = {cur} /\ cur \in Jobs /\ UNCHANGED <<Queued, sent>>
    BY <1>1, <1>8, CompleteEffect
  <2>2. r \in Open => r = cur
    BY <1>1, <2>1, OneStored
  <2>3. ASSUME r \in Done, r # cur PROVE FALSE
    <3>1. Place[cur] = Len(taken) + 1 /\ cur = Challenge[Len(taken) + 1]
      BY <1>2, <2>1, StillToDo
    <3>2. r \in Flowing
      BY <2>3 DEF Flowing
    <3>3. Place[r] = Len(taken)
      BY <1>1, <2>3, <3>1, <3>2, InWindow
    <3> QED
      BY <3>2, <3>3, PastIsTaken DEF Told
  <2> QED
    BY <1>3, <2>1, <2>2, <2>3
<1>9. CASE RemoveResult /\ UNCHANGED <<mailbox, client, stops>>
  <2>1. /\ cur \in Jobs /\ JobIdOf[cur] \in Stored(results)
        /\ UNCHANGED <<Open, Queued, sent>>
    BY <1>1, <1>9, RemoveEffect
  <2>2. results[JobIdOf[cur]].req = cur /\ Told(cur)
    BY <1>2, <1>9 DEF HandledOnce, RemoveResult
  <2>3. r \in Done => r = cur
    BY <1>1, <2>1, <2>2, OneStored DEF Done
  <2> QED
    BY <1>3, <2>1, <2>2, <2>3
<1>10. ASSUME NEW j \in JobIds, Delivers(j) PROVE Told(r)' \/ r \in Done' \cup Open' \cup Queued'
  <2>1. UNCHANGED <<Done, Open, Queued, sent>>
    BY <1>1, <1>10, DeliverEffect DEF Delivers
  <2> QED
    BY <1>3, <2>1
<1>11. CASE TakeAnswer \/ DiscardAnswer
  <2>1. UNCHANGED <<Done, Open, Queued, sent>>
    BY <1>1, <1>11, TakeEffect DEF vars, broker
  <2> QED
    BY <1>3, <2>1
<1>12. CASE Quiet
  <2>1. UNCHANGED <<Done, Open, Queued, sent>>
    BY <1>12 DEF Quiet, flow, Done, Open, Queued, Stored
  <2> QED
    BY <1>3, <2>1
<1> QED
  BY <1>1, <1>5, <1>6, <1>7, <1>8, <1>9, <1>10, <1>11, <1>12, FlowSteps DEF FlowNext

LEMMA OnceInvariant == ClientSpec => [](FlowInv /\ HandledOnce /\ Followed)
<1>1. ClientInit => HandledOnce /\ Followed
  <2> SUFFICES ASSUME ClientInit PROVE HandledOnce /\ Followed
    OBVIOUS
  <2>1. inbox = <<>> /\ sent = {} /\ delivered = {} /\ pc = "down"
        /\ \A j \in JobIds : jobs[j] = None /\ results[j] = None
    BY DEF ClientInit, Init
  <2>2. Done = {} /\ Open = {} /\ Queued = {}
    BY <2>1 DEF Done, Open, Queued, Stored
  <2> QED
    BY <2>1, <2>2 DEF HandledOnce, Followed, Once
<1>2. FlowInv /\ HandledOnce /\ Followed /\ [ClientNext]_cvars => HandledOnce' /\ Followed'
  BY HandledOnceStep, FollowedStep
<1> QED
  BY <1>1, <1>2, FlowInvariant, PTL DEF ClientSpec

\* A client of a dispatcher that is not lost misses no answer, for searches of
\* every size and any number of stops.
THEOREM NoneMissed == ClientSpec => []NothingMissed
<1>1. FlowInv /\ Followed => NothingMissed
  <2> SUFFICES ASSUME FlowInv, Followed, crashes = 0, NEW r \in sent
               PROVE  \/ \E i \in 1..Len(taken) : taken[i].req = r
                      \/ InInbox(r) \/ r \in Kept
                      \/ \E i \in 1..Len(mailbox) : mailbox[i].req = r
                      \/ [req |-> r, out |-> Bad] \in delivered
    BY DEF NothingMissed
  <2>1. TypeOK /\ KeysOK /\ r \in Jobs /\ r \in JobRequests
    BY OneIdOneFile DEF FlowInv, BaseInv, StepInv, TypeInv, WindowOK
  <2>2. r \in Open => r \in Kept
    BY <2>1, OneStored DEF Kept
  <2>3. r \in Done => r \in Kept
    BY <2>1, OneStored DEF Done, Kept, Stored
  <2>4. r \in Queued => InInbox(r)
    BY DEF Queued, InInbox
  <2>5. r \in Mailed => \E i \in 1..Len(mailbox) : mailbox[i].req = r
    BY DEF Mailed
  <2> QED
    BY <2>2, <2>3, <2>4, <2>5 DEF Followed, Told
<1> QED
  BY <1>1, OnceInvariant, PTL

-----------------------------------------------------------------------------
(* An answer carries the output of its own job *)

\* Steps that neither write the file, nor hand over an output, nor make an orphan.
Harmless ==
  /\ UNCHANGED <<sent, jobs, orphans, files, taken>>
  /\ Answers' \subseteq Answers /\ Queued' \subseteq Queued
  /\ pc' \in {"commit", "complete"} => pc \in {"commit", "complete"} /\ UNCHANGED <<cur, out>>
  /\ pc = "complete" => pc' = "complete"
  /\ pc' \in {"down", "restore"} => pc \in {"down", "restore"}

\* The dispatcher's harmless steps.
LEMMA HarmlessSteps ==
  ASSUME BaseInv, Dispatcher, taken' = taken,
         ~AcceptJob, ~CompleteJob, ~\E p \in Pids : CollectWorker(p) \/ WaitFails(p)
  PROVE  Harmless
<1> USE DEF broker, storage, system
<1>1. /\ TypeOK /\ HandOK /\ KeysOK /\ OwnersOK /\ inbox \in Seq(Messages)
  BY DEF BaseInv, StepInv, TypeInv, TypeOK
<1>2. ASSUME UNCHANGED <<sent, inbox, delivered, jobs, results, orphans, files>>,
             pc' \in {"commit", "complete"} =>
               pc \in {"commit", "complete"} /\ UNCHANGED <<cur, out>>,
             pc = "complete" => pc' = "complete",
             pc' \in {"down", "restore"} => pc \in {"down", "restore"}
      PROVE  Harmless
  BY <1>2 DEF Harmless, Answers, Queued, Stored
<1>3. CASE \E j \in JobIds, p \in Pids : RestoreJob(j, p)
  BY <1>2, <1>3 DEF RestoreJob
<1>4. CASE (\E j \in JobIds : RestoreFails(j)) \/ SpawnFails
  BY <1>4, OneIdOneFile DEF RestoreFails, SpawnFails
<1>5. CASE EndRestore \/ GetNothing \/ CommitCheckpoint \/ StartSending \/ EndTick
  BY <1>2, <1>5 DEF EndRestore, GetNothing, StartPolling, CommitCheckpoint, StartSending, EndTick,
     locals
<1>6. CASE AnswerPing \/ DropJunk \/ SkipJob
  BY <1>2, <1>6 DEF AnswerPing, DropJunk, SkipJob
<1>7. CASE \E p \in Pids : SpawnJob(p) \/ KeepWorker(p)
  BY <1>2, <1>7 DEF SpawnJob, KeepWorker
<1>8. CASE Ack
  <2>1. inbox # <<>> /\ inbox' = Tail(inbox)
    BY <1>1, <1>8 DEF HandOK, Ack
  <2>2. {Tail(inbox)[i] : i \in 1..Len(Tail(inbox))} \subseteq Queued
    BY <1>1, <2>1, TailIn DEF Queued
  <2>3. Queued' \subseteq Queued
    BY <2>1, <2>2 DEF Queued
  <2> QED
    BY <1>8, <2>3 DEF Harmless, Ack, StartPolling, Answers, Stored
<1>9. CASE \E j \in JobIds : SendResult(j) \/ SendFails(j)
  <2>1. PICK j \in JobIds : SendResult(j) \/ SendFails(j)
    BY <1>9
  <2>2. j \in Stored(results)
    BY <1>1, <2>1 DEF HandOK, SendResult, SendFails
  <2>3. /\ UNCHANGED <<sent, inbox, jobs, results, orphans, files>>
        /\ pc = "send" /\ pc' \in {"send", "remove"}
    BY <2>1 DEF SendResult, SendFails
  <2>4. delivered' \subseteq delivered \cup {results[j]}
    BY <2>1 DEF SendResult, SendFails
  <2>5. Answers' \subseteq Answers
    BY <2>2, <2>3, <2>4 DEF Answers, Stored
  <2> QED
    BY <2>3, <2>5 DEF Harmless, Queued
<1>10. CASE RemoveResult
  <2>1. results' = [results EXCEPT ![JobIdOf[cur]] = None] /\ delivered' = delivered
        /\ UNCHANGED <<sent, inbox, jobs, orphans, files>> /\ pc = "remove" /\ pc' = "send"
    BY <1>10 DEF RemoveResult
  <2>2. \A j \in JobIds : results'[j] \in {results[j], None}
    BY <1>1, <2>1 DEF TypeOK
  <2>3. Answers' \subseteq Answers
    BY <2>1, <2>2 DEF Answers, Stored
  <2> QED
    BY <2>1, <2>3 DEF Harmless, Queued
<1> QED
  BY <1>3, <1>4, <1>5, <1>6, <1>7, <1>8, <1>9, <1>10 DEF Dispatcher, GetMessage

\* Without a crash and a stop, a worker that may still write works on the job the
\* client is at.
LEMMA WritersAreCurrent ==
  ASSUME FlowInv, HandledOnce, OutputsOK, crashes = 0, stops = 0,
         NEW r, r \in orphans \/ \E p \in Pids : Running(p) /\ workers[p].req = r
  PROVE  r \in sent /\ Place[r] = Len(taken) + 1
<1>1. TypeOK /\ KeysOK /\ OwnersOK /\ BaseInv /\ WindowOK /\ TakenOK
  BY DEF FlowInv, BaseInv, StepInv, TypeInv
<1>2. CASE \E p \in Pids : Running(p) /\ workers[p].req = r
  <2>1. r \in Jobs /\ jobs[JobIdOf[r]] = r
    BY <1>1, <1>2, OneIdOneFile DEF OwnersOK, Tracked, Running, TypeOK, Worker
  <2>2. r \in Open
    BY <1>1, <2>1, OneStored
  <2> QED
    BY <1>1, <2>2, StillToDo DEF WindowOK
<1>3. CASE r \in orphans
  <2>1. r \in sent /\ ~Success(r)
    BY <1>3 DEF OutputsOK
  <2>2. r \in Jobs /\ Place[r] <= Len(taken) + 1
    BY <1>1, <2>1 DEF WindowOK
  <2>3. /\ Place[r] \in 1..Len(Challenge) /\ Challenge[Place[r]] = r
        /\ Len(Challenge) \in Nat /\ Len(taken) \in Nat
    BY <2>2, Places, ChallengeOrder, LenProperties DEF FlowInv, BaseInv, ClientType, ClientTypeOK
  <2>4. ASSUME Place[r] \in 1..Len(taken) PROVE FALSE
    <3>1. taken[Place[r]].req = r /\ taken[Place[r]] \in delivered /\ taken[Place[r]].out # Bad
      BY <1>1, <2>3, <2>4 DEF TakenOK, AnswersInOrder
    <3> QED
      BY <2>1, <3>1 DEF Success, Answers
  <2> QED
    BY <2>1, <2>2, <2>3, <2>4
<1> QED
  BY <1>2, <1>3

\* Without a crash and a stop, what is read from the file is the output of the
\* very job the worker had.
LEMMA ExtractsOwn ==
  ASSUME FlowInv, HandledOnce, OutputsOK, crashes = 0, stops = 0, NEW r \in Open
  PROVE  \/ Extracted(r) = Bad
         \/ Extracted(r) = r /\ Text = r
<1>1. TypeOK /\ KeysOK /\ WindowOK /\ r \in Jobs /\ jobs[JobIdOf[r]] = r
  BY OneStored DEF FlowInv, BaseInv, StepInv, TypeInv
<1>2. Text = files[FileOf[r]]
  BY <1>1, OneIdOneFile, Places, ChallengeOrder DEF Text
<1>3. Place[r] = Len(taken) + 1 /\ r = Challenge[Len(taken) + 1] /\ Place[r] \in 1..Len(Challenge)
  BY <1>1, StillToDo, Places
<1>4. Len(taken) \in Nat
  BY LenProperties DEF FlowInv, BaseInv, ClientType, ClientTypeOK
<1> SUFFICES ASSUME Text \in JobRequests, TypeOf[Text] = TypeOf[r] PROVE Text = r
  BY <1>1, <1>2 DEF Extracted
<1>5. Text \in sent /\ Place[Text] >= Len(taken)
  BY RequestsAssumption, NoneAssumption DEF OutputsOK, Messages
<1>6. Text \in Jobs /\ Place[Text] <= Len(taken) + 1
  BY <1>1, <1>5 DEF WindowOK
<1>7. Place[Text] \in 1..Len(Challenge) /\ Challenge[Place[Text]] = Text
  BY <1>6, Places
<1>8. Text.kind = r.kind
  BY <1>1, <1>6, OneIdOneFile
<1>9. Place[Text] = Len(taken) \/ Place[Text] = Len(taken) + 1
  BY <1>4, <1>5, <1>6, <1>7
<1>10. Place[Text] # Len(taken)
  <2> SUFFICES ASSUME Place[Text] = Len(taken) PROVE FALSE
    OBVIOUS
  <2>1. Len(taken) \in 1..Len(Challenge) /\ Len(taken) + 1 \in 1..Len(Challenge)
    BY <1>3, <1>7
  <2>2. Challenge[Len(taken)].kind # Challenge[Len(taken) + 1].kind
    BY <2>1, ChallengeOrder
  <2> QED
    BY <1>3, <1>7, <1>8, <2>2
<1> QED
  BY <1>3, <1>7, <1>9, <1>10

LEMMA OutputsStep ==
  ASSUME FlowInv, HandledOnce, OutputsOK, [ClientNext]_cvars
  PROVE  OutputsOK'
<1> SUFFICES ASSUME crashes' = 0, stops' = 0 PROVE OutputsOK'
  BY DEF OutputsOK
<1>1. /\ BaseInv /\ WindowOK /\ TakenOK /\ TypeOK /\ HandOK /\ KeysOK /\ OwnersOK /\ ClientType
  BY DEF FlowInv, BaseInv, StepInv, TypeInv
<1>2. crashes = 0 /\ stops = 0 /\ ~Stop /\ ~Crash
  <2>1. crashes = 0 /\ ~Crash
    BY <1>1, NoCrashBefore DEF Crash, TypeOK
  <2>2. ~Stop
    BY <1>1 DEF Stop, ClientType, ClientTypeOK
  <2>3. stops' = stops
    BY <2>2 DEF ClientNext, Client, SendJob, SendRefused, ClientFails, TakeAnswer, DiscardAnswer,
       WaitLonger, GiveUp, DispatcherRuns, OtherStep, DeliverResult, DeliverAndFail, Surroundings,
       cvars
  <2> QED
    BY <2>1, <2>2, <2>3
<1>3. /\ pc \in {"down", "restore"} => Open = {}
      /\ \A r \in orphans : /\ r \in sent /\ ~Success(r) /\ r \notin Queued
                            /\ r \in Open => pc = "complete" /\ cur = r
      /\ Text # Bad => /\ Text \in sent /\ Place[Text] >= Len(taken)
                       /\ \A r \in sent : Success(r) => Place[Text] >= Place[r]
      /\ \A d \in Answers : d.out \in {Bad, d.req}
      /\ pc \in {"commit", "complete"} => out \in {Bad, cur}
  BY <1>2 DEF OutputsOK
<1>4. /\ Once(inbox)
      /\ Open \cap Queued # {} => pc \in {"spawn", "ack"}
      /\ \A d \in delivered : d.req \notin Open \cup Queued
      /\ Done \cap (Open \cup Queued) = {}
  BY <1>2 DEF HandledOnce
<1>5. CASE SendJob
  <2>1. /\ current \notin sent /\ sent' = sent \cup {current} /\ Queued' = Queued \cup {current}
        /\ UNCHANGED <<Open, taken>>
    BY <1>1, <1>5, SendEffect
  <2>2. UNCHANGED <<delivered, results, orphans, files, pc, cur, out>>
    BY <1>5 DEF SendJob, Submit, storage, system, locals
  <2>3. UNCHANGED <<Answers, Text>>
    BY <2>2 DEF Answers, Stored, Text
  <2>4. \A r : Success(r)' = Success(r)
    BY <2>2, <2>3 DEF Success
  <2>5. ~Success(current)
    <3>1. \A d \in Answers : d.req \in sent
      BY <1>1 DEF Answers, TakenOK, WindowOK, Done
    <3>2. pc \in {"commit", "complete"} => cur \in sent
      BY <1>1, OneStored, OneIdOneFile DEF OwnersOK, HandOK, WindowOK
    <3> QED
      BY <2>1, <3>1, <3>2 DEF Success
  <2> QED
    BY <1>3, <2>1, <2>2, <2>3, <2>4, <2>5 DEF OutputsOK
<1>6. CASE TakeAnswer
  <2>1. UNCHANGED <<sent, delivered, results, orphans, files, pc, cur, out, Open, Queued>>
    BY <1>1, <1>6, TakeEffect DEF vars, broker, storage, system, locals
  <2>2. UNCHANGED <<Answers, Text>> /\ \A r : Success(r)' = Success(r)
    BY <2>1 DEF Answers, Stored, Text, Success
  <2>3. /\ Success(current) /\ current \in sent /\ Place[current] = Len(taken')
    <3>1. /\ Head(mailbox).req = current /\ Place[current] = Len(taken')
          /\ Head(mailbox) \in delivered /\ Head(mailbox).out # Bad
      BY <1>1, <1>6, TakesCurrent
    <3> QED
      BY <1>1, <3>1 DEF Success, Answers, TakenOK
  <2>4. Text # Bad => Place[Text] >= Len(taken')
    BY <1>3, <2>3
  <2> QED
    BY <1>3, <2>1, <2>2, <2>4 DEF OutputsOK
<1>7. ASSUME NEW r \in JobRequests, WorkerWrites(r), UNCHANGED <<mailbox, client, stops>>
      PROVE  OutputsOK'
  <2>1. UNCHANGED <<sent, delivered, results, orphans, pc, cur, out, Open, Queued, taken>>
    BY <1>7 DEF WorkerWrites, broker, storage, locals, client, Open, Queued, Stored
  <2>2. Answers' = Answers /\ \A q : Success(q)' = Success(q)
    BY <2>1 DEF Answers, Stored, Success
  <2>3. r \in sent /\ Place[r] = Len(taken) + 1
    BY <1>2, <1>7, WritersAreCurrent DEF WorkerWrites
  <2>4. Text' \in {r, Bad}
    <3>1. FileOf[Challenge[1]] \in Files /\ FileOf[Challenge[1]] = FileOf[r]
      BY RequestsAssumption, OneIdOneFile, Places, ChallengeOrder
    <3> QED
      BY <1>1, <1>7, <3>1 DEF WorkerWrites, Text, TypeOK
  <2>5. Len(taken) \in Nat /\ \A q \in sent : Place[q] \in Nat /\ Place[q] <= Len(taken) + 1
    BY <1>1, LenProperties, Places DEF WindowOK, ClientType, ClientTypeOK
  <2> QED
    BY <1>3, <2>1, <2>2, <2>3, <2>4, <2>5 DEF OutputsOK
<1>8. ASSUME NEW p \in Pids, CollectWorker(p), UNCHANGED <<mailbox, client, stops>>
      PROVE  OutputsOK'
  <2> DEFINE r == workers[p].req
  <2>1. pc = "poll" /\ p \in Tracked
    BY <1>8 DEF CollectWorker, Exited, Tracked
  <2>2. r \in Jobs /\ r \in Open
    BY <1>1, <2>1, OneStored, OneIdOneFile DEF OwnersOK, Tracked, TypeOK, Worker
  <2>3. jobs[JobIdOf[r]] # None
    BY <1>1, <2>2, OneStored
  <2>4. /\ cur' = r /\ out' \in {Bad, Extracted(r)} /\ pc' \in {"complete", "commit"}
        /\ UNCHANGED <<sent, delivered, results, orphans, files, taken, Open, Queued>>
    BY <1>8, <2>3 DEF CollectWorker, Drained, broker, storage, system, client, Open, Queued, Stored
  <2>5. (out' = Bad) \/ (out' = r /\ Text = r)
    BY <1>2, <2>2, <2>4, ExtractsOwn
  <2>6. UNCHANGED <<Answers, Text>>
    BY <2>4 DEF Answers, Stored, Text
  <2>7. \A q : Success(q)' => Success(q) \/ (q = r /\ Text = r)
    BY <2>4, <2>5, <2>6 DEF Success
  <2>8. r \notin orphans
    BY <1>3, <2>1, <2>2
  <2>9. \A q \in sent : Place[q] \in Nat
    BY <1>1, Places DEF WindowOK
  <2>10. r \in sent
    BY <1>1, <2>2 DEF WindowOK
  <2> HIDE DEF r
  <2> QED
    BY <1>3, <2>1, <2>4, <2>5, <2>6, <2>7, <2>8, <2>9, <2>10 DEF OutputsOK
<1>9. ASSUME NEW p \in Pids, WaitFails(p), UNCHANGED <<mailbox, client, stops>>
      PROVE  OutputsOK'
  <2> DEFINE r == workers[p].req
  <2>1. pc = "poll" /\ p \in Tracked
    BY <1>1, <1>9 DEF WaitFails, HandOK
  <2>2. r \in Jobs /\ r \in Open
    BY <1>1, <2>1, OneStored, OneIdOneFile DEF OwnersOK, Tracked, TypeOK, Worker
  <2>3. /\ cur' = r /\ out' = Bad /\ pc' = "complete" /\ orphans' \subseteq orphans \cup {r}
        /\ UNCHANGED <<sent, delivered, results, files, taken, Open, Queued>>
    BY <1>9 DEF WaitFails, Drained, broker, storage, client, Open, Queued, Stored
  <2>4. UNCHANGED <<Answers, Text>>
    BY <2>3 DEF Answers, Stored, Text
  <2>5. \A q : Success(q)' => Success(q)
    BY <2>3, <2>4 DEF Success
  <2>6. r \in sent /\ ~Success(r) /\ r \notin Queued
    <3>1. \A d \in Answers : d.req # r
      BY <1>4, <2>2 DEF Answers, Done
    <3> QED
      BY <1>1, <1>4, <2>1, <2>2, <3>1 DEF Success, WindowOK
  <2> HIDE DEF r
  <2> QED
    BY <1>3, <2>1, <2>3, <2>4, <2>5, <2>6 DEF OutputsOK
<1>10. CASE CompleteJob /\ UNCHANGED <<mailbox, client, stops>>
  <2>1. /\ Open' = {} /\ cur \in Jobs
        /\ \A j \in Stored(results)' : results'[j] = [req |-> cur, out |-> out]
        /\ UNCHANGED <<Queued, sent, delivered, taken>>
    BY <1>1, <1>10, CompleteEffect
  <2>2. pc = "complete" /\ pc' = "poll" /\ UNCHANGED <<orphans, files>>
    BY <1>10 DEF CompleteJob, system
  <2>3. \A d \in Answers' : d \in Answers \/ d = [req |-> cur, out |-> out]
    BY <2>1 DEF Answers
  <2>4. \A q : Success(q)' => Success(q)
    BY <2>2, <2>3 DEF Success
  <2>5. Text' = Text
    BY <2>2 DEF Text
  <2> QED
    BY <1>3, <2>1, <2>2, <2>3, <2>4, <2>5 DEF OutputsOK
<1>11. CASE AcceptJob /\ UNCHANGED <<mailbox, client, stops>>
  <2>1. /\ msg \in Queued /\ Open' = {msg}
        /\ UNCHANGED <<Queued, sent, delivered, results, taken>>
    BY <1>1, <1>11, AcceptEffect
  <2>2. pc' = "spawn" /\ UNCHANGED <<orphans, files>>
    BY <1>11 DEF AcceptJob, system
  <2>3. UNCHANGED <<Answers, Text>>
    BY <2>1, <2>2 DEF Answers, Stored, Text
  <2>4. \A q : Success(q)' => Success(q)
    BY <2>2, <2>3 DEF Success
  <2> QED
    BY <1>3, <2>1, <2>2, <2>3, <2>4 DEF OutputsOK
<1>12. CASE Harmless
  <2>1. /\ UNCHANGED <<sent, orphans, files, taken, Text, Open>>
        /\ Answers' \subseteq Answers /\ Queued' \subseteq Queued
    BY <1>12 DEF Harmless, Text, Open, Stored
  <2>2. /\ pc' \in {"commit", "complete"} => pc \in {"commit", "complete"} /\ UNCHANGED <<cur, out>>
        /\ pc = "complete" => pc' = "complete"
        /\ pc' \in {"down", "restore"} => pc \in {"down", "restore"}
    BY <1>12 DEF Harmless
  <2>3. \A q : Success(q)' => Success(q)
    BY <2>1, <2>2 DEF Success
  <2> QED
    BY <1>3, <2>1, <2>2, <2>3 DEF OutputsOK
<1>13. ASSUME UNCHANGED <<sent, inbox, delivered, jobs, results, orphans, files, taken>>,
              UNCHANGED <<pc, cur, out>>
       PROVE  OutputsOK'
  BY <1>12, <1>13 DEF Harmless, Answers, Queued, Stored
<1>14. CASE DispatcherRuns
  <2>1. Dispatcher /\ UNCHANGED <<client, stops>> /\ taken' = taken
    BY <1>14 DEF DispatcherRuns, OtherStep, DeliverResult, DeliverAndFail, Dispatcher, client
  <2>2. CASE \E p \in Pids : CollectWorker(p) \/ WaitFails(p)
    <3>1. ~\E j \in JobIds : SendResult(j) \/ SendFails(j)
      BY <2>2 DEF CollectWorker, WaitFails, SendResult, SendFails
    <3>2. UNCHANGED <<mailbox, client, stops>>
      BY <1>14, <3>1 DEF DispatcherRuns, OtherStep, DeliverResult, DeliverAndFail
    <3> QED
      BY <1>8, <1>9, <2>2, <3>2
  <2>3. CASE AcceptJob \/ CompleteJob
    <3>1. ~\E j \in JobIds : SendResult(j) \/ SendFails(j)
      BY <2>3 DEF AcceptJob, CompleteJob, SendResult, SendFails
    <3>2. UNCHANGED <<mailbox, client, stops>>
      BY <1>14, <3>1 DEF DispatcherRuns, OtherStep, DeliverResult, DeliverAndFail
    <3> QED
      BY <1>10, <1>11, <2>3, <3>2
  <2> QED
    BY <1>1, <1>12, <2>1, <2>2, <2>3, HarmlessSteps
<1>15. CASE Surroundings
  <2>1. CASE Restart
    BY <1>12, <1>15, <2>1 DEF Restart, Surroundings, Harmless, Answers, Queued, Stored,
       broker, storage, system, client
  <2>2. CASE \E p \in Pids : WorkerExits(p)
    BY <1>13, <1>15, <2>2 DEF WorkerExits, Surroundings, broker, storage, system, client
  <2> QED
    BY <1>2, <1>7, <1>15, <2>1, <2>2 DEF Surroundings
<1>16. CASE SendRefused \/ ClientFails \/ DiscardAnswer \/ WaitLonger \/ GiveUp \/ UNCHANGED cvars
  BY <1>13, <1>16 DEF SendRefused, ClientFails, DiscardAnswer, WaitLonger, GiveUp, cvars, vars,
     broker, storage, system, locals, client
<1> QED
  BY <1>2, <1>5, <1>6, <1>14, <1>15, <1>16 DEF ClientNext, Client

LEMMA OutputsInvariant == ClientSpec => [](FlowInv /\ HandledOnce /\ OutputsOK)
<1>1. ClientInit => OutputsOK
  <2> SUFFICES ASSUME ClientInit PROVE OutputsOK
    OBVIOUS
  <2>1. /\ delivered = {} /\ orphans = {} /\ pc = "down" /\ files = [f \in Files |-> Bad]
        /\ \A j \in JobIds : jobs[j] = None /\ results[j] = None
    BY DEF ClientInit, Init
  <2>2. Open = {} /\ Answers = {}
    BY <2>1 DEF Open, Answers, Stored
  <2>3. Text = Bad
    BY <2>1, RequestsAssumption, OneIdOneFile, Places, ChallengeOrder DEF Text
  <2> QED
    BY <2>1, <2>2, <2>3 DEF OutputsOK
<1>2. FlowInv /\ HandledOnce /\ OutputsOK /\ [ClientNext]_cvars => OutputsOK'
  BY OutputsStep
<1> QED
  BY <1>1, <1>2, OnceInvariant, PTL DEF ClientSpec

\* As long as the dispatcher is neither lost nor stopped, what the client takes is
\* the output of the very job it had sent for that stage, for searches of every
\* size, although all jobs write one file.
THEOREM OutputsOwn == ClientSpec => []OutputsAreOwn
<1>1. FlowInv /\ OutputsOK => OutputsAreOwn
  BY DEF FlowInv, TakenOK, AnswersInOrder, OutputsOK, OutputsAreOwn, Answers
<1> QED
  BY <1>1, OutputsInvariant, PTL

-----------------------------------------------------------------------------
(* The search asks for every round *)

Asked(kind) == {r \in sent : r.kind = kind}

Chosen == {taken[i].out : i \in 1..Len(taken)} \cap Asked("VerifierChooseSegment")

\* When the final trace is asked for, the verifier has chosen a segment in each
\* of the rounds that get_total_rounds promised, and in no other.
RoundsAsked ==
  crashes = 0 /\ stops = 0 /\ Asked("ProverFinalTrace") # {} =>
    Cardinality(Chosen) = TotalRounds(MaxSteps, Nary)

LEMMA ChosenSegments ==
  ASSUME FlowInv, OutputsOK, crashes = 0, stops = 0, Asked("ProverFinalTrace") # {}
  PROVE  Chosen = {Job("VerifierChooseSegment", k) : k \in 1..TotalRounds(MaxSteps, Nary)}
<1> DEFINE n == TotalRounds(MaxSteps, Nary)
           S == {Job("VerifierChooseSegment", k) : k \in 1..n}
<1>1. n \in Nat /\ Len(Challenge) = 2*n + 4
  BY ChallengeJobs
<1>2. /\ Len(taken) \in Nat /\ Len(taken) <= Len(Challenge)
      /\ \A i \in 1..Len(taken) :
           i \in 1..Len(Challenge) /\ taken[i].out = Challenge[i] /\ Challenge[i] \in sent
  <2>1. Len(taken) \in Nat /\ Len(taken) <= Len(Challenge)
    BY LenProperties DEF FlowInv, BaseInv, ClientType, ClientTypeOK
  <2>2. ASSUME NEW i \in 1..Len(taken)
        PROVE  i \in 1..Len(Challenge) /\ taken[i].out = Challenge[i] /\ Challenge[i] \in sent
    <3>1. taken[i] \in delivered /\ taken[i].out # Bad /\ taken[i].req = Challenge[i]
      BY DEF FlowInv, TakenOK, AnswersInOrder
    <3>2. taken[i].out \in {Bad, taken[i].req}
      BY <3>1 DEF OutputsOK, Answers
    <3>3. taken[i].req \in sent
      BY <3>1 DEF FlowInv, TakenOK
    <3> QED
      BY <1>1, <2>1, <3>1, <3>2, <3>3
  <2> QED
    BY <2>1, <2>2
<1>3. \A k, r : Job(k, r).kind = k /\ Job(k, r).round = r
  BY DEF Job
<1>4. Len(taken) >= 2*n + 2
  <2>1. PICK r \in sent : r.kind = "ProverFinalTrace"
    BY DEF Asked
  <2>2. r \in Jobs /\ Place[r] <= Len(taken) + 1
    BY DEF FlowInv, WindowOK
  <2>3. Place[r] \in 1..Len(Challenge) /\ Challenge[Place[r]] = r
    BY <2>2, Places
  <2>4. Place[r] = 2*n + 3
    BY <1>3, <2>1, <2>3, JobAt
  <2> QED
    BY <1>1, <1>2, <2>2, <2>4
<1>5. ASSUME NEW x \in Chosen PROVE x \in S
  <2>1. PICK i \in 1..Len(taken) : x = taken[i].out
    BY DEF Chosen
  <2>2. x = Challenge[i] /\ i \in 1..Len(Challenge) /\ x.kind = "VerifierChooseSegment"
    BY <1>2, <2>1 DEF Chosen, Asked
  <2> QED
    BY <1>3, <2>2, JobAt
<1>6. ASSUME NEW k \in 1..n PROVE Job("VerifierChooseSegment", k) \in Chosen
  <2>1. 2*k \in 1..2*n /\ (2*k) % 2 # 1 /\ (2*k) \div 2 = k
    BY <1>1
  <2>2. Challenge[2*k + 2] = Job("VerifierChooseSegment", k)
    BY <2>1, ChallengeJobs
  <2>3. 2*k + 2 \in 1..Len(taken)
    BY <1>1, <1>2, <1>4
  <2>4. /\ taken[2*k + 2].out = Job("VerifierChooseSegment", k)
        /\ Job("VerifierChooseSegment", k) \in sent
    BY <1>2, <2>2, <2>3
  <2> QED
    BY <1>3, <2>3, <2>4 DEF Chosen, Asked
<1> QED
  BY <1>5, <1>6

\* The client asks for as many rounds as get_total_rounds says, for searches of
\* every size and arity, as long as the dispatcher is neither lost nor stopped.
THEOREM EveryRound == ClientSpec => []RoundsAsked
<1>1. FlowInv /\ OutputsOK => RoundsAsked
  <2> SUFFICES ASSUME FlowInv, OutputsOK, crashes = 0, stops = 0, Asked("ProverFinalTrace") # {}
               PROVE  Cardinality(Chosen) = TotalRounds(MaxSteps, Nary)
    BY DEF RoundsAsked
  <2> DEFINE n == TotalRounds(MaxSteps, Nary)
             S == {Job("VerifierChooseSegment", k) : k \in 1..n}
             f == [k \in 1..n |-> Job("VerifierChooseSegment", k)]
  <2>1. Chosen = S
    BY ChosenSegments
  <2>2. n \in Nat
    BY RoundsAssumption
  <2>3. f \in Bijection(1..n, S)
    <3>1. \A k, m \in 1..n : f[k] = f[m] => k = m
      BY DEF Job
    <3>2. f \in [1..n -> S] /\ \A x \in S : \E k \in 1..n : f[k] = x
      OBVIOUS
    <3> QED
      BY <3>1, <3>2 DEF Bijection, Injection, Surjection, IsInjective
  <2>4. Cardinality(S) = n
    <3> HIDE DEF S, n, f
    <3> QED
      BY <2>2, <2>3, FS_CountingElements DEF ExistsBijection
  <2> QED
    BY <2>1, <2>4
<1> QED
  BY <1>1, OutputsInvariant, PTL

\* If the rounds get_total_rounds counts are as many as it takes to narrow MaxSteps
\* steps to one, and no more, then so are the segments chosen when the final trace
\* is asked for.
THEOREM SearchComplete ==
  ASSUME RoundsReachOneStep,
         LET n == TotalRounds(MaxSteps, Nary) IN Nary^n >= MaxSteps /\ Nary^(n - 1) < MaxSteps
  PROVE  ClientSpec => []SearchIsComplete
<1>1. RoundsAsked => SearchIsComplete
  BY DEF RoundsAsked, Chosen, Asked, SearchIsComplete
<1> QED
  BY <1>1, EveryRound, PTL

=============================================================================
