--------------------------- MODULE ChallengeClient ---------------------------
(***************************************************************************)
(* The client of a challenge (emulator-dispatcher/examples/challenge.rs)   *)
(* with the dispatcher it talks to.  The client plays prover and verifier  *)
(* in turn: it sends a job, waits for a result of the type that job has,   *)
(* and builds the next job from it.  All its jobs have one job id and one  *)
(* result file, the types come back in every round, and it never looks at  *)
(* the id or the round of a result: that what it takes is the answer to    *)
(* what it asked is up to the order in which the broker, the dispatcher    *)
(* and its store let results through.                                      *)
(*                                                                         *)
(* The dispatcher is JobDispatcher; `delivered` says what was ever queued  *)
(* for the client, `mailbox` is the queue itself.                          *)
(***************************************************************************)
EXTENDS JobDispatcher

CONSTANTS
  MaxSteps,     \* max_steps of the program's yaml file
  Nary,         \* nary_search of the same file, a power of two
  MaxAttempts,  \* max_attempts of wait_for_result
  MaxMailbox    \* bound: a failed send queues no result in a longer mailbox

VARIABLES
  mailbox,   \* the client's queue in the broker
  cpc,       \* what the client does next: "send", "wait", "done", "gaveup"
  attempts,  \* attempts of wait_for_result used for this job
  taken,     \* the results it took, one for each job so far
  stops      \* how often the dispatcher was stopped with Ctrl-C so far

client == <<cpc, attempts, taken>>
cvars  == <<vars, mailbox, client, stops>>

-----------------------------------------------------------------------------

\* The least k with 2^k >= n.
Log2Up(n) == CHOOSE k \in 0..n : 2^k >= n /\ \A i \in 0..k-1 : 2^i < n

\* Variant: the last, smaller round is left out.
FullRounds(maxSteps, nary) == Log2Up(maxSteps) \div Log2Up(nary)

\* get_total_rounds: rounds of an nary search over maxSteps steps.
TotalRounds(maxSteps, nary) ==
  LET bits == Log2Up(maxSteps)
      per  == Log2Up(nary)
  IN bits \div per + (IF bits % per > 0 THEN 1 ELSE 0)

\* A job of the challenge, by its kind and round.
Job(kind, round) == [kind |-> kind, round |-> round]

\* The jobs of run_job in the order it sends them.
Challenge ==
  LET n == TotalRounds(MaxSteps, Nary)
      Round(i) == IF i % 2 = 1 THEN Job("ProverGetHashesForRound", (i + 1) \div 2)
                               ELSE Job("VerifierChooseSegment", i \div 2)
  IN <<Job("ProverExecute", 0), Job("VerifierCheckExecution", 0)>>
     \o [i \in 1..2*n |-> Round(i)]
     \o <<Job("ProverFinalTrace", 0), Job("VerifierChooseChallenge", 0)>>

Jobs == {Challenge[i] : i \in 1..Len(Challenge)}

\* The checkpoint a job of the challenge works on.
BaseOf(r) ==
  IF r.kind \in {"ProverExecute", "ProverGetHashesForRound", "ProverFinalTrace"}
    THEN "prover" ELSE "verifier"

\* run_job gives every job the id "uid_job" and the one commands_file; the
\* message type of a job is that of its kind.
ASSUME ChallengeAssumption ==
  /\ JobRequests = Jobs /\ Unspawnable = {}
  /\ \A q, r \in Jobs :
       /\ JobIdOf[q] = JobIdOf[r]
       /\ FileOf[q] = FileOf[r]
       /\ TypeOf[q] = TypeOf[r] <=> q.kind = r.kind

\* get_total_rounds returns a u8.
ASSUME RoundsAssumption == TotalRounds(MaxSteps, Nary) \in Nat

ASSUME BoundsAssumption ==
  MaxAttempts \in Nat /\ MaxMailbox \in Nat

ClientInit ==
  /\ Init
  /\ mailbox = <<>>
  /\ cpc = "send" /\ attempts = 0 /\ taken = <<>>
  /\ stops = 0

-----------------------------------------------------------------------------
(* run_job *)

\* The job it is to send, or waits for.
current == Challenge[Len(taken) + 1]

SendJob ==
  /\ cpc = "send"
  /\ Submit(current)
  /\ cpc' = "wait" /\ attempts' = 0
  /\ UNCHANGED <<mailbox, taken, stops>>

\* The broker refuses the job: send answers false, which is not looked at.
SendRefused ==
  /\ cpc = "send"
  /\ cpc' = "wait" /\ attempts' = 0
  /\ UNCHANGED <<vars, mailbox, taken, stops>>

\* A call of the broker fails, or the result does not have the fields of its
\* type: run_job returns the error.
ClientFails ==
  /\ cpc \in {"send", "wait"}
  /\ cpc' = "gaveup"
  /\ UNCHANGED <<vars, mailbox, attempts, taken, stops>>

-----------------------------------------------------------------------------
(* wait_for_typed_result and wait_for_result *)

\* Variant: one attempt too many.
WaitingOnceMore == cpc = "wait" /\ attempts <= MaxAttempts

\* There is an attempt left.
Waiting == cpc = "wait" /\ attempts < MaxAttempts

\* Variant: every structured result will do.
ExpectedAnyType(m) == m.out # Bad

\* A structured result of the type that is waited for.
Expected(m) == m.out # Bad /\ TypeOf[m.out] = TypeOf[current]

\* The answer is taken and run_job goes on; a ProverFinalTrace may say that
\* there is nothing left to challenge.
TakeAnswer ==
  /\ Waiting /\ mailbox # <<>> /\ Expected(Head(mailbox))
  /\ taken' = Append(taken, Head(mailbox))
  /\ mailbox' = Tail(mailbox)
  /\ cpc' \in CASE current.kind = "VerifierChooseChallenge" -> {"done"}
                [] current.kind = "ProverFinalTrace" -> {"send", "done"}
                [] OTHER -> {"send"}
  /\ UNCHANGED <<vars, attempts, stops>>

\* Any other result, and every error, is consumed and costs an attempt.
DiscardAnswer ==
  /\ Waiting /\ mailbox # <<>> /\ ~Expected(Head(mailbox))
  /\ mailbox' = Tail(mailbox)
  /\ attempts' = attempts + 1
  /\ UNCHANGED <<vars, cpc, taken, stops>>

\* Nothing there: so does a wait.
WaitLonger ==
  /\ Waiting /\ mailbox = <<>>
  /\ attempts' = attempts + 1
  /\ UNCHANGED <<vars, mailbox, cpc, taken, stops>>

GiveUp ==
  /\ cpc = "wait" /\ attempts = MaxAttempts
  /\ cpc' = "gaveup"
  /\ UNCHANGED <<vars, mailbox, attempts, taken, stops>>

Client ==
  \/ SendJob
  \/ SendRefused
  \/ ClientFails
  \/ TakeAnswer
  \/ DiscardAnswer
  \/ WaitLonger
  \/ GiveUp

-----------------------------------------------------------------------------
(* The dispatcher, its results going to the mailbox *)

\* A step that queues no result for the client.
OtherStep ==
  /\ Dispatcher
  /\ pc' # "remove" /\ delivered' = delivered
  /\ UNCHANGED <<mailbox, client, stops>>

DeliverResult(j) ==
  /\ SendResult(j)
  /\ mailbox' = Append(mailbox, results[j])
  /\ UNCHANGED <<client, stops>>

\* The call fails although the result was queued: it will be sent again.
DeliverAndFail(j) ==
  /\ Len(mailbox) < MaxMailbox
  /\ SendFails(j) /\ results[j] \in delivered'
  /\ mailbox' = Append(mailbox, results[j])
  /\ UNCHANGED <<client, stops>>

DispatcherRuns ==
  \/ OtherStep
  \/ \E j \in JobIds : DeliverResult(j) \/ DeliverAndFail(j)

\* dispatcher_loop returns: `running` is looked at between two ticks.  The
\* workers are neither waited for nor killed.  MaxCrashes bounds stops and
\* crashes together.
Stop ==
  /\ pc = "get" /\ stops + crashes < MaxCrashes
  /\ stops' = stops + 1
  /\ Dies
  /\ UNCHANGED <<crashes, mailbox, client>>

Surroundings ==
  /\ \/ \E r \in JobRequests : WorkerWrites(r)
     \/ \E p \in Pids : WorkerExits(p)
     \/ Restart
     \/ Crash /\ stops + crashes < MaxCrashes
  /\ UNCHANGED <<mailbox, client, stops>>

ClientNext == Client \/ DispatcherRuns \/ Stop \/ Surroundings

ClientSpec == ClientInit /\ [][ClientNext]_cvars

-----------------------------------------------------------------------------
(* Properties *)

\* The client's variables keep their kinds of values.
ClientTypeOK ==
  /\ mailbox \in Seq(Result)
  /\ cpc \in {"send", "wait", "done", "gaveup"}
  /\ attempts \in 0..MaxAttempts
  /\ taken \in Seq(Result) /\ Len(taken) <= Len(Challenge)
  /\ stops \in 0..MaxCrashes

\* Every result the client took is the answer to the job it had sent for that
\* stage, although all jobs have one id, types come back in every round,
\* results are sent several times and the dispatcher is lost or stopped in
\* between (challenge.rs:189 compares nothing but the type).
AnswersInOrder ==
  \A i \in 1..Len(taken) : taken[i].req = Challenge[i]

\* As long as the dispatcher is neither lost nor stopped, the text is that
\* job's own too, although all jobs write one file.  A stop leaves workers
\* behind, and one of an earlier round may write the file last.
OutputsAreOwn ==
  crashes = 0 /\ stops = 0 => \A i \in 1..Len(taken) : taken[i].out = Challenge[i]

\* As long as the dispatcher is not lost, a client that still waits, or gave
\* up, has not missed its answer: the request is queued or stored, or its
\* result is in the mailbox, or what the client was told was an error.  This
\* holds through stops: no job is skipped because the one before it, which
\* has the same id, is still stored.
NothingMissed ==
  crashes = 0 =>
    \A r \in sent :
      \/ \E i \in 1..Len(taken) : taken[i].req = r
      \/ InInbox(r) \/ r \in Kept
      \/ \E i \in 1..Len(mailbox) : mailbox[i].req = r
      \/ [req |-> r, out |-> Bad] \in delivered

\* The client is more patient than Checkpoints asks of clients: two jobs on one
\* checkpoint are never queued or stored at the same time, not even when a
\* message is delivered again after its answer.  So the exception that
\* StartsWhole makes for such messages does not arise here.
PatientOnBase ==
  LET Open(r) == InInbox(r) \/ jobs[JobIdOf[r]] = r
  IN \A q, r \in sent : q # r /\ BaseOf(q) = BaseOf(r) => ~(Open(q) /\ Open(r))

\* The rounds of get_total_rounds narrow maxSteps steps to one, for searches of
\* every size, and no fewer would.
RoundsReachOneStep ==
  \A maxSteps \in 2..40, nary \in {2, 4, 8} :
    LET n == TotalRounds(maxSteps, nary)
    IN nary^n >= maxSteps /\ nary^(n - 1) < maxSteps

\* When the final trace is asked for, the segments the verifier chose have
\* narrowed the search from MaxSteps steps to one, and one choice less would
\* not have: the client asks for as many rounds as it takes, through all
\* discarded and repeated results (as long as the dispatcher goes on).
SearchIsComplete ==
  LET Asked(kind) == {r \in sent : r.kind = kind}
      chosen      == {taken[i].out : i \in 1..Len(taken)}
                       \cap Asked("VerifierChooseSegment")
      n           == Cardinality(chosen)
  IN crashes = 0 /\ stops = 0 /\ Asked("ProverFinalTrace") # {} =>
       RoundsReachOneStep /\ Nary^n >= MaxSteps /\ Nary^(n - 1) < MaxSteps

=============================================================================
