-------------------------- MODULE GarbledClientProofs --------------------------
(***************************************************************************)
(* Proofs about GarbledClient and the directories of WorkDirs below it:    *)
(* types, then what files, workers and the dispatcher's hand say of one    *)
(* another, and from these what an answer and a proof that is read are     *)
(* worth.                                                                  *)
(***************************************************************************)
EXTENDS GarbledClient, QueueLemmas, TLAPS

-----------------------------------------------------------------------------
(* The invariant *)

\* n is a run of request r.
RunOf(n, r) == procs[n] # None /\ procs[n].req = r

\* n is a run of request r that has read its inputs.
Read(n, r) == RunOf(n, r) /\ procs[n].st # "started"

\* The inputs of request r are all there.
Whole(r) == \A f \in Inputs(r) : Files(r)[f] = r

\* In its directory an input of a request is the input, or cut short; all else
\* was written by a run of that request.
FilesOK ==
  \A r \in Requests, f \in Names :
    LET x == Files(r)[f]
    IN IF f \in Inputs(r) THEN x \in {r, None, Torn}
                          ELSE x = None \/ (x \in Runs /\ Read(x, r))

\* The request in hand is stored and is not running; what is not left to be
\* written of its inputs is there.  Requests to be restored are not running.
HandOK ==
  /\ pc \in {"inputs", "spawn", "ack"} => cur \in Requests
  /\ pc \in {"inputs", "spawn"} =>
       /\ cur \in open \ todo /\ tracked[cur] = None
       /\ phase = "idle" => todo = {}
  /\ pc = "inputs" =>
       /\ \A i \in 1..Len(left) : left[i] \in Inputs(cur)
       /\ \A f \in Inputs(cur) :
            (\E i \in 1..Len(left) : left[i] = f) \/ Files(cur)[f] = cur
  /\ pc = "spawn" => Whole(cur)
  /\ pc = "down" => \A r \in Requests : tracked[r] = None
  /\ pc \in {"idle", "ack"} => todo = {}
  /\ \A r \in todo : r \in open /\ tracked[r] = None

\* A tracked run is one of its request, which is stored; it will find, or has
\* found, its inputs.
TrackedOK ==
  \A r \in Requests : tracked[r] # None =>
    /\ r \in open
    /\ RunOf(tracked[r], r)
    /\ procs[tracked[r]].st = "started" => Whole(r)
    /\ procs[tracked[r]].st \in {"working", "ok"} => procs[tracked[r]].sound

\* Nothing is stored, queued or run that was not asked for.
AskedOK ==
  /\ waiting \subseteq asked /\ open \subseteq asked
  /\ \A n \in Runs : procs[n] # None => procs[n].req \in asked

\* As long as the dispatcher was not lost, a request has one run at most, and
\* none while its message waits to be handled.
OnceOK ==
  crashes = 0 =>
    /\ \A m, n \in Runs : \A r \in Requests : RunOf(m, r) /\ RunOf(n, r) => m = n
    /\ \A n \in Runs, r \in waiting : RunOf(n, r) => pc = "ack" /\ cur = r
    /\ pc \in {"inputs", "spawn"} => phase = "idle" /\ \A n \in Runs : ~RunOf(n, cur)
    /\ pc \in {"down", "restore"} => open = {} /\ todo = {}

\* A success names a run of its request; as long as the dispatcher was not lost
\* that run has ended well, from whole inputs.
AnswersOK ==
  \A a \in answers : a.out # Bad =>
    /\ Read(a.out, a.req)
    /\ crashes = 0 => procs[a.out].st = "ok" /\ procs[a.out].sound

DirsInv == FilesOK /\ HandOK /\ TrackedOK /\ AskedOK /\ OnceOK /\ AnswersOK

\* What the client took and read comes from a run of its first job.
ClientOK ==
  /\ cpc \in {"prove", "proving"} => proved = None /\ \A f \in Proof : blob[f] = None
  /\ cpc \notin {"prove", "proving"} => [req |-> prove, out |-> proved] \in answers /\ proved # None
  /\ crashes = 0 => \A f \in Proof : blob[f] \in {None, proved}

-----------------------------------------------------------------------------
(* Files of a request *)

\* The inputs of a request have names of their own: its worker writes others.
LEMMA InputNames ==
  ASSUME NEW r \in Requests
  PROVE  /\ InputsOf(r) \in Seq(Names)
         /\ Inputs(r) \subseteq Names /\ OutputsOf(r) \subseteq Names
         /\ Inputs(r) \cap OutputsOf(r) = {}
         /\ Inputs(r) = {InputsOf(r)[i] : i \in 1..Len(InputsOf(r))}
<1>1. KindOf[r] \in Kinds
  BY RequestsAssumption
<1>2. Proof \subseteq {"gc_proof", "lamport_proof", "commitments"}
      /\ ProofFiles \in Seq(Proof)
  <2>1. ProofFiles \in Seq({"gc_proof", "lamport_proof", "commitments"})
    BY RequestsAssumption
  <2>2. \A i \in 1..Len(ProofFiles) : ProofFiles[i] \in {"gc_proof", "lamport_proof", "commitments"}
    BY <2>1, ElementOfSeq
  <2>3. ProofFiles \in Seq(Proof)
    BY <2>1, LenProperties, SeqDef DEF Proof
  <2> QED
    BY <2>2, <2>3 DEF Proof
<1>3. CASE KindOf[r] = "Verify"
  <2>1. ProofFiles \in Seq(Names) /\ <<"public_data">> \in Seq(Names)
    BY <1>2 DEF Names
  <2>2. InputsOf(r) = <<"public_data">> \o ProofFiles
    BY <1>3 DEF InputsOf
  <2>3. /\ InputsOf(r) \in Seq(Names)
        /\ Len(InputsOf(r)) = 1 + Len(ProofFiles)
        /\ \A i \in 1..Len(InputsOf(r)) :
             InputsOf(r)[i] = IF i <= 1 THEN "public_data" ELSE ProofFiles[i - 1]
    BY <2>1, <2>2, ConcatProperties
  <2>4. \A i \in 1..Len(InputsOf(r)) : InputsOf(r)[i] \in Proof \cup {"public_data"}
    <3>1. Len(ProofFiles) \in Nat
      BY <1>2, LenProperties
    <3>2. \A i \in 1..Len(InputsOf(r)) : i <= 1 \/ i - 1 \in 1..Len(ProofFiles)
      BY <2>3, <3>1
    <3> QED
      BY <2>3, <3>2 DEF Proof
  <2> QED
    BY <1>2, <1>3, <2>3, <2>4 DEF Inputs, OutputsOf, Names
<1>4. CASE KindOf[r] = "Evaluate"
  BY <1>4 DEF Inputs, InputsOf, OutputsOf, Names
<1>5. CASE KindOf[r] = "ZkProve"
  BY <1>5 DEF Inputs, InputsOf, OutputsOf, Names, ZkInputs, ZkOutputs
<1>6. CASE KindOf[r] \in {"Prove", "ImportProof"}
  BY <1>2, <1>6 DEF Inputs, InputsOf, OutputsOf, Names
<1> QED
  BY <1>1, <1>3, <1>4, <1>5, <1>6 DEF Kinds

-----------------------------------------------------------------------------
(* Types *)

\* What a step does to the dispatcher, its workers and the files.
DirsNext ==
  \/ \E r \in Requests : Sends(r)
  \/ (Worker \/ Dispatcher \/ Crash) /\ UNCHANGED asked
  \/ UNCHANGED <<vars, asked>>

LEMMA ClientDirs == [ClientNext]_cvars => DirsNext
BY ClientAssumption DEF ClientNext, Client, OtherClient, SendProve, TakeProveResult, ReadProofFile,
   SendVerify, TakeVerifyResult, DirsNext, cvars, client

LEMMA TypeStep ==
  ASSUME TypeOK, FilesOK, HandOK, TrackedOK, DirsNext
  PROVE  TypeOK'
<1> USE DEF TypeOK, store, disk, hand, Files
<1>1. ASSUME NEW r \in Requests, Sends(r) PROVE TypeOK'
  BY <1>1 DEF Sends, Ask
<1>2. ASSUME NEW n \in Runs, ReadsInputs(n) PROVE TypeOK'
  <2> DEFINE s == \A f \in Inputs(procs[n].req) : Files(procs[n].req)[f] = procs[n].req
  <2>1. procs[n] \in Proc /\ s \in BOOLEAN
    BY <1>2 DEF ReadsInputs, InState, Proc
  <2>2. /\ procs' = [procs EXCEPT ![n] = [procs[n] EXCEPT !.st = "working", !.sound = s]]
        /\ UNCHANGED <<store, dirs, pc, tracked, hand, crashes>>
    BY <1>2, <2>1 DEF ReadsInputs
  <2> HIDE DEF s
  <2>3. [procs[n] EXCEPT !.st = "working", !.sound = s] \in Proc
    BY <2>1 DEF Proc
  <2>4. procs' \in [Runs -> Proc \cup {None}]
    BY <2>2, <2>3
  <2> QED
    BY <2>2, <2>4
<1>3. ASSUME NEW n \in Runs, NEW f \in Names, WritesOutput(n, f) PROVE TypeOK'
  <2>1. procs[n] \in Proc /\ DirOf[procs[n].req] \in Dirs
    BY <1>3, RequestsAssumption DEF WritesOutput, InState, Proc
  <2>2. [procs[n] EXCEPT !.wrote = @ \cup {f}] \in Proc
    BY <2>1 DEF Proc
  <2>3. procs' \in [Runs -> Proc \cup {None}]
    BY <1>3, <2>2 DEF WritesOutput
  <2>4. dirs' \in [Dirs -> [Names -> Requests \cup Runs \cup {None, Torn}]]
    BY <1>3, <2>1 DEF WritesOutput
  <2> QED
    BY <1>3, <2>3, <2>4 DEF WritesOutput
<1>4. ASSUME NEW n \in Runs, Ends(n) PROVE TypeOK'
  BY <1>4 DEF Ends, InState, Proc
<1>5. ASSUME NEW r \in Requests, AcceptJob(r) PROVE TypeOK'
  BY <1>5, InputNames DEF AcceptJob, Starts
<1>6. ASSUME NEW r \in Requests, SkipJob(r) PROVE TypeOK'
  BY <1>6 DEF SkipJob
<1>7. CASE Restart
  BY <1>7 DEF Restart
<1>8. ASSUME NEW r \in Requests, RestoreJob(r) PROVE TypeOK'
  BY <1>8, InputNames DEF RestoreJob, Starts
<1>9. CASE EndRestore
  BY <1>9 DEF EndRestore
<1>10. CASE TruncateInput
  BY <1>10, TailIn, RequestsAssumption DEF TruncateInput
<1>11. CASE FillInput
  BY <1>11, TailIn, RequestsAssumption DEF FillInput, HandOK
<1>12. CASE EndInputs
  BY <1>12 DEF EndInputs
<1>13. ASSUME NEW n \in Runs, Spawn(n) PROVE TypeOK'
  BY <1>13 DEF Spawn, Proc, HandOK
<1>14. CASE Ack
  BY <1>14 DEF Ack
<1>15. ASSUME NEW r \in Requests, CollectSuccess(r) PROVE TypeOK'
  <2>1. Files(r)["output"] \in Requests \cup Runs \cup {None, Torn}
    BY RequestsAssumption DEF Names
  <2>2. Extracted(r, Files(r)["output"]) \in Runs \cup {Bad}
    BY <2>1 DEF Extracted
  <2> QED
    BY <1>15, <2>2 DEF CollectSuccess, Closes, Answer
<1>16. ASSUME NEW r \in Requests, CollectFailure(r) PROVE TypeOK'
  BY <1>16 DEF CollectFailure, Closes, Answer
<1>17. CASE Crash
  BY <1>17 DEF Crash
<1>18. CASE UNCHANGED vars
  BY <1>18 DEF vars
<1> QED
  BY <1>1, <1>2, <1>3, <1>4, <1>5, <1>6, <1>7, <1>8, <1>9, <1>10, <1>11,
     <1>12, <1>13, <1>14, <1>15, <1>16, <1>17, <1>18
  DEF DirsNext, Worker, Dispatcher

LEMMA FirstInput ==
  ASSUME TypeOK, HandOK, pc = "inputs", left # <<>>
  PROVE  Head(left) \in Inputs(cur) /\ cur \in Requests
<1>1. \E i \in 1..Len(left) : left[i] = Head(left)
  BY TailIn DEF TypeOK
<1> QED
  BY <1>1 DEF HandOK

\* The dispatcher writes inputs only, of the request it has in hand.
LEMMA InputWritten ==
  ASSUME TypeOK, HandOK, TruncateInput \/ FillInput, NEW r \in Requests, NEW f \in Names
  PROVE  \/ dirs'[DirOf[r]][f] = Files(r)[f]
         \/ r = cur /\ f = Head(left) /\ f \in Inputs(r) /\ dirs'[DirOf[r]][f] \in {r, Torn}
<1>1. Head(left) \in Inputs(cur) /\ cur \in Requests /\ Inputs(cur) \subseteq Names
  BY FirstInput, InputNames DEF TruncateInput, FillInput
<1>2. dirs \in [Dirs -> [Names -> Requests \cup Runs \cup {None, Torn}]]
      /\ DirOf[r] \in Dirs /\ DirOf[cur] \in Dirs
  BY <1>1, RequestsAssumption DEF TypeOK
<1>3. PICK x \in {cur, Torn} : dirs' = [dirs EXCEPT ![DirOf[cur]][Head(left)] = x]
  BY DEF TruncateInput, FillInput
<1>4. CASE r = cur /\ f = Head(left)
  BY <1>1, <1>2, <1>3, <1>4
<1>5. CASE r # cur
  <2>1. DirOf[r] # DirOf[cur]
    BY <1>1, <1>5, ClientAssumption
  <2> QED
    BY <1>2, <1>3, <2>1 DEF Files
<1>6. CASE f # Head(left)
  BY <1>1, <1>2, <1>3, <1>6 DEF Files
<1> QED
  BY <1>4, <1>5, <1>6

\* Workers write all other files, each in the directory of its request.
LEMMA OutputWritten ==
  ASSUME TypeOK, NEW n \in Runs, NEW g \in Names, WritesOutput(n, g),
         NEW r \in Requests, NEW f \in Names
  PROVE  \/ dirs'[DirOf[r]][f] = Files(r)[f]
         \/ f = g /\ RunOf(n, r) /\ f \notin Inputs(r) /\ dirs'[DirOf[r]][f] = n
<1> DEFINE q == procs[n].req
<1>1. q \in Requests /\ RunOf(n, q) /\ g \in OutputsOf(q)
      /\ dirs' = [dirs EXCEPT ![DirOf[q]][g] = n]
  BY DEF WritesOutput, InState, RunOf, TypeOK, Proc
<1>2. dirs \in [Dirs -> [Names -> Requests \cup Runs \cup {None, Torn}]]
      /\ DirOf[r] \in Dirs /\ DirOf[q] \in Dirs
  BY <1>1, RequestsAssumption DEF TypeOK
<1>3. CASE r = q /\ f = g
  BY <1>1, <1>2, <1>3, InputNames
<1>4. CASE r # q
  <2>1. DirOf[r] # DirOf[q]
    BY <1>1, <1>4, ClientAssumption
  <2> QED
    BY <1>1, <1>2, <2>1 DEF Files
<1>5. CASE f # g
  BY <1>1, <1>2, <1>5 DEF Files
<1> QED
  BY <1>3, <1>4, <1>5

\* No other step touches a file.
LEMMA FilesKept ==
  ASSUME DirsNext
  PROVE  \/ TruncateInput \/ FillInput
         \/ \E n \in Runs, g \in Names : WritesOutput(n, g)
         \/ UNCHANGED dirs
BY DEF DirsNext, Worker, Dispatcher, Sends, Ask, ReadsInputs, Ends, AcceptJob, SkipJob,
   Restart, RestoreJob, EndRestore, EndInputs, Spawn, Ack, CollectSuccess,
   CollectFailure, Crash, vars, disk

\* A run is spawned for the request in hand; it reads its inputs and ends, and
\* is a run of that request for ever.
LEMMA RunStep ==
  ASSUME TypeOK, DirsNext, NEW n \in Runs
  PROVE  \/ procs'[n] = procs[n]
         \/ /\ Spawn(n) /\ procs[n] = None
            /\ procs'[n] = [req |-> cur, st |-> "started", sound |-> FALSE, wrote |-> {}]
         \/ /\ procs[n] # None /\ procs'[n] # None
            /\ procs'[n].req = procs[n].req
            /\ procs[n].st \in {"started", "working"}
            /\ procs'[n].st \in {"working", "ok", "failed"}
            /\ procs'[n].st # "failed" =>
                 procs'[n].sound = IF procs[n].st = "started" THEN Whole(procs[n].req)
                                                              ELSE procs[n].sound
<1> USE DEF TypeOK
<1>1. ASSUME NEW m \in Runs, Spawn(m)
      PROVE  procs'[n] = procs[n] \/ (m = n /\ procs[n] = None /\ procs'[n] =
               [req |-> cur, st |-> "started", sound |-> FALSE, wrote |-> {}])
  BY <1>1 DEF Spawn
<1>2. CASE ReadsInputs(n)
  <2> DEFINE s == Whole(procs[n].req)
  <2>1. procs[n] \in Proc /\ procs[n].st = "started" /\ procs[n] # None
        /\ s \in BOOLEAN
    BY <1>2 DEF ReadsInputs, InState, Whole
  <2>2. procs'[n] = [procs[n] EXCEPT !.st = "working", !.sound = s]
    BY <1>2 DEF ReadsInputs, Whole
  <2> HIDE DEF s
  <2>3. /\ procs'[n] # None /\ procs'[n].req = procs[n].req
        /\ procs'[n].st = "working" /\ procs'[n].sound = s
    <3>1. [procs[n] EXCEPT !.st = "working", !.sound = s] \in Proc
      BY <2>1 DEF Proc
    <3> QED
      BY <2>1, <2>2, <3>1, NoneAssumption DEF Proc
  <2> QED
    BY <2>1, <2>3 DEF s
<1>3. CASE Ends(n)
  BY <1>3, NoneAssumption DEF Ends, InState, Proc
<1>4. ASSUME NEW f \in Names, WritesOutput(n, f)
      PROVE  /\ procs[n] # None /\ procs'[n] # None /\ procs'[n].req = procs[n].req
             /\ procs[n].st = "working" /\ procs'[n].st = "working"
             /\ procs'[n].sound = procs[n].sound
  BY <1>4, NoneAssumption DEF WritesOutput, InState, Proc
<1>5. ASSUME NEW m \in Runs, m # n,
             ReadsInputs(m) \/ Ends(m) \/ \E f \in Names : WritesOutput(m, f)
      PROVE  procs'[n] = procs[n]
  BY <1>5 DEF ReadsInputs, Ends, WritesOutput
<1>6. ASSUME ~Worker, ~\E m \in Runs : Spawn(m) PROVE UNCHANGED procs
  BY <1>6 DEF DirsNext, Dispatcher, Sends, Ask, AcceptJob, SkipJob,
     Restart, RestoreJob, EndRestore, TruncateInput, FillInput, EndInputs, Ack,
     CollectSuccess, CollectFailure, Crash, vars, disk
<1> QED
  BY <1>1, <1>2, <1>3, <1>4, <1>5, <1>6 DEF Worker

\* Which request a run is of is settled when it is spawned.
LEMMA RunsKept ==
  ASSUME TypeOK, DirsNext, NEW n \in Runs, NEW r
  PROVE  /\ RunOf(n, r) => RunOf(n, r)'
         /\ Read(n, r) => Read(n, r)'
         /\ RunOf(n, r)' => RunOf(n, r) \/ (Spawn(n) /\ r = cur)
BY RunStep, NoneAssumption DEF RunOf, Read

\* An input changes only when it is written.
LEMMA InputKept ==
  ASSUME TypeOK, HandOK, DirsNext, ~TruncateInput, ~FillInput,
         NEW r \in Requests, NEW f \in Inputs(r)
  PROVE  dirs'[DirOf[r]][f] = Files(r)[f]
<1>1. f \in Names
  BY InputNames
<1> QED
  BY <1>1, OutputWritten, FilesKept DEF Files

LEMMA FilesStep ==
  ASSUME TypeOK, HandOK, FilesOK, DirsNext
  PROVE  FilesOK'
<1> SUFFICES ASSUME NEW r \in Requests, NEW f \in Names
             PROVE  LET x == dirs'[DirOf[r]][f]
                    IN IF f \in Inputs(r)
                         THEN x \in {r, None, Torn}
                         ELSE \/ x = None
                              \/ /\ x \in Runs
                                 /\ procs'[x] # None /\ procs'[x].req = r
                                 /\ procs'[x].st # "started"
  BY DEF FilesOK, Files, Read, RunOf
<1>1. CASE dirs'[DirOf[r]][f] = Files(r)[f]
  BY <1>1, RunsKept DEF FilesOK, Read, RunOf
<1>2. CASE TruncateInput \/ FillInput
  BY <1>1, <1>2, InputWritten
<1>3. ASSUME NEW n \in Runs, WritesOutput(n, f), RunOf(n, r), f \notin Inputs(r),
             dirs'[DirOf[r]][f] = n
      PROVE  /\ procs'[n] # None /\ procs'[n].req = r
             /\ procs'[n].st # "started"
  BY <1>3, RunsKept DEF WritesOutput, InState, RunOf, Read
<1>4. ASSUME NEW n \in Runs, NEW g \in Names, WritesOutput(n, g),
             dirs'[DirOf[r]][f] # Files(r)[f]
      PROVE  /\ WritesOutput(n, f) /\ RunOf(n, r) /\ f \notin Inputs(r)
             /\ dirs'[DirOf[r]][f] = n
  BY <1>4, OutputWritten
<1>5. CASE UNCHANGED dirs
  BY <1>1, <1>5 DEF Files
<1> QED
  BY <1>1, <1>2, <1>3, <1>4, <1>5, FilesKept

LEMMA HandStep ==
  ASSUME TypeOK, TrackedOK, HandOK, DirsNext
  PROVE  HandOK'
<1> USE DEF TypeOK, HandOK, store, disk, hand, Whole, Files
<1>1. ASSUME NEW r \in Requests, Sends(r) PROVE HandOK'
  BY <1>1 DEF Sends, Ask
<1>2. ASSUME NEW n \in Runs, ReadsInputs(n) PROVE HandOK'
  BY <1>2 DEF ReadsInputs, InState
<1>3. ASSUME NEW n \in Runs, NEW f \in Names, WritesOutput(n, f) PROVE HandOK'
  <2>1. \A q \in Requests : \A g \in Inputs(q) : dirs'[DirOf[q]][g] = dirs[DirOf[q]][g]
    <3> SUFFICES ASSUME NEW q \in Requests, NEW g \in Inputs(q)
                 PROVE  dirs'[DirOf[q]][g] = dirs[DirOf[q]][g]
      OBVIOUS
    <3>1. g \in Names
      BY InputNames
    <3> QED
      BY <1>3, <3>1, OutputWritten DEF Files
  <2> QED
    BY <1>3, <2>1 DEF WritesOutput
<1>4. ASSUME NEW n \in Runs, Ends(n) PROVE HandOK'
  BY <1>4 DEF Ends, InState
<1>5. ASSUME NEW r \in Requests, AcceptJob(r) PROVE HandOK'
  <2>1. pc' = "inputs" /\ cur' = r /\ left' = InputsOf(r) /\ phase' = "idle"
        /\ open' = open \cup {r} /\ r \notin open /\ todo' = {}
        /\ UNCHANGED <<tracked, dirs>>
    BY <1>5 DEF AcceptJob, Starts
  <2>2. tracked[r] = None
    BY <2>1 DEF TrackedOK
  <2>3. Inputs(r) = {InputsOf(r)[i] : i \in 1..Len(InputsOf(r))}
    BY DEF Inputs
  <2> QED
    BY <2>1, <2>2, <2>3
<1>6. ASSUME NEW r \in Requests, SkipJob(r) PROVE HandOK'
  BY <1>6 DEF SkipJob
<1>7. CASE Restart
  BY <1>7 DEF Restart
<1>8. ASSUME NEW r \in Requests, RestoreJob(r) PROVE HandOK'
  <2>1. pc' = "inputs" /\ cur' = r /\ left' = InputsOf(r) /\ phase' = "restore"
        /\ r \in todo /\ todo' = todo \ {r}
        /\ UNCHANGED <<open, tracked, dirs>>
    BY <1>8 DEF RestoreJob, Starts
  <2>2. Inputs(r) = {InputsOf(r)[i] : i \in 1..Len(InputsOf(r))}
    BY DEF Inputs
  <2> QED
    BY <2>1, <2>2
<1>9. CASE EndRestore
  BY <1>9 DEF EndRestore
<1>10. CASE TruncateInput
  <2>1. Head(left) \in Inputs(cur) /\ cur \in Requests
    BY <1>10, FirstInput DEF TruncateInput
  <2>2. Inputs(cur) \subseteq Names /\ \E i \in 1..Len(left) : left[i] = Head(left)
    BY <1>10, <2>1, InputNames, TailIn DEF TruncateInput
  <2>3. \A f \in Inputs(cur) : f # Head(left) => dirs'[DirOf[cur]][f] = dirs[DirOf[cur]][f]
    BY <2>1, <2>2, <1>10, InputWritten
  <2> QED
    BY <1>10, <2>1, <2>2, <2>3 DEF TruncateInput
<1>11. CASE FillInput
  <2>1. Head(left) \in Inputs(cur) /\ cur \in Requests
    BY <1>11, FirstInput DEF FillInput
  <2>2. Inputs(cur) \subseteq Names /\ DirOf[cur] \in Dirs
    BY <2>1, InputNames, RequestsAssumption
  <2>3. \A f : (\E i \in 1..Len(left) : left[i] = f)
               <=> (\E i \in 1..Len(left') : left'[i] = f) \/ f = Head(left)
    <3>1. left \in Seq(Names) /\ left # <<>> /\ left' = Tail(left)
      BY <1>11 DEF FillInput
    <3>2. \A f : (\E i \in 1..Len(left) : left[i] = f)
                 <=> (\E i \in 1..Len(Tail(left)) : Tail(left)[i] = f) \/ f = Head(left)
      BY ONLY <3>1, TailIn
    <3>3. left' = Tail(left)
      BY <3>1
    <3> QED
      BY <3>2, <3>3, Zenon
  <2>4. \A f \in Inputs(cur) :
          (\E i \in 1..Len(left') : left'[i] = f) \/ dirs'[DirOf[cur]][f] = cur
    <3> SUFFICES ASSUME NEW f \in Inputs(cur), ~\E i \in 1..Len(left') : left'[i] = f
                 PROVE  dirs'[DirOf[cur]][f] = cur
      OBVIOUS
    <3>1. CASE f = Head(left)
      BY <1>11, <2>1, <2>2, <3>1 DEF FillInput
    <3>2. CASE f # Head(left)
      <4>1. dirs'[DirOf[cur]][f] = Files(cur)[f]
        BY <1>11, <2>1, <2>2, <3>2, InputWritten
      <4>2. ~\E i \in 1..Len(left) : left[i] = f
        BY <2>3, <3>2
      <4>3. Files(cur)[f] = cur
        BY <1>11, <4>2 DEF FillInput
      <4> QED
        BY <4>1, <4>3
    <3> QED
      BY <3>1, <3>2
  <2>5. \A i \in 1..Len(left') : left'[i] \in Inputs(cur)
    BY <1>11, <2>3 DEF FillInput
  <2> QED
    BY <1>11, <2>1, <2>4, <2>5 DEF FillInput
<1>12. CASE EndInputs
  BY <1>12 DEF EndInputs
<1>13. ASSUME NEW n \in Runs, Spawn(n) PROVE HandOK'
  BY <1>13 DEF Spawn
<1>14. CASE Ack
  BY <1>14 DEF Ack
<1>15. ASSUME NEW r \in Requests, CollectSuccess(r) PROVE HandOK'
  <2>1. pc = "idle" /\ todo = {} /\ UNCHANGED <<pc, cur, left, todo, phase, dirs>>
    BY <1>15 DEF CollectSuccess
  <2> QED
    BY <2>1
<1>16. ASSUME NEW r \in Requests, CollectFailure(r) PROVE HandOK'
  <2>1. pc = "idle" /\ todo = {} /\ UNCHANGED <<pc, cur, left, todo, phase, dirs>>
    BY <1>16 DEF CollectFailure
  <2> QED
    BY <2>1
<1>17. CASE Crash
  BY <1>17 DEF Crash
<1>18. CASE UNCHANGED vars
  BY <1>18 DEF vars
<1> QED
  BY <1>1, <1>2, <1>3, <1>4, <1>5, <1>6, <1>7, <1>8, <1>9, <1>10, <1>11,
     <1>12, <1>13, <1>14, <1>15, <1>16, <1>17, <1>18
  DEF DirsNext, Worker, Dispatcher

LEMMA AskedStep ==
  ASSUME TypeOK, HandOK, AskedOK, DirsNext
  PROVE  AskedOK'
<1>1. asked \subseteq asked'
  BY DEF DirsNext, Sends
<1>2. waiting' \subseteq asked' /\ open' \subseteq asked'
  BY DEF AskedOK, DirsNext, Worker, Dispatcher, Sends, Ask, ReadsInputs, WritesOutput, Ends,
     AcceptJob, SkipJob, Restart, RestoreJob, EndRestore, TruncateInput, FillInput,
     EndInputs, Spawn, Ack, CollectSuccess, CollectFailure, Closes, Crash, vars, store
<1>3. ASSUME NEW n \in Runs, procs'[n] # None PROVE procs'[n].req \in asked'
  <2>1. RunOf(n, procs'[n].req) \/ (Spawn(n) /\ procs'[n].req = cur)
    BY <1>3, RunsKept DEF RunOf
  <2>2. Spawn(n) => cur \in asked
    BY DEF Spawn, HandOK, AskedOK
  <2> QED
    BY <1>1, <2>1, <2>2 DEF RunOf, AskedOK
<1> QED
  BY <1>2, <1>3 DEF AskedOK

\* Which run is tracked for a request, and what is stored, changes when the run
\* is spawned or collected, or the dispatcher is lost.
LEMMA TrackStep ==
  ASSUME TypeOK, HandOK, DirsNext, NEW r \in Requests, tracked'[r] # None
  PROVE  \/ tracked'[r] = tracked[r] /\ (r \in open => r \in open')
         \/ /\ r = cur /\ pc = "spawn" /\ UNCHANGED <<open, dirs>>
            /\ tracked'[r] \in Runs /\ Spawn(tracked'[r])
<1> USE DEF TypeOK
<1>1. ASSUME NEW n \in Runs, Spawn(n)
      PROVE  \/ tracked'[r] = tracked[r] /\ (r \in open => r \in open')
             \/ /\ r = cur /\ pc = "spawn" /\ UNCHANGED <<open, dirs>>
                /\ tracked'[r] \in Runs /\ Spawn(tracked'[r])
  <2>1. /\ pc = "spawn" /\ tracked' = [tracked EXCEPT ![cur] = n]
        /\ UNCHANGED <<open, dirs>>
    BY <1>1 DEF Spawn, store
  <2>2. r # cur => tracked'[r] = tracked[r]
    BY <2>1
  <2>3. r = cur => tracked'[r] = n
    BY <2>1
  <2> QED
    BY <1>1, <2>1, <2>2, <2>3
<1>2. ASSUME NEW q \in Requests, CollectSuccess(q) \/ CollectFailure(q)
      PROVE  tracked'[r] = tracked[r] /\ (r \in open => r \in open')
  BY <1>2 DEF CollectSuccess, CollectFailure, Closes
<1>3. ASSUME ~\E n \in Runs : Spawn(n),
             ~\E q \in Requests : CollectSuccess(q) \/ CollectFailure(q), ~Crash
      PROVE  UNCHANGED tracked /\ open \subseteq open'
  BY <1>3 DEF DirsNext, Worker, Dispatcher, Sends, Ask, ReadsInputs, WritesOutput, Ends,
     AcceptJob, SkipJob, Restart, RestoreJob, EndRestore, TruncateInput, FillInput,
     EndInputs, Ack, vars, store
<1>4. CASE Crash
  BY <1>4 DEF Crash
<1> QED
  BY <1>1, <1>2, <1>3, <1>4

LEMMA TrackedStep ==
  ASSUME TypeOK, HandOK, TrackedOK, DirsNext
  PROVE  TrackedOK'
<1> SUFFICES ASSUME NEW r \in Requests, tracked'[r] # None
             PROVE  LET n == tracked'[r]
                    IN /\ r \in open'
                       /\ procs'[n] # None /\ procs'[n].req = r
                       /\ procs'[n].st = "started" =>
                            \A f \in Inputs(r) : dirs'[DirOf[r]][f] = r
                       /\ procs'[n].st \in {"working", "ok"} => procs'[n].sound
  BY DEF TrackedOK, RunOf, Whole, Files
<1> DEFINE n == tracked'[r]
<1>1. CASE r = cur /\ pc = "spawn" /\ UNCHANGED <<open, dirs>> /\ n \in Runs /\ Spawn(n)
  <2>1. procs'[n] = [req |-> cur, st |-> "started", sound |-> FALSE, wrote |-> {}]
    BY <1>1 DEF Spawn, TypeOK
  <2>2. procs'[n] # None
    <3>1. [req |-> cur, st |-> "started", sound |-> FALSE, wrote |-> {}] \in Proc
      BY <1>1 DEF Proc
    <3> QED
      BY <2>1, <3>1, NoneAssumption
  <2> QED
    BY <1>1, <2>1, <2>2 DEF HandOK, Whole, Files
<1>2. CASE n = tracked[r] /\ (r \in open => r \in open')
  <2>1. /\ n \in Runs /\ r \in open /\ RunOf(n, r) /\ procs[n] \in Proc
        /\ procs[n].st = "started" => Whole(r)
        /\ procs[n].st \in {"working", "ok"} => procs[n].sound
    BY <1>2 DEF TrackedOK, TypeOK, RunOf
  <2>2. Whole(r) => \A f \in Inputs(r) : dirs'[DirOf[r]][f] = r
    <3>1. CASE TruncateInput \/ FillInput
      <4>1. r # cur
        BY <1>2, <3>1 DEF HandOK, TruncateInput, FillInput
      <4>2. \A f \in Inputs(r) : f \in Names
        BY InputNames
      <4> QED
        BY <3>1, <4>1, <4>2, InputWritten DEF Whole
    <3>2. CASE ~TruncateInput /\ ~FillInput
      BY <3>2, InputKept DEF Whole
    <3> QED
      BY <3>1, <3>2
  <2>3. procs'[n] # None /\ procs'[n].req = r
    BY <2>1, RunsKept DEF RunOf
  <2>4. procs'[n].st = "started" => procs[n].st = "started"
    BY <2>1, RunStep DEF RunOf
  <2>5. procs'[n].st \in {"working", "ok"} => procs'[n].sound
    BY <2>1, RunStep DEF RunOf
  <2> QED
    BY <1>2, <2>1, <2>2, <2>3, <2>4, <2>5 DEF RunOf
<1> QED
  BY <1>1, <1>2, TrackStep

LEMMA CrashesStep ==
  ASSUME TypeOK, DirsNext, crashes' = 0
  PROVE  ~Crash /\ crashes = 0
<1>1. ~Crash
  BY DEF Crash, TypeOK
<1>2. UNCHANGED crashes
  BY <1>1 DEF DirsNext, Worker, Dispatcher, Sends, Ask, ReadsInputs, WritesOutput, Ends,
     AcceptJob, SkipJob, Restart, RestoreJob, EndRestore, TruncateInput,
     FillInput, EndInputs, Spawn, Ack, CollectSuccess, CollectFailure, Closes,
     Starts, vars
<1> QED
  BY <1>1, <1>2

\* What a step does to the message and to the job of a request that is asked,
\* as long as the dispatcher is not lost.
LEMMA OnceStep ==
  ASSUME TypeOK, HandOK, AskedOK, OnceOK, DirsNext
  PROVE  OnceOK'
<1> SUFFICES ASSUME crashes' = 0 PROVE OnceOK'
  BY DEF OnceOK
<1>1. ~Crash /\ crashes = 0
  BY CrashesStep
<1>2. ASSUME NEW n \in Runs, Spawn(n)
      PROVE  /\ pc = "spawn" /\ phase = "idle" /\ \A m \in Runs : ~RunOf(m, cur)
             /\ pc' = "ack" /\ cur' = cur
             /\ \A m \in Runs : m # n => procs'[m] = procs[m]
  BY <1>1, <1>2 DEF Spawn, OnceOK, TypeOK
<1>3. ASSUME NEW m \in Runs, NEW n \in Runs, NEW r \in Requests, RunOf(m, r)', RunOf(n, r)'
      PROVE  m = n
  <2>1. CASE RunOf(m, r) /\ RunOf(n, r)
    BY <1>1, <2>1 DEF OnceOK
  <2>2. CASE Spawn(m) /\ r = cur
    <3>1. n # m => RunOf(n, r)
      BY <1>2, <1>3, <2>2 DEF RunOf
    <3> QED
      BY <1>2, <2>2, <3>1
  <2>3. CASE Spawn(n) /\ r = cur
    <3>1. n # m => RunOf(m, r)
      BY <1>2, <1>3, <2>3 DEF RunOf
    <3> QED
      BY <1>2, <2>3, <3>1
  <2> QED
    BY <1>3, <2>1, <2>2, <2>3, RunsKept
<1>4. ASSUME NEW n \in Runs, NEW r \in waiting', RunOf(n, r)'
      PROVE  pc' = "ack" /\ cur' = r
  <2>1. CASE Spawn(n) /\ r = cur
    BY <1>2, <2>1
  <2>2. CASE RunOf(n, r)
    <3>1. r \in waiting
      <4>1. r \in asked
        BY <2>2 DEF RunOf, AskedOK
      <4>2. ~Sends(r)
        BY <4>1 DEF Sends
      <4>3. ASSUME NEW q \in Requests, Sends(q) PROVE r \in waiting
        BY <1>4, <4>2, <4>3 DEF Sends, Ask
      <4>4. ASSUME ~\E q \in Requests : Sends(q) PROVE waiting' \subseteq waiting
        BY <4>4 DEF DirsNext, Worker, Dispatcher, ReadsInputs, WritesOutput, Ends,
           AcceptJob, SkipJob, Restart, RestoreJob, EndRestore, TruncateInput,
           FillInput, EndInputs, Spawn, Ack, CollectSuccess, CollectFailure,
           Crash, vars, store
      <4> QED
        BY <1>4, <4>3, <4>4
    <3>2. pc = "ack" /\ cur = r
      BY <1>1, <2>2, <3>1 DEF OnceOK
    <3>3. ~Ack
      BY <1>4, <3>2 DEF Ack
    <3>4. UNCHANGED <<pc, cur>>
      BY <1>1, <3>2, <3>3 DEF DirsNext, Worker, Dispatcher, Sends, Ask, ReadsInputs, WritesOutput,
         Ends, AcceptJob, SkipJob, Restart, RestoreJob, EndRestore,
         TruncateInput, FillInput, EndInputs, Spawn, CollectSuccess,
         CollectFailure, Starts, vars, hand
    <3> QED
      BY <3>2, <3>4
  <2> QED
    BY <1>4, <2>1, <2>2, RunsKept
<1>5. ASSUME pc' \in {"inputs", "spawn"}
      PROVE  phase' = "idle" /\ \A n \in Runs : ~RunOf(n, cur)'
  <2>1. ~\E n \in Runs : Spawn(n)
    BY <1>2, <1>5
  <2>2. phase' = "idle" /\ \A n \in Runs : ~RunOf(n, cur')
    <3>1. ASSUME NEW r \in Requests, AcceptJob(r)
          PROVE  phase' = "idle" /\ \A n \in Runs : ~RunOf(n, cur')
      BY <1>1, <3>1 DEF AcceptJob, Starts, OnceOK
    <3>2. ASSUME NEW r \in Requests, RestoreJob(r) PROVE FALSE
      BY <1>1, <3>2 DEF RestoreJob, OnceOK
    <3>3. ASSUME ~\E r \in Requests : AcceptJob(r) \/ RestoreJob(r)
          PROVE  pc \in {"inputs", "spawn"} /\ UNCHANGED <<phase, cur>>
      BY <1>1, <1>5, <2>1, <3>3 DEF DirsNext, Worker, Dispatcher, Sends, Ask, ReadsInputs, WritesOutput,
         Ends, SkipJob, Restart, EndRestore, TruncateInput, FillInput,
         EndInputs, Ack, CollectSuccess, CollectFailure, vars, hand
    <3> QED
      BY <1>1, <3>1, <3>2, <3>3 DEF OnceOK
  <2>3. \A n \in Runs : procs'[n] # None /\ procs'[n].req = cur' => RunOf(n, cur')
    BY <2>1, RunStep DEF RunOf
  <2> QED
    BY <2>2, <2>3 DEF RunOf
<1>6. ASSUME pc' \in {"down", "restore"} PROVE open' = {} /\ todo' = {}
  <2>1. ~\E n \in Runs : Spawn(n)
    BY <1>2, <1>6
  <2>2. pc \in {"down", "restore"} /\ open = {} /\ todo = {}
    <3>1. pc \in {"down", "restore"}
      BY <1>1, <1>6, <2>1 DEF DirsNext, Worker, Dispatcher, Sends, Ask, ReadsInputs, WritesOutput,
         Ends, AcceptJob, SkipJob, Restart, RestoreJob, EndRestore,
         TruncateInput, FillInput, EndInputs, Ack, CollectSuccess,
         CollectFailure, Closes, Starts, vars, hand
    <3> QED
      BY <1>1, <3>1 DEF OnceOK
  <2>3. UNCHANGED open /\ (todo' = todo \/ todo' = open)
    BY <1>1, <2>1, <2>2 DEF DirsNext, Worker, Dispatcher, Sends, Ask, ReadsInputs, WritesOutput,
         Ends, AcceptJob, SkipJob, Restart, RestoreJob, EndRestore,
         TruncateInput, FillInput, EndInputs, Ack, CollectSuccess,
         CollectFailure, Closes, Starts, vars, hand, store
  <2> QED
    BY <2>2, <2>3
<1> QED
  BY <1>3, <1>4, <1>5, <1>6 DEF OnceOK

\* An answer that was given names the same run for ever.
LEMMA AnswersStep ==
  ASSUME TypeOK, FilesOK, HandOK, TrackedOK, OnceOK, AnswersOK, DirsNext
  PROVE  AnswersOK'
<1> SUFFICES ASSUME NEW a \in answers', a.out # Bad
             PROVE  /\ Read(a.out, a.req)'
                    /\ crashes' = 0 => procs'[a.out].st = "ok" /\ procs'[a.out].sound
  BY DEF AnswersOK
<1>1. CASE a \in answers
  <2>1. a.out \in Runs /\ Read(a.out, a.req)
        /\ (crashes = 0 => procs[a.out].st = "ok" /\ procs[a.out].sound)
    BY <1>1 DEF AnswersOK, TypeOK, Answer
  <2>2. Read(a.out, a.req)'
    BY <2>1, RunsKept
  <2>3. procs[a.out].st = "ok" => procs'[a.out] = procs[a.out]
    BY <2>1, RunStep DEF Read, RunOf
  <2> QED
    BY <2>1, <2>2, <2>3, CrashesStep
<1>2. ASSUME NEW r \in Requests, CollectSuccess(r), a \notin answers
      PROVE  /\ Read(a.out, a.req)'
             /\ crashes' = 0 => procs'[a.out].st = "ok" /\ procs'[a.out].sound
  <2> DEFINE o == Files(r)["output"]
  <2>1. a = [req |-> r, out |-> Extracted(r, o)] /\ UNCHANGED <<procs, crashes>>
    BY <1>2 DEF CollectSuccess, Closes, disk
  <2>2. o \in Runs /\ a.out = o /\ a.req = r
    BY <2>1 DEF Extracted
  <2>3. "output" \in Names
    BY DEF Names
  <2>4. Read(o, r)
    BY <2>2, <2>3, RequestsAssumption DEF FilesOK
  <2>5. tracked[r] \in Runs /\ RunOf(tracked[r], r) /\ procs[tracked[r]].st = "ok"
        /\ procs[tracked[r]].sound
    BY <1>2 DEF CollectSuccess, TrackedOK, TypeOK
  <2>6. crashes = 0 => o = tracked[r]
    BY <2>2, <2>4, <2>5 DEF OnceOK, Read
  <2> QED
    BY <2>1, <2>2, <2>4, <2>5, <2>6 DEF Read, RunOf
<1>3. ASSUME NEW r \in Requests, CollectFailure(r) PROVE a \in answers
  BY <1>3 DEF CollectFailure, Closes
<1>4. ASSUME ~\E r \in Requests : CollectSuccess(r) \/ CollectFailure(r)
      PROVE  UNCHANGED answers
  BY <1>4 DEF DirsNext, Worker, Dispatcher, Sends, Ask, ReadsInputs, WritesOutput, Ends,
     AcceptJob, SkipJob, Restart, RestoreJob, EndRestore, TruncateInput,
     FillInput, EndInputs, Spawn, Ack, Crash, vars, store
<1> QED
  BY <1>1, <1>2, <1>3, <1>4

LEMMA DirsStep == TypeOK /\ DirsInv /\ DirsNext => TypeOK' /\ DirsInv'
BY TypeStep, FilesStep, HandStep, TrackedStep, AskedStep, OnceStep, AnswersStep DEF DirsInv

LEMMA DirsInvariant == ClientSpec => [](TypeOK /\ DirsInv)
<1>1. ClientInit => TypeOK /\ DirsInv
  <2> SUFFICES ASSUME ClientInit PROVE TypeOK /\ DirsInv
    OBVIOUS
  <2>1. <<>> \in Seq(Names)
    BY EmptySeq
  <2>2. \A r \in Requests, f \in Names : Files(r)[f] = None
    BY RequestsAssumption DEF ClientInit, Init, Files
  <2> QED
    BY <2>1, <2>2 DEF ClientInit, Init, TypeOK, DirsInv, FilesOK, HandOK, TrackedOK, AskedOK,
       OnceOK, AnswersOK, RunOf, Read
<1>2. TypeOK /\ DirsInv /\ [ClientNext]_cvars => TypeOK' /\ DirsInv'
  BY DirsStep, ClientDirs
<1> QED
  BY <1>1, <1>2, PTL DEF ClientSpec

\* A worker that the dispatcher waits for reads whole inputs of its own job, for
\* any number of jobs and crashes, when every job has a directory of its own.
THEOREM ReadsSound == ClientSpec => []TrackedReadsSound
<1>1. DirsInv => TrackedReadsSound
  BY DEF DirsInv, TrackedOK, TrackedReadsSound
<1> QED
  BY <1>1, DirsInvariant, PTL

\* A success is always the output of a run of the request it answers, and of one
\* with sound inputs as long as the dispatcher is not lost, for any number of
\* jobs and runs.
THEOREM AnswersSound == ClientSpec => []AnswerIsSound
<1>1. DirsInv => AnswerIsSound
  BY DEF DirsInv, AnswersOK, AnswerIsSound, Read, RunOf
<1> QED
  BY <1>1, DirsInvariant, PTL

-----------------------------------------------------------------------------
(* The client *)

ClientType ==
  /\ cpc \in {"prove", "proving", "reading", "verifying", "accepted", "ended"}
  /\ proved \in Runs \cup {None}
  /\ blob \in [Proof -> Runs \cup {None}]
  /\ asked \subseteq Requests

ClientInv == TypeOK /\ DirsInv /\ ClientType /\ ClientOK

\* The proof files in the directory of the first job come from runs of that job.
LEMMA ProofFile ==
  ASSUME TypeOK, DirsInv, NEW f \in Proof
  PROVE  Files(prove)[f] = None \/ (Files(prove)[f] \in Runs /\ Read(Files(prove)[f], prove))
<1>1. prove \in Requests /\ f \in Names /\ f \notin Inputs(prove)
  BY ClientAssumption DEF Inputs, InputsOf, Names
<1> QED
  BY <1>1 DEF DirsInv, FilesOK

\* The answer of a type is the answer to the one job of that type.
LEMMA AwaitedIs ==
  ASSUME TypeOK, DirsInv, NEW r \in {prove, verify}, NEW a \in Awaited(r)
  PROVE  /\ a \in answers /\ a.req = r /\ a.out \in Runs /\ Read(a.out, r)
         /\ a = [req |-> r, out |-> a.out]
         /\ crashes = 0 => procs[a.out].sound
<1>1. /\ a \in answers /\ a.out # Bad /\ a.req \in {prove, verify}
      /\ MessageType(procs[a.out].req) = MessageType(r)
  BY DEF Awaited
<1>2. /\ a.out \in Runs /\ Read(a.out, a.req) /\ a = [req |-> a.req, out |-> a.out]
      /\ crashes = 0 => procs[a.out].sound
  BY <1>1 DEF DirsInv, AnswersOK, TypeOK, Answer
<1>3. MessageType(a.req) = MessageType(r)
  BY <1>1, <1>2 DEF Read, RunOf
<1>4. MessageType(prove) = "ProveResult" /\ MessageType(verify) = "VerifyResult"
  BY ClientAssumption DEF MessageType
<1>5. a.req = r
  BY <1>1, <1>3, <1>4
<1> QED
  BY <1>1, <1>2, <1>5

LEMMA ClientTypeStep ==
  ASSUME ClientInv, [ClientNext]_cvars
  PROVE  ClientType'
<1> USE DEF ClientInv, ClientType
<1>1. CASE SendProve \/ SendVerify
  BY <1>1, ClientAssumption DEF SendProve, SendVerify, Sends
<1>2. CASE TakeProveResult
  BY <1>2, AwaitedIs DEF TakeProveResult
<1>3. ASSUME NEW i \in 1..Len(ProofFiles), ReadProofFile(i) PROVE ClientType'
  BY <1>3, ProofFile DEF ReadProofFile, Proof
<1>4. CASE TakeVerifyResult
  BY <1>4 DEF TakeVerifyResult
<1>5. CASE OtherClient
  BY <1>5 DEF OtherClient, Sends
<1>6. CASE UNCHANGED client
  BY <1>6 DEF client
<1> QED
  BY <1>1, <1>2, <1>3, <1>4, <1>5, <1>6 DEF ClientNext, Client, cvars

\* The dispatcher and its workers take no answer back.
LEMMA ClientWaits ==
  ASSUME ClientInv, DirsNext, UNCHANGED <<cpc, proved, blob>>
  PROVE  ClientOK'
<1> USE DEF ClientInv
<1>1. answers \subseteq answers'
  BY DEF DirsNext, Worker, Dispatcher, Sends, Ask, ReadsInputs, WritesOutput, Ends,
     AcceptJob, SkipJob, Restart, RestoreJob, EndRestore, TruncateInput,
     FillInput, EndInputs, Spawn, Ack, CollectSuccess, CollectFailure, Closes,
     Starts, Crash, vars, store
<1> QED
  BY <1>1, CrashesStep DEF ClientOK

LEMMA ClientStep ==
  ASSUME ClientInv, [ClientNext]_cvars
  PROVE  ClientOK'
<1> USE DEF ClientInv
<1>1. CASE SendProve
  BY <1>1 DEF SendProve, Sends, Ask, ClientOK
<1>2. CASE TakeProveResult
  <2>1. PICK a \in Awaited(prove) : proved' = a.out
    BY <1>2 DEF TakeProveResult
  <2>2. [req |-> prove, out |-> proved'] \in answers /\ proved' # None
    BY <2>1, AwaitedIs, RequestsAssumption
  <2> QED
    BY <1>2, <2>2 DEF TakeProveResult, ClientOK, vars, store
<1>3. ASSUME NEW i \in 1..Len(ProofFiles), ReadProofFile(i) PROVE ClientOK'
  <2> DEFINE f == ProofFiles[i]
             n == Files(prove)[f]
  <2>1. /\ f \in Proof /\ n # None /\ blob' = [blob EXCEPT ![f] = n]
        /\ cpc = "reading" /\ UNCHANGED <<vars, cpc, proved, asked>>
    BY <1>3 DEF ReadProofFile, Proof
  <2>2. n \in Runs /\ Read(n, prove)
    BY <2>1, ProofFile
  <2>3. proved \in Runs /\ Read(proved, prove)
    <3>1. [req |-> prove, out |-> proved] \in answers /\ proved # None /\ proved \in Runs
      BY <2>1 DEF ClientOK, ClientType
    <3> QED
      BY <3>1, RequestsAssumption DEF DirsInv, AnswersOK
  <2>4. crashes = 0 => n = proved
    BY <2>2, <2>3, ClientAssumption DEF DirsInv, OnceOK, Read
  <2>5. crashes' = 0 => \A g \in Proof : blob'[g] \in {None, proved'}
    BY <2>1, <2>4 DEF ClientOK, ClientType, vars
  <2> QED
    BY <2>1, <2>5 DEF ClientOK, vars, store
<1>4. CASE SendVerify
  BY <1>4 DEF SendVerify, Sends, Ask, ClientOK
<1>5. CASE TakeVerifyResult
  BY <1>5 DEF TakeVerifyResult, ClientOK, vars, store
<1>6. CASE OtherClient \/ ((Worker \/ Dispatcher \/ Crash) /\ UNCHANGED client) \/ UNCHANGED cvars
  BY <1>6, ClientWaits, ClientDirs DEF OtherClient, client, cvars, ClientNext
<1> QED
  BY <1>1, <1>2, <1>3, <1>4, <1>5, <1>6 DEF ClientNext, Client

LEMMA ClientInvariant == ClientSpec => []ClientInv
<1>1. ClientInit => ClientType /\ ClientOK
  BY DEF ClientInit, ClientType, ClientOK
<1>2. ClientInv /\ [ClientNext]_cvars => ClientType' /\ ClientOK'
  BY ClientTypeStep, ClientStep
<1>3. TypeOK /\ DirsInv /\ ClientType /\ ClientOK <=> ClientInv
  BY DEF ClientInv
<1> QED
  BY <1>1, <1>2, <1>3, DirsInvariant, PTL DEF ClientSpec

\* Every variable of the client, the dispatcher and its workers keeps its kind of
\* value.
THEOREM ClientTypeCorrect == ClientSpec => []ClientTypeOK
<1>1. ClientInv => ClientTypeOK
  BY DEF ClientInv, ClientType, ClientTypeOK
<1> QED
  BY <1>1, ClientInvariant, PTL

\* Without crashes the client reads the files of the very run whose result it was
\* given, and nothing writes them again, for any number of runs and of other
\* clients' jobs.
THEOREM ProofFinal == ClientSpec => []ProofIsFinal
<1>1. ClientInv => ProofIsFinal
  <2> SUFFICES ASSUME ClientInv, crashes = 0, proved # None
               PROVE  /\ \A f \in Proof : blob[f] \in {None, proved}
                      /\ \A n \in Runs : procs[n] # None /\ procs[n].req = prove
                                           => procs[n].st \in {"ok", "failed"}
    BY DEF ProofIsFinal
  <2> USE DEF ClientInv
  <2>1. [req |-> prove, out |-> proved] \in answers /\ proved \in Runs
    BY DEF ClientOK, ClientType
  <2>2. Read(proved, prove) /\ procs[proved].st = "ok"
    BY <2>1, RequestsAssumption DEF DirsInv, AnswersOK
  <2>3. \A n \in Runs : RunOf(n, prove) => n = proved
    BY <2>1, <2>2, ClientAssumption DEF DirsInv, OnceOK, Read
  <2> QED
    BY <2>2, <2>3 DEF ClientOK, RunOf
<1> QED
  BY <1>1, ClientInvariant, PTL

=============================================================================
