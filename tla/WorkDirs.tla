------------------------------ MODULE WorkDirs ------------------------------
(***************************************************************************)
(* The working directories of garbled-circuit and prover jobs              *)
(* (jobtypes/src/garbled_messages.rs, prover_messages.rs), in local mode.  *)
(*                                                                         *)
(* A job names a directory.  Before its worker is spawned the dispatcher   *)
(* writes the inputs of the job there, one file after the other; the       *)
(* worker reads them and writes its proof files and output.json beside     *)
(* them.  Every run of a job uses the same directory: after a restart the  *)
(* dispatcher writes the inputs again under an orphan that may be reading  *)
(* them, and two runs write the same files.                                *)
(*                                                                         *)
(* Of the dispatcher this module keeps what JobDispatcher shows of it:     *)
(* messages are delivered until acknowledged, jobs are stored before they  *)
(* are spawned, one thread spawns and collects, and it may be lost at any  *)
(* point.  A result is stored and sent in one step.                        *)
(*                                                                         *)
(* A definition marked "Variant" is a slip the code does not make.         *)
(***************************************************************************)
EXTENDS Naturals, Sequences, FiniteSets

CONSTANTS
  Requests,    \* requests for garbled and prover jobs
  KindOf,      \* KindOf[r]: the variant of GarbledJobType or ProverJobType
  Dirs,        \* directories, chosen by the clients
  DirOf,       \* DirOf[r]: the output directory r names
  ProofFiles,  \* the files of a proof, in the order of the code: <<"gc_proof",
               \* "lamport_proof", "commitments">>
  Runs,        \* worker processes
  MaxCrashes,  \* bound: how often the dispatcher process may be lost
  None,        \* no file, no process, nothing in hand
  Torn,        \* a file that is being written, or was when the writing stopped
  Bad          \* the answer that is an error

-----------------------------------------------------------------------------
(* GarbledJobType and ProverJobType *)

Kinds == {"ImportProof", "Prove", "Verify", "Evaluate", "ZkProve"}

\* What prepare_local_input writes for a zero-knowledge proof.
ZkInputs == <<"input">>

\* What `command`, or prepare_local_input, writes for a job, in that order.
InputsOf(r) ==
  CASE KindOf[r] = "Verify" -> <<"public_data">> \o ProofFiles
    [] KindOf[r] = "Evaluate" -> <<"input_labels", "commitments">>
    [] KindOf[r] = "ZkProve" -> ZkInputs
    [] OTHER -> <<>>

Inputs(r) == {InputsOf(r)[i] : i \in 1..Len(InputsOf(r))}

\* The files of a proof, which its result names.
Proof == {ProofFiles[i] : i \in 1..Len(ProofFiles)}

\* What the two programs of a zero-knowledge proof write.
ZkOutputs == {"stark_proof", "output"}

\* What a worker writes that ends well.
OutputsOf(r) ==
  CASE KindOf[r] \in {"Prove", "ImportProof"} -> Proof \cup {"output"}
    [] KindOf[r] \in {"Verify", "Evaluate"} -> {"output"}
    [] KindOf[r] = "ZkProve" -> ZkOutputs

\* message_type: an import is answered like the proof it imports.
MessageType(r) ==
  CASE KindOf[r] \in {"Prove", "ImportProof", "ZkProve"} -> "ProveResult"
    [] KindOf[r] = "Verify" -> "VerifyResult"
    [] KindOf[r] = "Evaluate" -> "EvaluateResult"

Names ==
  Proof \cup {"public_data", "input_labels", "commitments", "input", "stark_proof", "output"}

ASSUME RequestsAssumption ==
  /\ KindOf \in [Requests -> Kinds]
  /\ DirOf \in [Requests -> Dirs]
  /\ ProofFiles \in Seq({"gc_proof", "lamport_proof", "commitments"})
  /\ Requests \cap Runs = {}
  /\ {None, Torn, Bad} \cap (Requests \cup Runs) = {}
  /\ None # Torn /\ None # Bad
  /\ MaxCrashes \in Nat

-----------------------------------------------------------------------------

VARIABLES
  \* broker and storage
  waiting,   \* requests whose message is not acknowledged
  open,      \* requests whose job is stored
  answers,   \* results sent; out is the run whose output.json it carries
  \* the file system: an input holds the request it was written for, an output
  \* the run that wrote it
  dirs,      \* dirs[d][n]: what file n of directory d holds
  \* the worker processes
  procs,     \* procs[n]: run n; sound says that it has read its own, whole inputs
  \* the dispatcher process
  pc,        \* "down", "restore", "idle", "inputs", "spawn" or "ack"
  tracked,   \* tracked[r]: the run whose end the dispatcher waits for
  cur,       \* the request it is starting
  left,      \* inputs of cur that are still to be written
  todo,      \* requests to be restored
  phase,     \* where the dispatcher goes when cur is started
  crashes    \* how often it was lost so far

disk  == <<dirs, procs>>
store == <<waiting, open, answers>>
hand  == <<cur, left, todo, phase>>
vars  == <<store, disk, pc, tracked, hand, crashes>>

Proc == [req : Requests, st : {"started", "working", "ok", "failed"},
         sound : BOOLEAN, wrote : SUBSET Names]

Answer == [req : Requests, out : Runs \cup {Bad}]

ASSUME NoneAssumption == None \notin Proc

Init ==
  /\ waiting = {} /\ open = {} /\ answers = {}
  /\ dirs = [d \in Dirs |-> [n \in Names |-> None]]
  /\ procs = [n \in Runs |-> None]
  /\ pc = "down" /\ tracked = [r \in Requests |-> None]
  /\ cur = None /\ left = <<>> /\ todo = {} /\ phase = "idle"
  /\ crashes = 0

-----------------------------------------------------------------------------
(* Clients and workers *)

\* A client sends request r, once.
Ask(r) ==
  /\ waiting' = waiting \cup {r}
  /\ UNCHANGED <<open, answers, disk, pc, tracked, hand, crashes>>

InState(n, st) == procs[n] # None /\ procs[n].st = st

\* The files of the directory of r.
Files(r) == dirs[DirOf[r]]

\* The worker reads its inputs.
ReadsInputs(n) ==
  /\ InState(n, "started")
  /\ LET r == procs[n].req
         s == \A f \in Inputs(r) : Files(r)[f] = r
     IN procs' = [procs EXCEPT ![n].st = "working", ![n].sound = s]
  /\ UNCHANGED <<store, dirs, pc, tracked, hand, crashes>>

\* The worker writes one of its files, from whatever it has read, for the
\* first time or again.
WritesOutput(n, f) ==
  /\ InState(n, "working")
  /\ f \in OutputsOf(procs[n].req)
  /\ dirs' = [dirs EXCEPT ![DirOf[procs[n].req]][f] = n]
  /\ procs' = [procs EXCEPT ![n].wrote = @ \cup {f}]
  /\ UNCHANGED <<store, pc, tracked, hand, crashes>>

\* The worker ends: well, having written all its files, or badly.
Ends(n) ==
  /\ \/ /\ InState(n, "working") /\ OutputsOf(procs[n].req) = procs[n].wrote
        /\ procs' = [procs EXCEPT ![n].st = "ok"]
     \/ /\ InState(n, "started") \/ InState(n, "working")
        /\ procs' = [procs EXCEPT ![n].st = "failed"]
  /\ UNCHANGED <<store, dirs, pc, tracked, hand, crashes>>

-----------------------------------------------------------------------------
(* Start of a job: create_new_jobs, restore_jobs and spawn_local_job *)

\* spawn_local_job begins: the inputs are to be written.
Starts(r, p) ==
  /\ cur' = r
  /\ left' = InputsOf(r)
  /\ phase' = p
  /\ pc' = "inputs"

\* persist_job.
AcceptJob(r) ==
  /\ pc = "idle" /\ r \in waiting \ open
  /\ open' = open \cup {r}
  /\ Starts(r, "idle")
  /\ UNCHANGED <<waiting, answers, disk, tracked, todo, crashes>>

\* contains_job: the message was delivered before.
SkipJob(r) ==
  /\ pc = "idle" /\ r \in waiting \cap open
  /\ waiting' = waiting \ {r}
  /\ UNCHANGED <<open, answers, disk, pc, tracked, hand, crashes>>

Restart ==
  /\ pc = "down"
  /\ pc' = "restore" /\ todo' = open
  /\ UNCHANGED <<store, disk, tracked, cur, left, phase, crashes>>

\* Variant: a job that is restored finds its inputs where they were written.
RestoreJobNoInputs(r) ==
  /\ pc = "restore" /\ r \in todo
  /\ todo' = todo \ {r}
  /\ cur' = r /\ left' = <<>> /\ phase' = "restore" /\ pc' = "spawn"
  /\ UNCHANGED <<store, disk, tracked, crashes>>

RestoreJob(r) ==
  /\ pc = "restore" /\ r \in todo
  /\ todo' = todo \ {r}
  /\ Starts(r, "restore")
  /\ UNCHANGED <<store, disk, tracked, crashes>>

EndRestore ==
  /\ pc = "restore" /\ todo = {}
  /\ pc' = "idle"
  /\ UNCHANGED <<store, disk, tracked, hand, crashes>>

\* fs::write cuts the next input short ...
TruncateInput ==
  /\ pc = "inputs" /\ left # <<>> /\ Files(cur)[Head(left)] # Torn
  /\ dirs' = [dirs EXCEPT ![DirOf[cur]][Head(left)] = Torn]
  /\ UNCHANGED <<store, procs, pc, tracked, hand, crashes>>

\* ... and fills it.
FillInput ==
  /\ pc = "inputs" /\ left # <<>> /\ Files(cur)[Head(left)] = Torn
  /\ dirs' = [dirs EXCEPT ![DirOf[cur]][Head(left)] = cur]
  /\ left' = Tail(left)
  /\ UNCHANGED <<store, procs, pc, tracked, cur, todo, phase, crashes>>

\* Variant: the worker is spawned while its last input is still written.
EndInputsEarly ==
  /\ pc = "inputs" /\ Len(left) <= 1
  /\ left' = <<>>
  /\ pc' = "spawn"
  /\ UNCHANGED <<store, disk, tracked, cur, todo, phase, crashes>>

EndInputs ==
  /\ pc = "inputs" /\ left = <<>>
  /\ pc' = "spawn"
  /\ UNCHANGED <<store, disk, tracked, hand, crashes>>

\* The worker is spawned and tracked.  A message that brought it is
\* acknowledged next.  When the spawn fails the dispatcher ends: a Crash.
Spawn(n) ==
  /\ pc = "spawn" /\ procs[n] = None
  /\ procs' = [procs EXCEPT ![n] =
       [req |-> cur, st |-> "started", sound |-> FALSE, wrote |-> {}]]
  /\ tracked' = [tracked EXCEPT ![cur] = n]
  /\ IF phase = "idle" THEN pc' = "ack" /\ UNCHANGED cur
                       ELSE pc' = "restore" /\ cur' = None
  /\ UNCHANGED <<store, dirs, left, todo, phase, crashes>>

Ack ==
  /\ pc = "ack"
  /\ waiting' = waiting \ {cur}
  /\ cur' = None /\ pc' = "idle"
  /\ UNCHANGED <<open, answers, disk, tracked, left, todo, phase, crashes>>

-----------------------------------------------------------------------------
(* End of a job: process_running_jobs and send_results *)

\* complete_job, and the result is sent.
Closes(r, o) ==
  /\ open' = open \ {r}
  /\ answers' = answers \cup {[req |-> r, out |-> o]}
  /\ tracked' = [tracked EXCEPT ![r] = None]

\* What the text of output.json is taken for: a result, if it has the type of
\* the job, whoever wrote it.
Extracted(r, o) ==
  IF o \in Runs /\ MessageType(procs[o].req) = MessageType(r) THEN o ELSE Bad

\* Variant: output.json is looked at while the worker runs.
CollectSuccessEarly(r) ==
  /\ pc = "idle" /\ tracked[r] # None
  /\ Files(r)["output"] # None
  /\ Closes(r, Extracted(r, Files(r)["output"]))
  /\ UNCHANGED <<waiting, disk, pc, hand, crashes>>

\* The worker has ended well.
CollectSuccess(r) ==
  /\ pc = "idle" /\ tracked[r] # None
  /\ procs[tracked[r]].st = "ok"
  /\ Closes(r, Extracted(r, Files(r)["output"]))
  /\ UNCHANGED <<waiting, disk, pc, hand, crashes>>

\* The worker has failed, or try_wait fails while it still runs.
CollectFailure(r) ==
  /\ pc = "idle" /\ tracked[r] # None
  /\ Closes(r, Bad)
  /\ UNCHANGED <<waiting, disk, pc, hand, crashes>>

-----------------------------------------------------------------------------
\* The dispatcher is lost, or a call fails and ends it; an input that is being
\* written stays as it is.  Workers go on.
Crash ==
  /\ pc # "down" /\ crashes < MaxCrashes
  /\ pc' = "down"
  /\ tracked' = [r \in Requests |-> None]
  /\ cur' = None /\ left' = <<>> /\ todo' = {} /\ phase' = "idle"
  /\ crashes' = crashes + 1
  /\ UNCHANGED <<store, disk>>

Worker ==
  \E n \in Runs :
    ReadsInputs(n) \/ Ends(n) \/ \E f \in Names : WritesOutput(n, f)

Dispatcher ==
  \/ \E r \in Requests :
       AcceptJob(r) \/ SkipJob(r) \/ RestoreJob(r) \/ CollectSuccess(r) \/ CollectFailure(r)
  \/ Restart
  \/ EndRestore
  \/ TruncateInput
  \/ FillInput
  \/ EndInputs
  \/ \E n \in Runs : Spawn(n)
  \/ Ack

Next ==
  \/ \E r \in Requests : Ask(r)
  \/ Worker
  \/ Dispatcher
  \/ Crash

Spec == Init /\ [][Next]_vars

-----------------------------------------------------------------------------
(* Properties *)

\* Every variable keeps its kind of value.
TypeOK ==
  /\ waiting \subseteq Requests /\ open \subseteq Requests
  /\ answers \subseteq Answer
  /\ dirs \in [Dirs -> [Names -> Requests \cup Runs \cup {None, Torn}]]
  /\ procs \in [Runs -> Proc \cup {None}]
  /\ pc \in {"down", "restore", "idle", "inputs", "spawn", "ack"}
  /\ tracked \in [Requests -> Runs \cup {None}]
  /\ cur \in Requests \cup {None}
  /\ left \in Seq(Names)
  /\ todo \subseteq Requests
  /\ phase \in {"idle", "restore"}
  /\ crashes \in Nat

\* A tracked worker reads whole inputs of its own job, although a restart
\* rewrites the inputs of a job that may be running (garbled_messages.rs:59).
\* This is for clients that give every job a directory of its own.
TrackedReadsSound ==
  \A r \in Requests :
    tracked[r] # None /\ procs[tracked[r]].st \in {"working", "ok"} => procs[tracked[r]].sound

\* A success carries the output of a run of the very request it answers, though
\* not always of the run that was tracked.  As long as the dispatcher is not
\* lost, that run read sound inputs; after a restart it may be an orphan whose
\* inputs were rewritten as it read them.
AnswerIsSound ==
  \A a \in answers :
    a.out # Bad => /\ procs[a.out].req = a.req
                   /\ crashes = 0 => procs[a.out].sound

=============================================================================
