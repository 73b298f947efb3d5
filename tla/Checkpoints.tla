----------------------------- MODULE Checkpoints -----------------------------
(***************************************************************************)
(* The checkpoints of emulator jobs (jobtypes/src/emulator_messages.rs).   *)
(*                                                                         *)
(* A job names a checkpoint directory, its base.  Each run of the job gets *)
(* a new directory below the base, its worker reads the base and writes    *)
(* the new directory, and when the worker has ended well the dispatcher    *)
(* copies the files of that directory over the base, one after the other,  *)
(* removes the directory and closes the job.  The next job on that base    *)
(* starts from there.                                                      *)
(*                                                                         *)
(* Of the dispatcher this module keeps what JobDispatcher shows of it:     *)
(* which jobs are stored, which run is tracked for each, that one thread   *)
(* spawns and commits, that a message is acknowledged after its job is     *)
(* stored, and that the dispatcher may be lost at any point.  It then runs *)
(* every stored job again beside the orphans of its last life, and a       *)
(* message whose acknowledgement was lost comes again, maybe after the job *)
(* was answered: the job is then run and committed once more.              *)
(*                                                                         *)
(* A definition marked "Variant" is a slip the code does not make.         *)
(***************************************************************************)
EXTENDS Naturals, FiniteSets

CONSTANTS
  Requests,    \* requests for emulator jobs
  Bases,       \* checkpoint directories, chosen by the clients
  KindOf,      \* KindOf[r]: the variant of EmulatorJobType
  PathOf,      \* PathOf[r]: the checkpoint path in it, if it has one
  Names,       \* names of the files a checkpoint consists of
  Dirs,        \* names create_output_path may make up; each is new
  MaxCrashes,  \* bound: how often the dispatcher process may be lost
  None,        \* no directory, no run
  Torn         \* a file that is being copied, or was when the copying stopped

-----------------------------------------------------------------------------
(* EmulatorJobType: what command passes to the emulator *)

\* No checkpoint at all.
PlainKinds == {"Execute"}

\* The checkpoint to read and the directory to write, for the first jobs of
\* prover and verifier, the rounds of their search, and its end.
StartKinds == {"ProverExecute", "VerifierCheckExecution"}
RoundKinds == {"ProverGetHashesForRound", "VerifierChooseSegment"}
FinalKinds == {"ProverFinalTrace", "VerifierChooseChallenge",
               "VerifierChooseChallengeForReadChallenge"}

\* The checkpoint to read only: the directory is made, and stays empty.
ReadingKinds == {"ProverGetHashesAndStep"}

Kinds == PlainKinds \cup StartKinds \cup RoundKinds \cup FinalKinds \cup ReadingKinds

\* checkpoint_input.
CheckpointInput(r) == IF KindOf[r] \in PlainKinds THEN None ELSE PathOf[r]

\* The files a run of request r writes to its directory.
Writes(r) == IF KindOf[r] \in StartKinds \cup RoundKinds \cup FinalKinds
               THEN Names ELSE {}

ASSUME RequestsAssumption ==
  /\ KindOf \in [Requests -> Kinds]
  /\ PathOf \in [Requests -> Bases]
  /\ None \notin Requests \cup Bases \cup Dirs /\ Torn \notin Dirs /\ None # Torn
  /\ MaxCrashes \in Nat

-----------------------------------------------------------------------------

VARIABLES
  \* clients and storage
  waiting,   \* requests whose message has been sent and not been acknowledged
  open,      \* requests whose job is stored
  answers,   \* answers[r]: "none", "success" or "error"
  \* the file system
  base,      \* base[b][n]: the run that wrote file n of base b, Torn or None
  dirs,      \* dirs[d]: the same for output directory d; None if it is removed
  \* the emulator processes; a run goes by the name made up for its directory
  runs,      \* runs[d]: its request, its state, and the request whose commit
             \* the base was half-way through when it was read
  \* the dispatcher process
  pc,        \* "down", "restore", "idle", "spawn", "ack", "copy", "close"
  tracked,   \* tracked[r]: the run whose end the dispatcher waits for
  cur,       \* the request it has accepted, or whose run it has collected
  todo,      \* requests to be restored, or names to be copied
  \* history
  crashes,   \* how often the dispatcher was lost
  last,      \* last[b]: the run that was copied to base b last
  again      \* requests whose job was accepted although it had been answered

vars == <<waiting, open, answers, base, dirs, runs, pc, tracked, cur, todo,
          crashes, last, again>>

Run == [req : Requests, st : {"started", "working", "ok", "failed"},
        read : Requests \cup {None}]

Empty == [n \in Names |-> None]

ASSUME NoneAssumption == None \notin Run /\ None \notin [Names -> Dirs \cup {None}]

\* Variant: one directory for each job, named after it.
OutputDirByJob(d) == CHOOSE e \in Dirs : runs[e] # None /\ runs[e].req = runs[d].req

\* create_output_path makes up a new name for every run.
OutputDir(d) == d

\* The request whose commit base b is half-way through, if any.
Half(b) ==
  IF last[b] # None /\ \E n \in Writes(runs[last[b]].req) : base[b][n] # last[b]
    THEN runs[last[b]].req ELSE None

Init ==
  /\ waiting = {} /\ open = {} /\ answers = [r \in Requests |-> "none"]
  /\ base = [b \in Bases |-> Empty]
  /\ dirs = [d \in Dirs |-> None]
  /\ runs = [d \in Dirs |-> None]
  /\ pc = "down" /\ tracked = [r \in Requests |-> None]
  /\ cur = None /\ todo = {}
  /\ crashes = 0 /\ last = [b \in Bases |-> None] /\ again = {}

-----------------------------------------------------------------------------
(* Emulator processes, tracked or orphans *)

InState(d, st) == runs[d] # None /\ runs[d].st = st

\* The worker reads its checkpoint.
ReadCheckpoint(d) ==
  /\ InState(d, "started")
  /\ LET b == CheckpointInput(runs[d].req)
     IN runs' = [runs EXCEPT ![d].st = "working",
                             ![d].read = IF b = None THEN None ELSE Half(b)]
  /\ UNCHANGED <<waiting, open, answers, base, dirs, pc, tracked, cur, todo,
                 crashes, last, again>>

\* The worker writes a file to the directory it was given.
WriteFile(d, n) ==
  /\ InState(d, "working") /\ n \in Writes(runs[d].req)
  /\ LET o == OutputDir(d)
     IN /\ dirs[o] # None /\ dirs[o][n] # d
        /\ dirs' = [dirs EXCEPT ![o][n] = d]
  /\ UNCHANGED <<waiting, open, answers, base, runs, pc, tracked, cur, todo,
                 crashes, last, again>>

\* The worker ends: well, having written all its files, or badly.
Ends(d) ==
  /\ \/ /\ InState(d, "working")
        /\ \A n \in Writes(runs[d].req) :
             dirs[OutputDir(d)] # None /\ dirs[OutputDir(d)][n] # None
        /\ runs' = [runs EXCEPT ![d].st = "ok"]
     \/ /\ InState(d, "started") \/ InState(d, "working")
        /\ runs' = [runs EXCEPT ![d].st = "failed"]
  /\ UNCHANGED <<waiting, open, answers, base, dirs, pc, tracked, cur, todo,
                 crashes, last, again>>

-----------------------------------------------------------------------------
(* Start of a job *)

\* command makes the output directory, if the job has a checkpoint; the worker
\* is spawned and tracked.  When that fails the dispatcher ends: a Crash, maybe
\* after a spawn whose worker does nothing.
Spawns(r, d) ==
  /\ runs[d] = None
  /\ runs' = [runs EXCEPT ![d] = [req |-> r, st |-> "started", read |-> None]]
  /\ dirs' = [dirs EXCEPT ![d] = IF CheckpointInput(r) = None THEN None ELSE Empty]
  /\ tracked' = [tracked EXCEPT ![r] = d]

\* A client sends a job.  It is patient: every other job it has sent for the
\* same base has been answered, though maybe not been acknowledged.
Submit(r) ==
  /\ r \notin waiting \cup open /\ answers[r] = "none"
  /\ \A q \in waiting \cup open :
       \/ CheckpointInput(q) # CheckpointInput(r) \/ CheckpointInput(r) = None
       \/ answers[q] # "none"
  /\ waiting' = waiting \cup {r}
  /\ UNCHANGED <<open, answers, base, dirs, runs, pc, tracked, cur, todo, crashes,
                 last, again>>

\* The job of a message is stored.  What is stored is all that is looked at: the
\* job may have been answered before.  Messages are taken in any order, which
\* allows more than the order of the queue.
AcceptJob(r) ==
  /\ pc = "idle" /\ r \in waiting \ open
  /\ open' = open \cup {r}
  /\ again' = IF answers[r] # "none" THEN again \cup {r} ELSE again
  /\ pc' = "spawn" /\ cur' = r
  /\ UNCHANGED <<waiting, answers, base, dirs, runs, tracked, todo, crashes, last>>

SpawnJob(d) ==
  /\ pc = "spawn"
  /\ Spawns(cur, d)
  /\ pc' = "ack"
  /\ UNCHANGED <<waiting, open, answers, base, cur, todo, crashes, last, again>>

\* The message is acknowledged; a Crash before leaves it in the queue.
Ack ==
  /\ pc = "ack"
  /\ waiting' = waiting \ {cur}
  /\ pc' = "idle" /\ cur' = None
  /\ UNCHANGED <<open, answers, base, dirs, runs, tracked, todo, crashes, last,
                 again>>

\* A message whose job is stored is acknowledged, and that is all.
SkipJob(r) ==
  /\ pc = "idle" /\ r \in waiting \cap open
  /\ waiting' = waiting \ {r}
  /\ UNCHANGED <<open, answers, base, dirs, runs, pc, tracked, cur, todo, crashes,
                 last, again>>

Restart ==
  /\ pc = "down"
  /\ pc' = "restore" /\ todo' = open
  /\ UNCHANGED <<waiting, open, answers, base, dirs, runs, tracked, cur,
                 crashes, last, again>>

RestoreJob(r, d) ==
  /\ pc = "restore" /\ r \in todo
  /\ Spawns(r, d)
  /\ todo' = todo \ {r}
  /\ UNCHANGED <<waiting, open, answers, base, pc, cur, crashes, last, again>>

EndRestore ==
  /\ pc = "restore" /\ todo = {}
  /\ pc' = "idle"
  /\ UNCHANGED <<waiting, open, answers, base, dirs, runs, tracked, cur, todo,
                 crashes, last, again>>

-----------------------------------------------------------------------------
(* End of a job *)

\* complete_job with answer a.
Closes(r, a) ==
  /\ open' = open \ {r}
  /\ answers' = [answers EXCEPT ![r] = a]
  /\ tracked' = [tracked EXCEPT ![r] = None]

\* The worker has failed, has ended well but left no usable result, or try_wait
\* fails while it still runs: there is nothing to commit, and its directory is
\* left as it is.
CollectFailure(r) ==
  /\ pc = "idle" /\ tracked[r] # None
  /\ Closes(r, "error")
  /\ UNCHANGED <<waiting, base, dirs, runs, pc, cur, todo, crashes, last, again>>

\* Variant: the job is closed before its checkpoint is committed.
CollectSuccessCloses(r) ==
  /\ pc = "idle" /\ tracked[r] # None
  /\ runs[tracked[r]].st = "ok"
  /\ open' = open \ {r}
  /\ answers' = [answers EXCEPT ![r] = "success"]
  /\ cur' = r
  /\ LET o == dirs[OutputDir(tracked[r])]
     IN IF o = None THEN pc' = "close" /\ todo' = {}
        ELSE pc' = "copy" /\ todo' = {n \in Names : o[n] # None}
  /\ UNCHANGED <<waiting, base, dirs, runs, tracked, crashes, last, again>>

\* The worker has ended well: commit_checkpoint lists its directory.
CollectSuccess(r) ==
  /\ pc = "idle" /\ tracked[r] # None
  /\ runs[tracked[r]].st = "ok"
  /\ cur' = r
  /\ LET o == dirs[OutputDir(tracked[r])]
     IN IF o = None THEN pc' = "close" /\ todo' = {}
        ELSE pc' = "copy" /\ todo' = {n \in Names : o[n] # None}
  /\ UNCHANGED <<waiting, open, answers, base, dirs, runs, tracked, crashes,
                 last, again>>

\* File n of base b becomes f, by the commit of the run in hand.
Copies(n, f) ==
  LET b == CheckpointInput(cur)
  IN /\ base' = [base EXCEPT ![b][n] = f]
     /\ last' = [last EXCEPT ![b] = tracked[cur]]

\* Variant: what is copied is not the file but its directory.
CopyFileDir(n) ==
  /\ pc = "copy" /\ n \in todo
  /\ Copies(n, dirs[OutputDir(tracked[cur])])
  /\ todo' = todo \ {n}
  /\ UNCHANGED <<waiting, open, answers, dirs, runs, pc, tracked, cur, crashes,
                 again>>

CopyFile(n) ==
  /\ pc = "copy" /\ n \in todo
  /\ Copies(n, dirs[OutputDir(tracked[cur])][n])
  /\ todo' = todo \ {n}
  /\ UNCHANGED <<waiting, open, answers, dirs, runs, pc, tracked, cur, crashes,
                 again>>

\* Variant: the directory stays.
RemoveDirNot ==
  /\ pc = "copy" /\ todo = {}
  /\ pc' = "close"
  /\ UNCHANGED <<waiting, open, answers, base, dirs, runs, tracked, cur, todo,
                 crashes, last, again>>

\* remove_dir_all.
RemoveDir ==
  /\ pc = "copy" /\ todo = {}
  /\ dirs' = [dirs EXCEPT ![OutputDir(tracked[cur])] = None]
  /\ pc' = "close"
  /\ UNCHANGED <<waiting, open, answers, base, runs, tracked, cur, todo,
                 crashes, last, again>>

CloseJob ==
  /\ pc = "close"
  /\ Closes(cur, "success")
  /\ cur' = None /\ pc' = "idle"
  /\ UNCHANGED <<waiting, base, dirs, runs, todo, crashes, last, again>>

-----------------------------------------------------------------------------
\* The dispatcher is lost, or a call of commit_checkpoint fails and ends it;
\* the file that is being copied may be left incomplete.  Workers go on.
Crash ==
  /\ pc # "down" /\ crashes < MaxCrashes
  /\ \/ UNCHANGED <<base, last>>
     \/ pc = "copy" /\ \E n \in todo : Copies(n, Torn)
  /\ pc' = "down"
  /\ tracked' = [r \in Requests |-> None]
  /\ cur' = None /\ todo' = {}
  /\ crashes' = crashes + 1
  /\ UNCHANGED <<waiting, open, answers, dirs, runs, again>>

Next ==
  \/ \E d \in Dirs : ReadCheckpoint(d) \/ Ends(d)
  \/ \E d \in Dirs, n \in Names : WriteFile(d, n)
  \/ \E r \in Requests : Submit(r) \/ AcceptJob(r) \/ SkipJob(r)
  \/ \E d \in Dirs : SpawnJob(d)
  \/ Ack
  \/ \E r \in Requests, d \in Dirs : RestoreJob(r, d)
  \/ Restart
  \/ EndRestore
  \/ \E r \in Requests : CollectSuccess(r) \/ CollectFailure(r)
  \/ \E n \in Names : CopyFile(n)
  \/ RemoveDir
  \/ CloseJob
  \/ Crash

Spec == Init /\ [][Next]_vars

-----------------------------------------------------------------------------
(* Properties *)

\* Every variable keeps its kind of value.
TypeOK ==
  /\ waiting \subseteq Requests /\ open \subseteq Requests
  /\ answers \in [Requests -> {"none", "success", "error"}]
  /\ base \in [Bases -> [Names -> Dirs \cup {Torn, None}]]
  /\ dirs \in [Dirs -> [Names -> Dirs \cup {None}] \cup {None}]
  /\ runs \in [Dirs -> Run \cup {None}]
  /\ pc \in {"down", "restore", "idle", "spawn", "ack", "copy", "close"}
  /\ tracked \in [Requests -> Dirs \cup {None}]
  /\ cur \in Requests \cup {None}
  /\ todo \subseteq Requests \cup Names
  /\ crashes \in Nat
  /\ last \in [Bases -> Dirs \cup {None}]
  /\ again \subseteq Requests

\* A base never holds a file of a run that has not ended well: what workers of
\* lost dispatchers write beside the tracked one does not mix with its output.
OnlyFinishedRuns ==
  \A b \in Bases, n \in Names :
    base[b][n] \notin {None, Torn} => runs[base[b][n]].st = "ok"

\* A base stays half-way through a commit only while the job of that commit is
\* stored and will run again, or after it was answered with an error: wherever the
\* dispatcher is lost, no success is stored for a checkpoint that is not whole.
\* Only a job that was accepted once more after its success tears a base again.
SuccessIsWhole ==
  \A b \in Bases : Half(b) # None =>
    LET q == Half(b)
    IN /\ q \in open \/ answers[q] = "error"
       /\ answers[q] = "success" => q \in again

\* Clients that wait for one job before they send the next on the same base
\* start from a whole checkpoint: what a tracked run has read was half-way
\* through a commit of its own request at most, of one answered with an error, or
\* one of the two was accepted once more after its answer and ran beside the other.
StartsWhole ==
  \A r \in Requests :
    tracked[r] # None =>
      LET q == runs[tracked[r]].read
      IN q \in {None, r} \/ answers[q] = "error" \/ {q, r} \cap again # {}

\* Without crashes and errors no output directory stays behind.
NoLeftovers ==
  crashes = 0 =>
    \A d \in Dirs : dirs[d] # None =>
      runs[d].req \in open \/ answers[runs[d].req] = "error"

=============================================================================
