-------------------------- MODULE CheckpointsProofs --------------------------
(***************************************************************************)
(* Proofs about Checkpoints.  The inductive invariant says, part by part,  *)
(* which runs there are and who tracks them, what they have written, what  *)
(* of a commit has been done, and what the bases hold.                     *)
(***************************************************************************)
EXTENDS Checkpoints, TLAPS

-----------------------------------------------------------------------------
(* The inductive invariant *)

\* What the dispatcher has in hand.
HandOK ==
  /\ pc = "restore" => todo \subseteq open
  /\ pc \in {"spawn", "ack"} => cur \in open
  /\ pc = "spawn" => tracked[cur] = None
  /\ pc \in {"copy", "close"} =>
       /\ cur \in Requests
       /\ tracked[cur] # None
       /\ runs[tracked[cur]].st = "ok"
  /\ pc = "copy" => todo \subseteq Names /\ dirs[tracked[cur]] # None

\* A job that is open has not been answered or was accepted once more.  A run
\* belongs to a request that is open or answered, and no more than one run of a
\* request is tracked: the one of a request that is open.
RunsOK ==
  /\ \A r \in open : answers[r] = "none" \/ r \in again
  /\ \A d \in Dirs : runs[d] # None =>
       runs[d].req \in open \/ answers[runs[d].req] # "none"
  /\ \A r \in Requests : tracked[r] # None =>
       r \in open /\ runs[tracked[r]] # None /\ runs[tracked[r]].req = r

\* Clients are patient: of two jobs of a base that are there one has been answered.
PatientOK ==
  \A q, r \in waiting \cup open : CheckpointInput(q) = CheckpointInput(r) =>
    \/ q = r \/ CheckpointInput(q) = None
    \/ answers[q] # "none" \/ answers[r] # "none"

\* A directory belongs to one run, is whole when it has ended well, and is there
\* until its commit has been done.
DirsOK ==
  /\ \A d \in Dirs : runs[d] = None => dirs[d] = None
  /\ \A d \in Dirs, n \in Names : dirs[d] # None => dirs[d][n] \in {None, d}
  /\ \A d \in Dirs : runs[d] # None /\ runs[d].st = "ok" /\ dirs[d] # None =>
       \A n \in Writes(runs[d].req) : dirs[d][n] = d
  /\ \A r \in Requests : tracked[r] # None /\ CheckpointInput(r) # None =>
       dirs[tracked[r]] # None \/ (pc = "close" /\ cur = r)

\* The run copied to a base last is one of a request with that base; the files of
\* a base are of runs.
LastOK ==
  /\ \A b \in Bases : last[b] # None =>
       /\ runs[last[b]] # None
       /\ CheckpointInput(runs[last[b]].req) = b
  /\ \A b \in Bases, n \in Names :
       base[b][n] \in Dirs => runs[base[b][n]] # None

\* What is not left to be copied has been copied.
Copied(n) ==
  /\ base[CheckpointInput(cur)][n] = tracked[cur]
  /\ last[CheckpointInput(cur)] = tracked[cur]

CommitOK ==
  /\ pc = "copy" => \A n \in Writes(cur) : n \in todo \/ Copied(n)
  /\ pc = "close" => \A n \in Writes(cur) : Copied(n)

\* SuccessIsWhole, in terms of the run that was copied last.
WholeOK ==
  \A b \in Bases : last[b] # None =>
    \/ runs[last[b]].req \in open
    \/ answers[runs[last[b]].req] = "error"
    \/ \A n \in Writes(runs[last[b]].req) : base[b][n] = last[b]

\* As long as there was no crash no message comes twice: it is acknowledged before
\* its job can end.
OnceOK ==
  crashes = 0 =>
    /\ again = {}
    /\ \A r \in waiting : answers[r] = "none"
    /\ \A r \in waiting \cap open : pc \in {"spawn", "ack"} /\ r = cur

\* Nor is anything restored, and an output directory is that of a tracked run or
\* one of a job that was answered with an error.
LeftOK ==
  /\ pc = "close" => dirs[tracked[cur]] = None
  /\ crashes = 0 =>
       /\ pc \in {"down", "restore"} => open = {}
       /\ \A d \in Dirs : dirs[d] # None =>
            \/ tracked[runs[d].req] = d
            \/ answers[runs[d].req] = "error"

TypeInv == TypeOK /\ HandOK /\ RunsOK
FilesInv == DirsOK /\ LastOK /\ OnlyFinishedRuns
BasesInv == PatientOK /\ CommitOK /\ WholeOK /\ StartsWhole
IInv == TypeInv /\ FilesInv /\ BasesInv /\ OnceOK /\ LeftOK

-----------------------------------------------------------------------------
(* What steps do to the runs *)

\* The invariant holds at first.
LEMMA InitInv == Init => IInv
<1> SUFFICES ASSUME Init PROVE IInv
  OBVIOUS
<1>1. \A b \in Bases, n \in Names : base[b][n] = None
  BY DEF Init, Empty
<1>2. TypeInv
  BY DEF Init, Empty, TypeInv, TypeOK, HandOK, RunsOK
<1>3. FilesInv
  BY <1>1, RequestsAssumption
     DEF Init, FilesInv, DirsOK, LastOK, OnlyFinishedRuns
<1>4. BasesInv
  BY DEF Init, BasesInv, PatientOK, CommitOK, WholeOK, StartsWhole
<1>5. OnceOK /\ LeftOK
  BY DEF Init, OnceOK, LeftOK
<1> QED
  BY <1>2, <1>3, <1>4, <1>5 DEF IInv

\* A request that writes files has a base to write them to.
LEMMA KindFacts ==
  ASSUME NEW r \in Requests
  PROVE  /\ CheckpointInput(r) \in Bases \cup {None}
         /\ Writes(r) \subseteq Names
         /\ CheckpointInput(r) = None => Writes(r) = {}
<1>1. KindOf[r] \in Kinds /\ PathOf[r] \in Bases /\ None \notin Bases
  BY RequestsAssumption
<1>2. KindOf[r] \in PlainKinds => KindOf[r] \notin StartKinds \cup RoundKinds \cup FinalKinds
  BY DEF PlainKinds, StartKinds, RoundKinds, FinalKinds
<1> QED
  BY <1>1, <1>2 DEF CheckpointInput, Writes

\* A base is half-way through a commit of the run that was copied to it last.
LEMMA HalfOf ==
  ASSUME NEW b \in Bases
  PROVE  /\ Half(b) # None =>
              /\ last[b] # None
              /\ Half(b) = runs[last[b]].req
              /\ \E n \in Writes(runs[last[b]].req) : base[b][n] # last[b]
         /\ TypeOK /\ LastOK => Half(b) \in Requests \cup {None}
BY DEF Half, TypeOK, LastOK, Run

\* Runs stay, with their requests, and those that have ended well stay so.
RunsStay ==
  /\ runs' \in [Dirs -> Run \cup {None}]
  /\ \A e \in Dirs : runs[e] # None =>
       /\ runs'[e] # None
       /\ runs'[e].req = runs[e].req
       /\ runs[e].st = "ok" => runs'[e].st = "ok"

\* Run d gets state s and has read q; all others stay as they are.
BecomesOnly(d, s, q) ==
  /\ RunsStay
  /\ \A e \in Dirs : runs'[e] # None => runs[e] # None
  /\ \A e \in Dirs \ {d} : runs'[e] = runs[e]
  /\ runs'[d].st = s /\ runs'[d].read = q

\* What reading the checkpoint does to the runs.
LEMMA ReadChanges ==
  ASSUME TypeOK, LastOK, NEW d \in Dirs, ReadCheckpoint(d)
  PROVE  LET b == CheckpointInput(runs[d].req)
         IN BecomesOnly(d, "working", IF b = None THEN None ELSE Half(b))
<1> DEFINE b == CheckpointInput(runs[d].req)
           q == IF b = None THEN None ELSE Half(b)
<1>1. /\ runs[d] \in Run /\ runs[d] # None /\ runs[d].st = "started"
      /\ runs' = [runs EXCEPT ![d].st = "working", ![d].read = q]
  BY DEF ReadCheckpoint, InState, TypeOK
<1>2. runs[d].req \in Requests
  BY <1>1 DEF Run
<1>3. q \in Requests \cup {None}
  BY <1>2, HalfOf, RequestsAssumption DEF CheckpointInput
<1> HIDE DEF q
<1>4. runs'[d] = [runs[d] EXCEPT !.st = "working", !.read = q]
  BY <1>1 DEF TypeOK
<1>5. /\ runs'[d].req = runs[d].req
      /\ runs'[d].st = "working" /\ runs'[d].read = q
      /\ runs'[d] = [req |-> runs[d].req, st |-> "working", read |-> q]
  <2>1. runs[d] = [req |-> runs[d].req, st |-> runs[d].st, read |-> runs[d].read]
    BY <1>1 DEF Run
  <2> QED
    BY <1>4, <2>1
<1>6. runs'[d] \in Run
  BY <1>2, <1>3, <1>5 DEF Run
<1>7. \A e \in Dirs \ {d} : runs'[e] = runs[e]
  BY <1>1 DEF TypeOK
<1>8. runs' \in [Dirs -> Run \cup {None}]
  BY <1>1, <1>6, <1>7 DEF TypeOK
<1>9. runs'[d] # None
  BY <1>6, NoneAssumption
<1>10. BecomesOnly(d, "working", q)
  BY <1>1, <1>5, <1>7, <1>8, <1>9 DEF BecomesOnly, RunsStay
<1> QED
  BY <1>10 DEF q

\* What the end of a worker does to the runs.
LEMMA EndChanges ==
  ASSUME TypeOK, NEW d \in Dirs, Ends(d)
  PROVE  /\ \E s \in {"ok", "failed"} :
              /\ BecomesOnly(d, s, runs[d].read)
              /\ s = "ok" => \A n \in Writes(runs[d].req) :
                                dirs[d] # None /\ dirs[d][n] # None
         /\ runs[d] # None /\ runs[d].st \in {"started", "working"}
<1>1. PICK s \in {"ok", "failed"} :
        /\ runs' = [runs EXCEPT ![d].st = s]
        /\ runs[d] # None /\ runs[d].st \in {"started", "working"}
        /\ s = "ok" => \A n \in Writes(runs[d].req) :
                          dirs[d] # None /\ dirs[d][n] # None
  BY DEF Ends, InState, OutputDir
<1>2. runs[d] \in Run
  BY <1>1 DEF TypeOK
<1>4. runs'[d] = [runs[d] EXCEPT !.st = s]
  BY <1>1 DEF TypeOK
<1>5. /\ runs'[d] \in Run /\ runs'[d].req = runs[d].req
      /\ runs'[d].st = s /\ runs'[d].read = runs[d].read
  BY <1>1, <1>2, <1>4 DEF Run
<1>6. \A e \in Dirs \ {d} : runs'[e] = runs[e]
  BY <1>1 DEF TypeOK
<1>7. runs' \in [Dirs -> Run \cup {None}]
  BY <1>1, <1>5, <1>6 DEF TypeOK
<1>8. runs'[d] # None
  BY <1>5, NoneAssumption
<1>9. BecomesOnly(d, s, runs[d].read)
  BY <1>1, <1>5, <1>6, <1>7, <1>8 DEF BecomesOnly, RunsStay
<1> QED
  BY <1>1, <1>9

\* Neither makes or removes a run.
LEMMA WorkersStay ==
  ASSUME TypeOK, LastOK, NEW d \in Dirs, ReadCheckpoint(d) \/ Ends(d)
  PROVE  /\ RunsStay /\ \A e \in Dirs : runs'[e] # None => runs[e] # None
         /\ UNCHANGED <<waiting, open, answers, base, dirs, pc, tracked, cur, todo,
                        crashes, last, again>>
<1>1. ASSUME ReadCheckpoint(d)
      PROVE  RunsStay /\ \A e \in Dirs : runs'[e] # None => runs[e] # None
  BY <1>1, ReadChanges DEF BecomesOnly
<1>2. ASSUME Ends(d)
      PROVE  RunsStay /\ \A e \in Dirs : runs'[e] # None => runs[e] # None
  BY <1>2, EndChanges DEF BecomesOnly
<1>3. UNCHANGED <<waiting, open, answers, base, dirs, pc, tracked, cur, todo,
                  crashes, last, again>>
  BY DEF ReadCheckpoint, Ends
<1> QED
  BY <1>1, <1>2, <1>3

\* What a spawn does: a new run, in a new and empty directory, is tracked.
LEMMA SpawnChanges ==
  ASSUME TypeOK, NEW r \in Requests, NEW d \in Dirs, Spawns(r, d)
  PROVE  /\ RunsStay
         /\ \A e \in Dirs \ {d} : runs'[e] = runs[e] /\ dirs'[e] = dirs[e]
         /\ runs[d] = None /\ runs'[d] # None /\ runs'[d].req = r
         /\ runs'[d].st = "started" /\ runs'[d].read = None
         /\ dirs' \in [Dirs -> [Names -> Dirs \cup {None}] \cup {None}]
         /\ dirs'[d] # None => dirs'[d] = Empty
         /\ CheckpointInput(r) # None => dirs'[d] # None
         /\ tracked' \in [Requests -> Dirs \cup {None}]
         /\ tracked'[r] = d /\ d # None
         /\ \A q \in Requests \ {r} : tracked'[q] = tracked[q]
<1> DEFINE new == [req |-> r, st |-> "started", read |-> None]
<1>1. /\ new \in Run /\ new # None
      /\ new.req = r /\ new.st = "started" /\ new.read = None
  BY NoneAssumption DEF Run
<1> HIDE DEF new
<1>2. /\ runs[d] = None
      /\ runs' = [runs EXCEPT ![d] = new]
  BY DEF Spawns, new
<1>3. /\ runs' \in [Dirs -> Run \cup {None}] /\ runs'[d] = new
      /\ \A e \in Dirs \ {d} : runs'[e] = runs[e]
  BY <1>1, <1>2 DEF TypeOK
<1>4. RunsStay
  BY <1>2, <1>3 DEF RunsStay
<1>5. Empty \in [Names -> Dirs \cup {None}] /\ Empty # None
  BY NoneAssumption DEF Empty
<1>6. /\ dirs' \in [Dirs -> [Names -> Dirs \cup {None}] \cup {None}]
      /\ dirs'[d] # None => dirs'[d] = Empty
      /\ CheckpointInput(r) # None => dirs'[d] # None
      /\ \A e \in Dirs \ {d} : dirs'[e] = dirs[e]
  BY <1>5 DEF Spawns, TypeOK
<1>7. /\ tracked' \in [Requests -> Dirs \cup {None}]
      /\ tracked'[r] = d /\ d # None
      /\ \A q \in Requests \ {r} : tracked'[q] = tracked[q]
  BY RequestsAssumption DEF Spawns, TypeOK
<1> QED
  BY <1>1, <1>2, <1>3, <1>4, <1>6, <1>7

\* A job that is spawned after it was accepted is open, and not tracked yet.
LEMMA SpawnJobSpawns ==
  ASSUME TypeOK, HandOK, NEW d \in Dirs, SpawnJob(d)
  PROVE  cur \in Requests /\ cur \in open /\ tracked[cur] = None /\ Spawns(cur, d)
BY DEF SpawnJob, HandOK, TypeOK

\* A file that is written is one of a directory that is there.
LEMMA WriteChanges ==
  ASSUME TypeOK, NEW d \in Dirs, NEW n \in Names, WriteFile(d, n)
  PROVE  /\ dirs' \in [Dirs -> [Names -> Dirs \cup {None}] \cup {None}]
         /\ \A e \in Dirs \ {d} : dirs'[e] = dirs[e]
         /\ dirs[d] # None /\ dirs'[d] # None /\ dirs'[d][n] = d
         /\ \A m \in Names \ {n} : dirs'[d][m] = dirs[d][m]
<1>1. dirs[d] # None /\ dirs' = [dirs EXCEPT ![d][n] = d]
  BY DEF WriteFile, OutputDir
<1>2. dirs[d] \in [Names -> Dirs \cup {None}]
  BY <1>1 DEF TypeOK
<1>3. dirs'[d] = [dirs[d] EXCEPT ![n] = d]
  BY <1>1 DEF TypeOK
<1>4. dirs'[d] \in [Names -> Dirs \cup {None}]
  BY <1>2, <1>3
<1> QED
  BY <1>1, <1>2, <1>3, <1>4, NoneAssumption DEF TypeOK

\* File n of the base of the request in hand becomes f, if it has a base.
CopiesOnly(n, f) ==
  LET c == CheckpointInput(cur)
  IN /\ base' \in [Bases -> [Names -> Dirs \cup {Torn, None}]]
     /\ last' \in [Bases -> Dirs \cup {None}]
     /\ \A b \in Bases \ {c} : base'[b] = base[b] /\ last'[b] = last[b]
     /\ c \in Bases => /\ last'[c] = tracked[cur] /\ base'[c][n] = f
                       /\ \A m \in Names \ {n} : base'[c][m] = base[c][m]

\* That is what Copies does.
LEMMA CopyChanges ==
  ASSUME TypeOK, HandOK, pc = "copy", NEW n \in Names,
         NEW f \in Dirs \cup {Torn, None}, Copies(n, f)
  PROVE  CopiesOnly(n, f)
<1> DEFINE c == CheckpointInput(cur)
<1>1. base' = [base EXCEPT ![c][n] = f] /\ last' = [last EXCEPT ![c] = tracked[cur]]
  BY DEF Copies
<1>2. tracked[cur] \in Dirs
  BY DEF HandOK, TypeOK
<1> HIDE DEF c
<1>3. c \in Bases => base'[c] = [base[c] EXCEPT ![n] = f]
  BY <1>1 DEF TypeOK
<1>4. \A b \in Bases \ {c} : base'[b] = base[b]
  BY <1>1 DEF TypeOK
<1>5. ASSUME NEW b \in Bases PROVE base'[b] \in [Names -> Dirs \cup {Torn, None}]
  <2>1. base[b] \in [Names -> Dirs \cup {Torn, None}]
    BY DEF TypeOK
  <2>2. CASE b = c
    BY <1>3, <2>1, <2>2
  <2>3. CASE b # c
    BY <1>4, <2>1, <2>3
  <2> QED
    BY <2>2, <2>3
<1>6. base' \in [Bases -> [Names -> Dirs \cup {Torn, None}]]
  BY <1>1, <1>5 DEF TypeOK
<1>7. c \in Bases => /\ base'[c][n] = f
                     /\ \A m \in Names \ {n} : base'[c][m] = base[c][m]
  BY <1>3 DEF TypeOK
<1>8. /\ last' \in [Bases -> Dirs \cup {None}]
      /\ c \in Bases => last'[c] = tracked[cur]
      /\ \A b \in Bases \ {c} : last'[b] = last[b]
  BY <1>1, <1>2 DEF TypeOK
<1> QED
  BY <1>4, <1>6, <1>7, <1>8 DEF c, CopiesOnly

\* CopyFile copies from the directory of the run in hand.
LEMMA CopyFileChanges ==
  ASSUME TypeOK, HandOK, NEW n \in Names, CopyFile(n)
  PROVE  CopiesOnly(n, dirs[tracked[cur]][n])
<1>1. tracked[cur] \in Dirs /\ dirs[tracked[cur]] # None
  BY DEF HandOK, TypeOK, CopyFile
<1>2. dirs[tracked[cur]][n] \in Dirs \cup {None}
  BY <1>1 DEF TypeOK
<1> QED
  BY <1>2, CopyChanges DEF CopyFile, OutputDir

\* A crash leaves at most one file torn.
LEMMA CrashChanges ==
  ASSUME TypeOK, HandOK, Crash
  PROVE  \/ base' = base /\ last' = last
         \/ pc = "copy" /\ \E n \in Names : n \in todo /\ CopiesOnly(n, Torn)
<1>1. CASE UNCHANGED <<base, last>>
  BY <1>1
<1>2. CASE pc = "copy" /\ \E n \in todo : Copies(n, Torn)
  BY <1>2, CopyChanges DEF HandOK
<1> QED
  BY <1>1, <1>2 DEF Crash

-----------------------------------------------------------------------------
(* Each part of the invariant is kept *)

\* One step keeps the types.
LEMMA TypeStep ==
  ASSUME TypeOK, HandOK, LastOK, [Next]_vars
  PROVE  TypeOK'
<1> USE DEF TypeOK
<1>1. ASSUME NEW d \in Dirs, ReadCheckpoint(d) PROVE TypeOK'
  BY <1>1, ReadChanges, WorkersStay DEF BecomesOnly, RunsStay
<1>2. ASSUME NEW d \in Dirs, Ends(d) PROVE TypeOK'
  BY <1>2, EndChanges, WorkersStay DEF BecomesOnly, RunsStay
<1>3. ASSUME NEW d \in Dirs, NEW n \in Names, WriteFile(d, n) PROVE TypeOK'
  BY <1>3, WriteChanges DEF WriteFile
<1>4. ASSUME NEW r \in Requests, Submit(r) PROVE TypeOK'
  BY <1>4 DEF Submit
<1>5. ASSUME NEW r \in Requests, AcceptJob(r) PROVE TypeOK'
  BY <1>5 DEF AcceptJob
<1>6. ASSUME NEW d \in Dirs, SpawnJob(d) PROVE TypeOK'
  BY <1>6, SpawnJobSpawns, SpawnChanges DEF SpawnJob, RunsStay
<1>7. CASE Ack
  BY <1>7 DEF Ack
<1>8. ASSUME NEW r \in Requests, SkipJob(r) PROVE TypeOK'
  BY <1>8 DEF SkipJob
<1>9. ASSUME NEW r \in Requests, NEW d \in Dirs, RestoreJob(r, d) PROVE TypeOK'
  BY <1>9, SpawnChanges DEF RestoreJob, RunsStay
<1>10. CASE Restart
  BY <1>10 DEF Restart
<1>11. CASE EndRestore
  BY <1>11 DEF EndRestore
<1>12. ASSUME NEW r \in Requests, CollectSuccess(r) PROVE TypeOK'
  BY <1>12 DEF CollectSuccess
<1>13. ASSUME NEW r \in Requests, CollectFailure(r) PROVE TypeOK'
  BY <1>13 DEF CollectFailure, Closes
<1>14. ASSUME NEW n \in Names, CopyFile(n) PROVE TypeOK'
  BY <1>14, CopyFileChanges DEF CopyFile, CopiesOnly
<1>15. CASE RemoveDir
  BY <1>15 DEF RemoveDir
<1>16. CASE CloseJob
  BY <1>16 DEF CloseJob, Closes
<1>17. CASE Crash
  BY <1>17, CrashChanges DEF Crash, CopiesOnly
<1>18. CASE UNCHANGED vars
  BY <1>18 DEF vars
<1> QED
  BY <1>1, <1>2, <1>3, <1>4, <1>5, <1>6, <1>7, <1>8, <1>9, <1>10, <1>11,
     <1>12, <1>13, <1>14, <1>15, <1>16, <1>17, <1>18
  DEF Next

\* ... what is in hand,
LEMMA HandStep ==
  ASSUME TypeOK, HandOK, LastOK, RunsOK, DirsOK, [Next]_vars
  PROVE  HandOK'
<1> USE DEF TypeOK, HandOK, RunsOK
<1>1. ASSUME NEW d \in Dirs, ReadCheckpoint(d) PROVE HandOK'
  BY <1>1, WorkersStay DEF RunsStay
<1>2. ASSUME NEW d \in Dirs, Ends(d) PROVE HandOK'
  BY <1>2, WorkersStay DEF RunsStay
<1>3. ASSUME NEW d \in Dirs, NEW n \in Names, WriteFile(d, n) PROVE HandOK'
  <2>1. \A e \in Dirs : dirs[e] # None => dirs'[e] # None
    BY <1>3, WriteChanges
  <2>2. UNCHANGED <<open, runs, pc, tracked, cur, todo>>
    BY <1>3 DEF WriteFile
  <2> QED
    BY <2>1, <2>2
<1>4. ASSUME NEW r \in Requests, Submit(r) PROVE HandOK'
  BY <1>4 DEF Submit
<1>5. ASSUME NEW r \in Requests, AcceptJob(r) PROVE HandOK'
  BY <1>5 DEF AcceptJob
<1>6. ASSUME NEW d \in Dirs, SpawnJob(d) PROVE HandOK'
  BY <1>6, SpawnJobSpawns, SpawnChanges DEF SpawnJob
<1>7. CASE Ack
  BY <1>7 DEF Ack
<1>8. ASSUME NEW r \in Requests, SkipJob(r) PROVE HandOK'
  BY <1>8 DEF SkipJob
<1>9. ASSUME NEW r \in Requests, NEW d \in Dirs, RestoreJob(r, d) PROVE HandOK'
  BY <1>9, SpawnChanges DEF RestoreJob, RunsStay
<1>10. CASE Restart
  BY <1>10 DEF Restart
<1>11. CASE EndRestore
  BY <1>11 DEF EndRestore
<1>12. ASSUME NEW r \in Requests, CollectSuccess(r) PROVE HandOK'
  BY <1>12 DEF CollectSuccess, OutputDir
<1>13. ASSUME NEW r \in Requests, CollectFailure(r) PROVE HandOK'
  BY <1>13 DEF CollectFailure, Closes
<1>14. ASSUME NEW n \in Names, CopyFile(n) PROVE HandOK'
  BY <1>14 DEF CopyFile
<1>15. CASE RemoveDir
  BY <1>15 DEF RemoveDir
<1>16. CASE CloseJob
  BY <1>16 DEF CloseJob, Closes
<1>17. CASE Crash
  BY <1>17 DEF Crash
<1>18. CASE UNCHANGED vars
  BY <1>18 DEF vars
<1> QED
  BY <1>1, <1>2, <1>3, <1>4, <1>5, <1>6, <1>7, <1>8, <1>9, <1>10, <1>11,
     <1>12, <1>13, <1>14, <1>15, <1>16, <1>17, <1>18
  DEF Next

\* A worker's own steps do not disturb who tracks it.
LEMMA RunsKept ==
  ASSUME TypeOK, RunsOK, RunsStay,
         \A e \in Dirs : runs'[e] # None => runs[e] # None,
         UNCHANGED <<open, answers, tracked, again>>
  PROVE  RunsOK'
<1>1. ASSUME NEW d \in Dirs, runs'[d] # None
      PROVE  runs'[d].req \in open' \/ answers'[runs'[d].req] # "none"
  <2>1. runs[d] # None
    BY <1>1
  <2>2. runs'[d].req = runs[d].req
    BY <2>1 DEF RunsStay
  <2>3. open' = open /\ answers' = answers
    OBVIOUS
  <2> QED
    BY <2>1, <2>2, <2>3 DEF RunsOK
<1>2. ASSUME NEW r \in Requests, tracked'[r] # None
      PROVE  r \in open' /\ runs'[tracked'[r]] # None /\ runs'[tracked'[r]].req = r
  BY <1>2 DEF TypeOK, RunsOK, RunsStay
<1>3. \A r \in open' : answers'[r] = "none" \/ r \in again'
  BY DEF RunsOK
<1> QED
  BY <1>1, <1>2, <1>3 DEF RunsOK

\* ... the runs,
LEMMA RunsStep ==
  ASSUME TypeOK, HandOK, LastOK, RunsOK, [Next]_vars
  PROVE  RunsOK'
<1> USE DEF TypeOK, RunsOK
<1>1. ASSUME NEW d \in Dirs, ReadCheckpoint(d) PROVE RunsOK'
  BY <1>1, WorkersStay, RunsKept
<1>2. ASSUME NEW d \in Dirs, Ends(d) PROVE RunsOK'
  BY <1>2, WorkersStay, RunsKept
<1>3. ASSUME NEW d \in Dirs, NEW n \in Names, WriteFile(d, n) PROVE RunsOK'
  BY <1>3 DEF WriteFile
<1>4. ASSUME NEW r \in Requests, Submit(r) PROVE RunsOK'
  BY <1>4 DEF Submit
<1>5. ASSUME NEW r \in Requests, AcceptJob(r) PROVE RunsOK'
  BY <1>5 DEF AcceptJob
<1>6. ASSUME NEW d \in Dirs, SpawnJob(d) PROVE RunsOK'
  BY <1>6, SpawnJobSpawns, SpawnChanges DEF SpawnJob, RunsStay
<1>7. CASE Ack
  BY <1>7 DEF Ack
<1>8. ASSUME NEW r \in Requests, SkipJob(r) PROVE RunsOK'
  BY <1>8 DEF SkipJob
<1>9. ASSUME NEW r \in Requests, NEW d \in Dirs, RestoreJob(r, d) PROVE RunsOK'
  BY <1>9, SpawnChanges DEF RestoreJob, RunsStay, HandOK
<1>10. CASE Restart
  BY <1>10 DEF Restart
<1>11. CASE EndRestore
  BY <1>11 DEF EndRestore
<1>12. ASSUME NEW r \in Requests, CollectSuccess(r) PROVE RunsOK'
  BY <1>12 DEF CollectSuccess
<1>13. ASSUME NEW r \in Requests, CollectFailure(r) PROVE RunsOK'
  BY <1>13 DEF CollectFailure, Closes
<1>14. ASSUME NEW n \in Names, CopyFile(n) PROVE RunsOK'
  BY <1>14 DEF CopyFile
<1>15. CASE RemoveDir
  BY <1>15 DEF RemoveDir
<1>16. CASE CloseJob
  BY <1>16 DEF CloseJob, Closes, HandOK
<1>17. CASE Crash
  BY <1>17 DEF Crash
<1>18. CASE UNCHANGED vars
  BY <1>18 DEF vars
<1> QED
  BY <1>1, <1>2, <1>3, <1>4, <1>5, <1>6, <1>7, <1>8, <1>9, <1>10, <1>11,
     <1>12, <1>13, <1>14, <1>15, <1>16, <1>17, <1>18
  DEF Next

\* ... the clients' patience,
LEMMA PatientStep ==
  ASSUME TypeOK, HandOK, PatientOK, [Next]_vars
  PROVE  PatientOK'
<1> USE DEF PatientOK, CheckpointInput
<1>1. ASSUME NEW d \in Dirs, ReadCheckpoint(d) PROVE PatientOK'
  BY <1>1 DEF ReadCheckpoint
<1>2. ASSUME NEW d \in Dirs, Ends(d) PROVE PatientOK'
  BY <1>2 DEF Ends
<1>3. ASSUME NEW d \in Dirs, NEW n \in Names, WriteFile(d, n) PROVE PatientOK'
  BY <1>3 DEF WriteFile
<1>4. ASSUME NEW r \in Requests, Submit(r) PROVE PatientOK'
  BY <1>4 DEF Submit
<1>5. ASSUME NEW r \in Requests, AcceptJob(r) PROVE PatientOK'
  BY <1>5 DEF AcceptJob
<1>6. ASSUME NEW d \in Dirs, SpawnJob(d) PROVE PatientOK'
  BY <1>6 DEF SpawnJob
<1>7. CASE Ack
  BY <1>7 DEF Ack
<1>8. ASSUME NEW r \in Requests, SkipJob(r) PROVE PatientOK'
  BY <1>8 DEF SkipJob
<1>9. ASSUME NEW r \in Requests, NEW d \in Dirs, RestoreJob(r, d) PROVE PatientOK'
  BY <1>9 DEF RestoreJob
<1>10. CASE Restart
  BY <1>10 DEF Restart
<1>11. CASE EndRestore
  BY <1>11 DEF EndRestore
<1>12. ASSUME NEW r \in Requests, CollectSuccess(r) PROVE PatientOK'
  BY <1>12 DEF CollectSuccess
<1>13. ASSUME NEW r \in Requests, CollectFailure(r) PROVE PatientOK'
  BY <1>13 DEF CollectFailure, Closes
<1>14. ASSUME NEW n \in Names, CopyFile(n) PROVE PatientOK'
  BY <1>14 DEF CopyFile
<1>15. CASE RemoveDir
  BY <1>15 DEF RemoveDir
<1>16. CASE CloseJob
  BY <1>16 DEF CloseJob, Closes
<1>17. CASE Crash
  BY <1>17 DEF Crash
<1>18. CASE UNCHANGED vars
  BY <1>18 DEF vars
<1> QED
  BY <1>1, <1>2, <1>3, <1>4, <1>5, <1>6, <1>7, <1>8, <1>9, <1>10, <1>11,
     <1>12, <1>13, <1>14, <1>15, <1>16, <1>17, <1>18
  DEF Next

\* A new directory is empty and there.
LEMMA SpawnDirs ==
  ASSUME TypeOK, RunsOK, DirsOK, pc # "close",
         NEW r \in Requests, NEW d \in Dirs, Spawns(r, d)
  PROVE  DirsOK'
<1>1. /\ runs[d] = None /\ runs'[d] # None /\ runs'[d].st = "started"
      /\ \A e \in Dirs : e # d => runs'[e] = runs[e] /\ dirs'[e] = dirs[e]
      /\ dirs'[d] # None => dirs'[d] = Empty
      /\ CheckpointInput(r) # None => dirs'[d] # None
      /\ tracked'[r] = d
      /\ \A q \in Requests : q # r => tracked'[q] = tracked[q]
  BY SpawnChanges
<1>2. \A e \in Dirs : runs'[e] = None => dirs'[e] = None
  BY <1>1 DEF DirsOK
<1>3. ASSUME NEW e \in Dirs, NEW n \in Names, dirs'[e] # None
      PROVE  dirs'[e][n] \in {None, e}
  <2>1. CASE e = d
    BY <1>1, <1>3, <2>1 DEF Empty
  <2>2. CASE e # d
    BY <1>1, <1>3, <2>2 DEF DirsOK
  <2> QED
    BY <2>1, <2>2
<1>4. ASSUME NEW e \in Dirs, runs'[e] # None, runs'[e].st = "ok", dirs'[e] # None
      PROVE  \A n \in Writes(runs'[e].req) : dirs'[e][n] = e
  <2>1. e # d
    BY <1>1, <1>4
  <2> QED
    BY <1>1, <1>4, <2>1 DEF DirsOK
<1>5. ASSUME NEW q \in Requests, tracked'[q] # None, CheckpointInput(q) # None
      PROVE  dirs'[tracked'[q]] # None
  <2>1. CASE q = r
    BY <1>1, <1>5, <2>1
  <2>2. CASE q # r
    <3>1. tracked[q] # None /\ tracked[q] \in Dirs /\ runs[tracked[q]] # None
      BY <1>1, <1>5, <2>2 DEF TypeOK, RunsOK
    <3> QED
      BY <1>1, <1>5, <2>2, <3>1 DEF DirsOK
  <2> QED
    BY <2>1, <2>2
<1> QED
  BY <1>2, <1>3, <1>4, <1>5 DEF DirsOK

\* ... what is in the output directories,
LEMMA DirsStep ==
  ASSUME TypeOK, HandOK, LastOK, RunsOK, DirsOK, [Next]_vars
  PROVE  DirsOK'
<1> USE DEF TypeOK, RunsOK, DirsOK
<1>1. ASSUME NEW d \in Dirs, ReadCheckpoint(d) PROVE DirsOK'
  BY <1>1, ReadChanges, WorkersStay DEF BecomesOnly, RunsStay
<1>2. ASSUME NEW d \in Dirs, Ends(d) PROVE DirsOK'
  <2>1. PICK s \in {"ok", "failed"} :
          /\ BecomesOnly(d, s, runs[d].read)
          /\ s = "ok" => \A n \in Writes(runs[d].req) :
                           dirs[d] # None /\ dirs[d][n] # None
    BY <1>2, EndChanges
  <2>2. runs[d] # None /\ runs[d].req \in Requests
    BY <1>2, EndChanges DEF Run
  <2>3. Writes(runs[d].req) \subseteq Names
    BY <2>2, KindFacts
  <2>4. /\ runs'[d].st = s /\ runs'[d].req = runs[d].req
        /\ \A e \in Dirs : e # d => runs'[e] = runs[e]
        /\ \A e \in Dirs : runs'[e] = None => runs[e] = None
    BY <2>1, <2>2 DEF BecomesOnly, RunsStay
  <2>5. UNCHANGED <<dirs, tracked, pc, cur>>
    BY <1>2 DEF Ends
  <2>6. ASSUME NEW e \in Dirs, runs'[e] # None, runs'[e].st = "ok", dirs'[e] # None
        PROVE  \A n \in Writes(runs'[e].req) : dirs'[e][n] = e
    <3>1. CASE e = d
      BY <2>1, <2>3, <2>4, <2>5, <2>6, <3>1
    <3>2. CASE e # d
      BY <2>4, <2>5, <2>6, <3>2
    <3> QED
      BY <3>1, <3>2
  <2> QED
    BY <2>4, <2>5, <2>6
<1>3. ASSUME NEW d \in Dirs, NEW n \in Names, WriteFile(d, n) PROVE DirsOK'
  <2>1. /\ runs[d] # None /\ runs[d].st = "working"
        /\ UNCHANGED <<runs, tracked, pc, cur>>
    BY <1>3 DEF WriteFile, InState
  <2>2. /\ dirs[d] # None /\ dirs'[d] # None /\ dirs'[d][n] = d
        /\ \A m \in Names : m # n => dirs'[d][m] = dirs[d][m]
        /\ \A e \in Dirs : e # d => dirs'[e] = dirs[e]
    BY <1>3, WriteChanges
  <2>3. \A e \in Dirs, m \in Names : dirs'[e] # None => dirs'[e][m] \in {None, e}
    BY <2>2
  <2>4. \A e \in Dirs : dirs'[e] # None => dirs[e] # None
    BY <2>2
  <2>5. ASSUME NEW e \in Dirs, runs'[e] # None, runs'[e].st = "ok", dirs'[e] # None
        PROVE  \A m \in Writes(runs'[e].req) : dirs'[e][m] = e
    BY <2>1, <2>2, <2>5
  <2>6. \A q \in Requests : tracked'[q] # None /\ CheckpointInput(q) # None =>
          dirs'[tracked'[q]] # None \/ (pc' = "close" /\ cur' = q)
    BY <2>1, <2>2
  <2> QED
    BY <2>1, <2>2, <2>3, <2>5, <2>6
<1>4. ASSUME NEW r \in Requests, Submit(r) PROVE DirsOK'
  BY <1>4 DEF Submit
<1>5. ASSUME NEW r \in Requests, AcceptJob(r) PROVE DirsOK'
  BY <1>5 DEF AcceptJob
<1>6. ASSUME NEW d \in Dirs, SpawnJob(d) PROVE DirsOK'
  BY <1>6, SpawnJobSpawns, SpawnDirs DEF SpawnJob
<1>7. CASE Ack
  BY <1>7 DEF Ack
<1>8. ASSUME NEW r \in Requests, SkipJob(r) PROVE DirsOK'
  BY <1>8 DEF SkipJob
<1>9. ASSUME NEW r \in Requests, NEW d \in Dirs, RestoreJob(r, d) PROVE DirsOK'
  BY <1>9, SpawnDirs DEF RestoreJob
<1>10. CASE Restart
  BY <1>10 DEF Restart
<1>11. CASE EndRestore
  BY <1>11 DEF EndRestore
<1>12. ASSUME NEW r \in Requests, CollectSuccess(r) PROVE DirsOK'
  BY <1>12 DEF CollectSuccess, OutputDir
<1>13. ASSUME NEW r \in Requests, CollectFailure(r) PROVE DirsOK'
  BY <1>13 DEF CollectFailure, Closes
<1>14. ASSUME NEW n \in Names, CopyFile(n) PROVE DirsOK'
  BY <1>14 DEF CopyFile
<1>15. CASE RemoveDir
  BY <1>15 DEF RemoveDir, OutputDir, HandOK
<1>16. CASE CloseJob
  BY <1>16 DEF CloseJob, Closes, HandOK
<1>17. CASE Crash
  BY <1>17 DEF Crash
<1>18. CASE UNCHANGED vars
  BY <1>18 DEF vars
<1> QED
  BY <1>1, <1>2, <1>3, <1>4, <1>5, <1>6, <1>7, <1>8, <1>9, <1>10, <1>11,
     <1>12, <1>13, <1>14, <1>15, <1>16, <1>17, <1>18
  DEF Next

\* What a copy, or one cut short, puts into a base: a file of the run in hand.
LEMMA CopiedFiles ==
  ASSUME TypeOK, HandOK, RunsOK, DirsOK, NEW n \in Names, pc = "copy",
         NEW f \in {None, Torn, tracked[cur]}, CopiesOnly(n, f)
  PROVE  /\ \A b \in Bases : last'[b] # last[b] =>
              last'[b] = tracked[cur] /\ b = CheckpointInput(cur)
         /\ \A b \in Bases, m \in Names : base'[b][m] = base[b][m]
              \/ base'[b][m] \in {None, Torn, tracked[cur]}
         /\ runs[tracked[cur]] # None /\ runs[tracked[cur]].req = cur
         /\ runs[tracked[cur]].st = "ok"
<1>1. /\ runs[tracked[cur]] # None /\ runs[tracked[cur]].req = cur
      /\ runs[tracked[cur]].st = "ok"
  BY DEF HandOK, RunsOK
<1>2. ASSUME NEW b \in Bases, b # CheckpointInput(cur)
      PROVE  last'[b] = last[b] /\ base'[b] = base[b]
  BY <1>2 DEF CopiesOnly
<1>3. ASSUME NEW b \in Bases, b = CheckpointInput(cur)
      PROVE  /\ last'[b] = tracked[cur] /\ base'[b][n] = f
             /\ \A m \in Names : m # n => base'[b][m] = base[b][m]
  BY <1>3 DEF CopiesOnly
<1>4. ASSUME NEW b \in Bases
      PROVE  last'[b] # last[b] => last'[b] = tracked[cur] /\ b = CheckpointInput(cur)
  BY <1>2, <1>3
<1>5. ASSUME NEW b \in Bases, NEW m \in Names
      PROVE  base'[b][m] = base[b][m] \/ base'[b][m] \in {None, Torn, tracked[cur]}
  BY <1>2, <1>3
<1> QED
  BY <1>1, <1>4, <1>5

\* So the bases keep holding files of finished runs of their own requests.
LEMMA CopiedKeeps ==
  ASSUME TypeOK, HandOK, RunsOK, DirsOK, LastOK, NEW n \in Names, pc = "copy",
         NEW f \in {None, Torn, tracked[cur]}, CopiesOnly(n, f), runs' = runs
  PROVE  LastOK' /\ (OnlyFinishedRuns => OnlyFinishedRuns')
<1>1. ASSUME NEW b \in Bases, last'[b] # None
      PROVE  runs'[last'[b]] # None /\ CheckpointInput(runs'[last'[b]].req) = b
  <2>1. CASE last'[b] = last[b]
    BY <1>1, <2>1 DEF LastOK
  <2>2. CASE last'[b] # last[b]
    BY <2>2, CopiedFiles
  <2> QED
    BY <2>1, <2>2
<1>2. None \notin Dirs /\ Torn \notin Dirs
  BY RequestsAssumption
<1>3. ASSUME NEW b \in Bases, NEW m \in Names, base'[b][m] \in Dirs
      PROVE  runs'[base'[b][m]] # None
  <2>1. CASE base'[b][m] = base[b][m]
    BY <1>3, <2>1 DEF LastOK
  <2>2. CASE base'[b][m] # base[b][m]
    BY <1>2, <1>3, <2>2, CopiedFiles
  <2> QED
    BY <2>1, <2>2
<1>4. ASSUME OnlyFinishedRuns, NEW b \in Bases, NEW m \in Names,
             base'[b][m] \notin {None, Torn}
      PROVE  runs'[base'[b][m]].st = "ok"
  <2>1. CASE base'[b][m] = base[b][m]
    BY <1>4, <2>1 DEF OnlyFinishedRuns
  <2>2. CASE base'[b][m] # base[b][m]
    BY <1>4, <2>2, CopiedFiles
  <2> QED
    BY <2>1, <2>2
<1>5. LastOK'
  BY <1>1, <1>3 DEF LastOK
<1> QED
  BY <1>4, <1>5 DEF OnlyFinishedRuns

\* That is what CopyFile copies.
LEMMA CopyFileFiles ==
  ASSUME TypeOK, HandOK, DirsOK, NEW n \in Names, CopyFile(n)
  PROVE  /\ pc = "copy" /\ UNCHANGED <<runs, dirs, tracked, cur>>
         /\ dirs[tracked[cur]][n] \in {None, Torn, tracked[cur]}
         /\ CopiesOnly(n, dirs[tracked[cur]][n])
BY CopyFileChanges DEF CopyFile, HandOK, TypeOK, DirsOK

\* ... what was copied to the bases last,
LEMMA LastStep ==
  ASSUME TypeOK, HandOK, RunsOK, DirsOK, LastOK, [Next]_vars
  PROVE  LastOK'
<1> USE DEF TypeOK, RunsOK, LastOK
<1>1. ASSUME NEW d \in Dirs, ReadCheckpoint(d) PROVE LastOK'
  BY <1>1, WorkersStay DEF RunsStay
<1>2. ASSUME NEW d \in Dirs, Ends(d) PROVE LastOK'
  BY <1>2, WorkersStay DEF RunsStay
<1>3. ASSUME NEW d \in Dirs, NEW n \in Names, WriteFile(d, n) PROVE LastOK'
  BY <1>3 DEF WriteFile
<1>4. ASSUME NEW r \in Requests, Submit(r) PROVE LastOK'
  BY <1>4 DEF Submit
<1>5. ASSUME NEW r \in Requests, AcceptJob(r) PROVE LastOK'
  BY <1>5 DEF AcceptJob
<1>6. ASSUME NEW d \in Dirs, SpawnJob(d) PROVE LastOK'
  BY <1>6, SpawnJobSpawns, SpawnChanges DEF SpawnJob, RunsStay
<1>7. CASE Ack
  BY <1>7 DEF Ack
<1>8. ASSUME NEW r \in Requests, SkipJob(r) PROVE LastOK'
  BY <1>8 DEF SkipJob
<1>9. ASSUME NEW r \in Requests, NEW d \in Dirs, RestoreJob(r, d) PROVE LastOK'
  BY <1>9, SpawnChanges DEF RestoreJob, RunsStay
<1>10. CASE Restart
  BY <1>10 DEF Restart
<1>11. CASE EndRestore
  BY <1>11 DEF EndRestore
<1>12. ASSUME NEW r \in Requests, CollectSuccess(r) PROVE LastOK'
  BY <1>12 DEF CollectSuccess
<1>13. ASSUME NEW r \in Requests, CollectFailure(r) PROVE LastOK'
  BY <1>13 DEF CollectFailure, Closes
<1>14. ASSUME NEW n \in Names, CopyFile(n) PROVE LastOK'
  BY <1>14, CopyFileFiles, CopiedKeeps
<1>15. CASE RemoveDir
  BY <1>15 DEF RemoveDir
<1>16. CASE CloseJob
  BY <1>16 DEF CloseJob, Closes
<1>17. CASE Crash
  <2>1. CASE base' = base /\ last' = last
    BY <1>17, <2>1 DEF Crash
  <2>2. CASE pc = "copy" /\ \E n \in Names : n \in todo /\ CopiesOnly(n, Torn)
    BY <1>17, <2>2, CopiedKeeps DEF Crash
  <2> QED
    BY <1>17, <2>1, <2>2, CrashChanges
<1>18. CASE UNCHANGED vars
  BY <1>18 DEF vars
<1> QED
  BY <1>1, <1>2, <1>3, <1>4, <1>5, <1>6, <1>7, <1>8, <1>9, <1>10, <1>11,
     <1>12, <1>13, <1>14, <1>15, <1>16, <1>17, <1>18
  DEF Next

\* ... that files of bases are of runs that have ended well,
LEMMA BaseStep ==
  ASSUME TypeOK, HandOK, LastOK, DirsOK, RunsOK, OnlyFinishedRuns, [Next]_vars
  PROVE  OnlyFinishedRuns'
<1> USE DEF TypeOK, LastOK, OnlyFinishedRuns
<1>1. ASSUME NEW d \in Dirs, ReadCheckpoint(d) PROVE OnlyFinishedRuns'
  BY <1>1, WorkersStay DEF RunsStay
<1>2. ASSUME NEW d \in Dirs, Ends(d) PROVE OnlyFinishedRuns'
  BY <1>2, WorkersStay DEF RunsStay
<1>3. ASSUME NEW d \in Dirs, NEW n \in Names, WriteFile(d, n) PROVE OnlyFinishedRuns'
  BY <1>3 DEF WriteFile
<1>4. ASSUME NEW r \in Requests, Submit(r) PROVE OnlyFinishedRuns'
  BY <1>4 DEF Submit
<1>5. ASSUME NEW r \in Requests, AcceptJob(r) PROVE OnlyFinishedRuns'
  BY <1>5 DEF AcceptJob
<1>6. ASSUME NEW d \in Dirs, SpawnJob(d) PROVE OnlyFinishedRuns'
  BY <1>6, SpawnJobSpawns, SpawnChanges DEF SpawnJob, RunsStay
<1>7. CASE Ack
  BY <1>7 DEF Ack
<1>8. ASSUME NEW r \in Requests, SkipJob(r) PROVE OnlyFinishedRuns'
  BY <1>8 DEF SkipJob
<1>9. ASSUME NEW r \in Requests, NEW d \in Dirs, RestoreJob(r, d) PROVE OnlyFinishedRuns'
  BY <1>9, SpawnChanges DEF RestoreJob, RunsStay
<1>10. CASE Restart
  BY <1>10 DEF Restart
<1>11. CASE EndRestore
  BY <1>11 DEF EndRestore
<1>12. ASSUME NEW r \in Requests, CollectSuccess(r) PROVE OnlyFinishedRuns'
  BY <1>12 DEF CollectSuccess
<1>13. ASSUME NEW r \in Requests, CollectFailure(r) PROVE OnlyFinishedRuns'
  BY <1>13 DEF CollectFailure
<1>14. ASSUME NEW n \in Names, CopyFile(n) PROVE OnlyFinishedRuns'
  BY <1>14, CopyFileFiles, CopiedKeeps
<1>15. CASE RemoveDir
  BY <1>15 DEF RemoveDir
<1>16. CASE CloseJob
  BY <1>16 DEF CloseJob
<1>17. CASE Crash
  <2>1. CASE base' = base /\ last' = last
    BY <1>17, <2>1 DEF Crash
  <2>2. CASE pc = "copy" /\ \E n \in Names : n \in todo /\ CopiesOnly(n, Torn)
    BY <1>17, <2>2, CopiedKeeps DEF Crash
  <2> QED
    BY <1>17, <2>1, <2>2, CrashChanges
<1>18. CASE UNCHANGED vars
  BY <1>18 DEF vars
<1> QED
  BY <1>1, <1>2, <1>3, <1>4, <1>5, <1>6, <1>7, <1>8, <1>9, <1>10, <1>11,
     <1>12, <1>13, <1>14, <1>15, <1>16, <1>17, <1>18
  DEF Next

\* ... how far a commit has come,
LEMMA CommitStep ==
  ASSUME TypeOK, HandOK, LastOK, RunsOK, DirsOK, CommitOK, [Next]_vars
  PROVE  CommitOK'
<1> USE DEF TypeOK, HandOK, CommitOK, Copied
<1>1. ASSUME NEW d \in Dirs, ReadCheckpoint(d) PROVE CommitOK'
  BY <1>1 DEF ReadCheckpoint
<1>2. ASSUME NEW d \in Dirs, Ends(d) PROVE CommitOK'
  BY <1>2 DEF Ends
<1>3. ASSUME NEW d \in Dirs, NEW n \in Names, WriteFile(d, n) PROVE CommitOK'
  BY <1>3 DEF WriteFile
<1>4. ASSUME NEW r \in Requests, Submit(r) PROVE CommitOK'
  BY <1>4 DEF Submit
<1>5. ASSUME NEW r \in Requests, AcceptJob(r) PROVE CommitOK'
  BY <1>5 DEF AcceptJob
<1>6. ASSUME NEW d \in Dirs, SpawnJob(d) PROVE CommitOK'
  BY <1>6, SpawnJobSpawns, SpawnChanges DEF SpawnJob
<1>7. CASE Ack
  BY <1>7 DEF Ack
<1>8. ASSUME NEW r \in Requests, SkipJob(r) PROVE CommitOK'
  BY <1>8 DEF SkipJob
<1>9. ASSUME NEW r \in Requests, NEW d \in Dirs, RestoreJob(r, d) PROVE CommitOK'
  BY <1>9, SpawnChanges DEF RestoreJob
<1>10. CASE Restart
  BY <1>10 DEF Restart
<1>11. CASE EndRestore
  BY <1>11 DEF EndRestore
<1>12. ASSUME NEW r \in Requests, CollectSuccess(r) PROVE CommitOK'
  BY <1>12, KindFacts DEF CollectSuccess, OutputDir, DirsOK, RunsOK
<1>13. ASSUME NEW r \in Requests, CollectFailure(r) PROVE CommitOK'
  BY <1>13 DEF CollectFailure
<1>14. ASSUME NEW n \in Names, CopyFile(n) PROVE CommitOK'
  BY <1>14, CopyFileChanges, KindFacts, NoneAssumption, RequestsAssumption DEF CopyFile, CopiesOnly, DirsOK, RunsOK
<1>15. CASE RemoveDir
  BY <1>15 DEF RemoveDir
<1>16. CASE CloseJob
  BY <1>16 DEF CloseJob
<1>17. CASE Crash
  BY <1>17 DEF Crash
<1>18. CASE UNCHANGED vars
  BY <1>18 DEF vars
<1> QED
  BY <1>1, <1>2, <1>3, <1>4, <1>5, <1>6, <1>7, <1>8, <1>9, <1>10, <1>11,
     <1>12, <1>13, <1>14, <1>15, <1>16, <1>17, <1>18
  DEF Next

\* ... that a success leaves a whole checkpoint,
LEMMA WholeStep ==
  ASSUME TypeOK, HandOK, RunsOK, LastOK, CommitOK, WholeOK, [Next]_vars
  PROVE  WholeOK'
<1> USE DEF TypeOK, LastOK, WholeOK
<1>1. ASSUME NEW d \in Dirs, ReadCheckpoint(d) PROVE WholeOK'
  BY <1>1, WorkersStay DEF RunsStay
<1>2. ASSUME NEW d \in Dirs, Ends(d) PROVE WholeOK'
  BY <1>2, WorkersStay DEF RunsStay
<1>3. ASSUME NEW d \in Dirs, NEW n \in Names, WriteFile(d, n) PROVE WholeOK'
  BY <1>3 DEF WriteFile
<1>4. ASSUME NEW r \in Requests, Submit(r) PROVE WholeOK'
  BY <1>4 DEF Submit
<1>5. ASSUME NEW r \in Requests, AcceptJob(r) PROVE WholeOK'
  BY <1>5 DEF AcceptJob
<1>6. ASSUME NEW d \in Dirs, SpawnJob(d) PROVE WholeOK'
  BY <1>6, SpawnJobSpawns, SpawnChanges DEF SpawnJob, RunsStay
<1>7. CASE Ack
  BY <1>7 DEF Ack
<1>8. ASSUME NEW r \in Requests, SkipJob(r) PROVE WholeOK'
  BY <1>8 DEF SkipJob
<1>9. ASSUME NEW r \in Requests, NEW d \in Dirs, RestoreJob(r, d) PROVE WholeOK'
  BY <1>9, SpawnChanges DEF RestoreJob, RunsStay
<1>10. CASE Restart
  BY <1>10 DEF Restart
<1>11. CASE EndRestore
  BY <1>11 DEF EndRestore
<1>12. ASSUME NEW r \in Requests, CollectSuccess(r) PROVE WholeOK'
  BY <1>12 DEF CollectSuccess
<1>13. ASSUME NEW r \in Requests, CollectFailure(r) PROVE WholeOK'
  BY <1>13 DEF CollectFailure, Closes
<1>14. ASSUME NEW n \in Names, CopyFile(n) PROVE WholeOK'
  BY <1>14, CopyFileChanges DEF CopyFile, CopiesOnly, HandOK, RunsOK
<1>15. CASE RemoveDir
  BY <1>15 DEF RemoveDir
<1>16. CASE CloseJob
  BY <1>16 DEF CloseJob, Closes, HandOK, RunsOK, CommitOK, Copied
<1>17. CASE Crash
  BY <1>17, CrashChanges DEF Crash, CopiesOnly, HandOK, RunsOK
<1>18. CASE UNCHANGED vars
  BY <1>18 DEF vars
<1> QED
  BY <1>1, <1>2, <1>3, <1>4, <1>5, <1>6, <1>7, <1>8, <1>9, <1>10, <1>11,
     <1>12, <1>13, <1>14, <1>15, <1>16, <1>17, <1>18
  DEF Next

\* What StartsWhole says of q, if a run of request r has read it.
SoundRead(r, q) ==
  q \in {None, r} \/ answers[q] = "error" \/ {q, r} \cap again # {}

\* What a worker reads: a base can be half-way through the commit of its own
\* request, and of another one that is open only if one of the two was answered.
LEMMA ReadsWhole ==
  ASSUME TypeOK, RunsOK, LastOK, PatientOK, WholeOK, StartsWhole,
         NEW d \in Dirs, ReadCheckpoint(d)
  PROVE  StartsWhole'
<1> DEFINE b == CheckpointInput(runs[d].req)
           h == IF b = None THEN None ELSE Half(b)
<1>1. /\ BecomesOnly(d, "working", h)
      /\ UNCHANGED <<open, answers, tracked, again>>
  BY ReadChanges, WorkersStay
<1>2. runs[d] # None /\ runs[d].req \in Requests
  BY DEF ReadCheckpoint, InState, TypeOK, Run
<1>3. b \in Bases \cup {None}
  BY <1>2, KindFacts
<1>4. ASSUME NEW r \in Requests, tracked[r] = d, h # None
      PROVE  h = r \/ answers[h] = "error" \/ {h, r} \cap again # {}
  <2>1. b # None /\ h = Half(b) /\ b \in Bases /\ d # None
    BY <1>3, <1>4, RequestsAssumption
  <2> HIDE DEF h, b
  <2>2. PICK n \in Writes(runs[last[b]].req) : base[b][n] # last[b]
    BY <1>4, <2>1, HalfOf
  <2>3. /\ last[b] # None /\ h = runs[last[b]].req /\ h \in Requests
        /\ runs[last[b]] # None /\ last[b] \in Dirs /\ CheckpointInput(h) = b
    BY <1>4, <2>1, HalfOf DEF LastOK, TypeOK
  <2>4. h \in open \/ answers[h] = "error"
    BY <2>1, <2>2, <2>3 DEF WholeOK
  <2>5. r \in open /\ CheckpointInput(r) = b
    BY <1>4, <2>1 DEF RunsOK, b
  <2>6. ASSUME h \in open, h # r PROVE h \in again \/ r \in again
    <3>1. answers[h] # "none" \/ answers[r] # "none"
      BY <2>1, <2>3, <2>5, <2>6 DEF PatientOK
    <3> QED
      BY <2>5, <2>6, <3>1 DEF RunsOK
  <2> QED
    BY <2>4, <2>6
<1> HIDE DEF h
<1>5. ASSUME NEW r \in Requests, tracked'[r] # None
      PROVE  SoundRead(r, runs'[tracked'[r]].read)
  <2>1. tracked'[r] = tracked[r] /\ tracked[r] \in Dirs /\ tracked[r] # None
    BY <1>1, <1>5 DEF TypeOK
  <2>2. CASE tracked[r] = d
    <3>1. runs'[tracked'[r]].read = h
      BY <1>1, <2>1, <2>2 DEF BecomesOnly
    <3> QED
      BY <1>4, <2>2, <3>1 DEF SoundRead
  <2>3. CASE tracked[r] # d
    <3>1. runs'[tracked'[r]] = runs[tracked[r]]
      BY <1>1, <2>1, <2>3 DEF BecomesOnly
    <3>2. SoundRead(r, runs[tracked[r]].read)
      BY <2>1 DEF StartsWhole, SoundRead
    <3> QED
      BY <3>1, <3>2
  <2> QED
    BY <2>2, <2>3
<1> QED
  BY <1>1, <1>5 DEF StartsWhole, SoundRead

\* What another request's run has read stays as good when one is spawned.
LEMMA SpawnStarts ==
  ASSUME TypeOK, RunsOK, StartsWhole, NEW r \in Requests, NEW d \in Dirs,
         Spawns(r, d), UNCHANGED <<answers, again>>
  PROVE  StartsWhole'
<1>1. /\ tracked'[r] = d /\ runs[d] = None /\ runs'[d].read = None
      /\ \A q \in Requests : q # r => tracked'[q] = tracked[q]
      /\ \A e \in Dirs : e # d => runs'[e] = runs[e]
  BY SpawnChanges
<1>2. ASSUME NEW q \in Requests, tracked'[q] # None
      PROVE  SoundRead(q, runs'[tracked'[q]].read)
  <2>1. CASE q = r
    BY <1>1, <2>1 DEF SoundRead
  <2>2. CASE q # r
    <3>1. tracked'[q] = tracked[q] /\ tracked[q] \in Dirs /\ runs[tracked[q]] # None
      BY <1>1, <1>2, <2>2 DEF TypeOK, RunsOK
    <3>2. runs'[tracked'[q]] = runs[tracked[q]]
      BY <1>1, <3>1
    <3>3. SoundRead(q, runs[tracked[q]].read)
      BY <1>2, <3>1 DEF StartsWhole, SoundRead
    <3> QED
      BY <3>2, <3>3
  <2> QED
    BY <2>1, <2>2
<1> QED
  BY <1>2 DEF StartsWhole, SoundRead

\* ... that the next job starts from one,
LEMMA StartsStep ==
  ASSUME TypeOK, HandOK, RunsOK, LastOK, PatientOK, WholeOK, StartsWhole, [Next]_vars
  PROVE  StartsWhole'
<1> USE DEF TypeOK, RunsOK, StartsWhole
<1>1. ASSUME NEW d \in Dirs, ReadCheckpoint(d) PROVE StartsWhole'
  BY <1>1, ReadsWhole DEF ReadCheckpoint
<1>2. ASSUME NEW d \in Dirs, Ends(d) PROVE StartsWhole'
  BY <1>2, EndChanges DEF Ends, BecomesOnly, RunsStay
<1>3. ASSUME NEW d \in Dirs, NEW n \in Names, WriteFile(d, n) PROVE StartsWhole'
  BY <1>3 DEF WriteFile
<1>4. ASSUME NEW r \in Requests, Submit(r) PROVE StartsWhole'
  BY <1>4 DEF Submit
<1>5. ASSUME NEW r \in Requests, AcceptJob(r) PROVE StartsWhole'
  BY <1>5 DEF AcceptJob
<1>6. ASSUME NEW d \in Dirs, SpawnJob(d) PROVE StartsWhole'
  BY <1>6, SpawnJobSpawns, SpawnStarts DEF SpawnJob
<1>7. CASE Ack
  BY <1>7 DEF Ack
<1>8. ASSUME NEW r \in Requests, SkipJob(r) PROVE StartsWhole'
  BY <1>8 DEF SkipJob
<1>9. ASSUME NEW r \in Requests, NEW d \in Dirs, RestoreJob(r, d) PROVE StartsWhole'
  BY <1>9, SpawnStarts DEF RestoreJob
<1>10. CASE Restart
  BY <1>10 DEF Restart
<1>11. CASE EndRestore
  BY <1>11 DEF EndRestore
<1>12. ASSUME NEW r \in Requests, CollectSuccess(r) PROVE StartsWhole'
  BY <1>12 DEF CollectSuccess
<1>13. ASSUME NEW r \in Requests, CollectFailure(r) PROVE StartsWhole'
  BY <1>13 DEF CollectFailure, Closes
<1>14. ASSUME NEW n \in Names, CopyFile(n) PROVE StartsWhole'
  BY <1>14 DEF CopyFile
<1>15. CASE RemoveDir
  BY <1>15 DEF RemoveDir
<1>16. CASE CloseJob
  BY <1>16 DEF CloseJob, Closes, HandOK
<1>17. CASE Crash
  BY <1>17 DEF Crash
<1>18. CASE UNCHANGED vars
  BY <1>18 DEF vars
<1> QED
  BY <1>1, <1>2, <1>3, <1>4, <1>5, <1>6, <1>7, <1>8, <1>9, <1>10, <1>11,
     <1>12, <1>13, <1>14, <1>15, <1>16, <1>17, <1>18
  DEF Next

\* ... that messages come once,
LEMMA OnceStep ==
  ASSUME TypeOK, HandOK, RunsOK, OnceOK, [Next]_vars
  PROVE  OnceOK'
<1> USE DEF TypeOK, RunsOK, OnceOK
<1>1. ASSUME NEW d \in Dirs, ReadCheckpoint(d) PROVE OnceOK'
  BY <1>1 DEF ReadCheckpoint
<1>2. ASSUME NEW d \in Dirs, Ends(d) PROVE OnceOK'
  BY <1>2 DEF Ends
<1>3. ASSUME NEW d \in Dirs, NEW n \in Names, WriteFile(d, n) PROVE OnceOK'
  BY <1>3 DEF WriteFile
<1>4. ASSUME NEW r \in Requests, Submit(r) PROVE OnceOK'
  BY <1>4 DEF Submit
<1>5. ASSUME NEW r \in Requests, AcceptJob(r) PROVE OnceOK'
  BY <1>5 DEF AcceptJob
<1>6. ASSUME NEW d \in Dirs, SpawnJob(d) PROVE OnceOK'
  BY <1>6 DEF SpawnJob
<1>7. CASE Ack
  BY <1>7 DEF Ack
<1>8. ASSUME NEW r \in Requests, SkipJob(r) PROVE OnceOK'
  BY <1>8 DEF SkipJob
<1>9. ASSUME NEW r \in Requests, NEW d \in Dirs, RestoreJob(r, d) PROVE OnceOK'
  BY <1>9 DEF RestoreJob
<1>10. CASE Restart
  BY <1>10 DEF Restart
<1>11. CASE EndRestore
  BY <1>11 DEF EndRestore
<1>12. ASSUME NEW r \in Requests, CollectSuccess(r) PROVE OnceOK'
  BY <1>12 DEF CollectSuccess
<1>13. ASSUME NEW r \in Requests, CollectFailure(r) PROVE OnceOK'
  BY <1>13 DEF CollectFailure, Closes
<1>14. ASSUME NEW n \in Names, CopyFile(n) PROVE OnceOK'
  BY <1>14 DEF CopyFile
<1>15. CASE RemoveDir
  BY <1>15 DEF RemoveDir
<1>16. CASE CloseJob
  BY <1>16 DEF CloseJob, Closes, HandOK
<1>17. CASE Crash
  BY <1>17 DEF Crash
<1>18. CASE UNCHANGED vars
  BY <1>18 DEF vars
<1> QED
  BY <1>1, <1>2, <1>3, <1>4, <1>5, <1>6, <1>7, <1>8, <1>9, <1>10, <1>11,
     <1>12, <1>13, <1>14, <1>15, <1>16, <1>17, <1>18
  DEF Next

\* ... and what is left behind.
LEMMA LeftStep ==
  ASSUME TypeOK, HandOK, RunsOK, DirsOK, LastOK, OnceOK, LeftOK, [Next]_vars
  PROVE  LeftOK'
<1> USE DEF TypeOK, RunsOK, LeftOK
<1>1. ASSUME NEW d \in Dirs, ReadCheckpoint(d) PROVE LeftOK'
  BY <1>1, WorkersStay DEF RunsStay, DirsOK
<1>2. ASSUME NEW d \in Dirs, Ends(d) PROVE LeftOK'
  BY <1>2, WorkersStay DEF RunsStay, DirsOK
<1>3. ASSUME NEW d \in Dirs, NEW n \in Names, WriteFile(d, n) PROVE LeftOK'
  BY <1>3, WriteChanges DEF WriteFile, DirsOK
<1>4. ASSUME NEW r \in Requests, Submit(r) PROVE LeftOK'
  BY <1>4 DEF Submit
<1>5. ASSUME NEW r \in Requests, AcceptJob(r) PROVE LeftOK'
  BY <1>5 DEF AcceptJob
<1>6. ASSUME NEW d \in Dirs, SpawnJob(d) PROVE LeftOK'
  <2>1. /\ runs'[d].req = cur /\ tracked'[cur] = d
        /\ \A e \in Dirs : e # d => runs'[e] = runs[e] /\ dirs'[e] = dirs[e]
        /\ \A q \in Requests : q # cur => tracked'[q] = tracked[q]
    BY <1>6, SpawnJobSpawns, SpawnChanges
  <2>2. /\ pc' = "ack" /\ UNCHANGED <<answers, crashes>>
        /\ tracked[cur] = None
    BY <1>6, SpawnJobSpawns DEF SpawnJob
  <2>3. ASSUME NEW e \in Dirs, e # d, crashes = 0, dirs'[e] # None
        PROVE  tracked'[runs'[e].req] = e \/ answers'[runs'[e].req] = "error"
    <3>1. dirs[e] # None /\ runs'[e] = runs[e]
      BY <2>1, <2>3
    <3>2. runs[e] # None /\ runs[e].req \in Requests
      BY <3>1 DEF DirsOK, Run
    <3>3. tracked[runs[e].req] = e \/ answers[runs[e].req] = "error"
      BY <2>3, <3>1
    <3>4. e # None
      BY RequestsAssumption
    <3> QED
      BY <2>1, <2>2, <3>1, <3>2, <3>3, <3>4
  <2> QED
    BY <2>1, <2>2, <2>3
<1>7. CASE Ack
  BY <1>7 DEF Ack
<1>8. ASSUME NEW r \in Requests, SkipJob(r) PROVE LeftOK'
  BY <1>8 DEF SkipJob
<1>9. ASSUME NEW r \in Requests, NEW d \in Dirs, RestoreJob(r, d) PROVE LeftOK'
  BY <1>9 DEF RestoreJob, HandOK
<1>10. CASE Restart
  BY <1>10 DEF Restart
<1>11. CASE EndRestore
  BY <1>11 DEF EndRestore
<1>12. ASSUME NEW r \in Requests, CollectSuccess(r) PROVE LeftOK'
  BY <1>12 DEF CollectSuccess, OutputDir
<1>13. ASSUME NEW r \in Requests, CollectFailure(r) PROVE LeftOK'
  BY <1>13 DEF CollectFailure, Closes, DirsOK
<1>14. ASSUME NEW n \in Names, CopyFile(n) PROVE LeftOK'
  BY <1>14 DEF CopyFile
<1>15. CASE RemoveDir
  BY <1>15 DEF RemoveDir, OutputDir, HandOK
<1>16. CASE CloseJob
  <2>1. /\ cur \in Requests /\ pc = "close" /\ pc' = "idle"
        /\ tracked[cur] # None /\ cur \in open /\ dirs[tracked[cur]] = None
        /\ answers' = [answers EXCEPT ![cur] = "success"]
        /\ tracked' = [tracked EXCEPT ![cur] = None]
        /\ UNCHANGED <<dirs, runs, crashes>>
    BY <1>16 DEF CloseJob, Closes, HandOK
  <2>2. ASSUME crashes = 0, NEW d \in Dirs, dirs[d] # None
        PROVE  tracked'[runs[d].req] = d \/ answers'[runs[d].req] = "error"
    <3>1. runs[d].req \in Requests
      BY <2>2 DEF DirsOK, Run
    <3>2. answers[cur] # "error"
      BY <2>1, <2>2 DEF OnceOK
    <3>3. tracked[runs[d].req] = d \/ answers[runs[d].req] = "error"
      BY <2>2
    <3>4. runs[d].req # cur
      BY <2>1, <2>2, <3>2, <3>3
    <3> QED
      BY <2>1, <3>1, <3>3, <3>4
  <2> QED
    BY <2>1, <2>2
<1>17. CASE Crash
  BY <1>17 DEF Crash
<1>18. CASE UNCHANGED vars
  BY <1>18 DEF vars
<1> QED
  BY <1>1, <1>2, <1>3, <1>4, <1>5, <1>6, <1>7, <1>8, <1>9, <1>10, <1>11,
     <1>12, <1>13, <1>14, <1>15, <1>16, <1>17, <1>18
  DEF Next

-----------------------------------------------------------------------------
(* Theorems *)

\* The invariant is inductive.
LEMMA Inductive == IInv /\ [Next]_vars => IInv'
<1> SUFFICES ASSUME IInv, [Next]_vars PROVE IInv'
  OBVIOUS
<1> USE DEF IInv, TypeInv, FilesInv, BasesInv
<1>1. TypeOK' /\ HandOK' /\ RunsOK'
  BY TypeStep, HandStep, RunsStep
<1>2. DirsOK' /\ LastOK' /\ OnlyFinishedRuns'
  BY DirsStep, LastStep, BaseStep
<1>3. PatientOK' /\ CommitOK' /\ WholeOK' /\ StartsWhole'
  BY PatientStep, CommitStep, WholeStep, StartsStep
<1>4. OnceOK' /\ LeftOK'
  BY OnceStep, LeftStep
<1> QED
  BY <1>1, <1>2, <1>3, <1>4

\* It holds in every state of every behaviour.
LEMMA Invariant == Spec => []IInv
BY InitInv, Inductive, PTL DEF Spec

\* Every variable keeps its kind of value.
THEOREM TypeCorrect == Spec => []TypeOK
<1>1. IInv => TypeOK
  BY DEF IInv, TypeInv
<1> QED
  BY <1>1, Invariant, PTL

\* Only what a worker wrote that has ended well gets from its output directory to
\* a base, whoever else is writing: every run has a directory of its own.
THEOREM BasesFinished == Spec => []OnlyFinishedRuns
<1>1. IInv => OnlyFinishedRuns
  BY DEF IInv, FilesInv
<1> QED
  BY <1>1, Invariant, PTL

\* commit_checkpoint comes before complete_job: wherever the dispatcher is lost,
\* a job that is answered with a success has been committed to the last file.
THEOREM SuccessesWhole == Spec => []SuccessIsWhole
<1>1. ASSUME IInv PROVE SuccessIsWhole
  <2>1. ASSUME NEW b \in Bases, Half(b) # None
        PROVE  /\ Half(b) \in open \/ answers[Half(b)] = "error"
               /\ answers[Half(b)] = "success" => Half(b) \in again
    <3>1. Half(b) \in open \/ answers[Half(b)] = "error"
      BY <1>1, <2>1, HalfOf DEF IInv, BasesInv, WholeOK
    <3> QED
      BY <1>1, <3>1 DEF IInv, TypeInv, RunsOK
  <2> QED
    BY <2>1 DEF SuccessIsWhole
<1> QED
  BY <1>1, Invariant, PTL

\* A client that waits for one job before it sends the next on a base has that
\* job start from a whole checkpoint, unless the first was answered with an error.
THEOREM JobsStartWhole == Spec => []StartsWhole
<1>1. IInv => StartsWhole
  BY DEF IInv, BasesInv
<1> QED
  BY <1>1, Invariant, PTL

\* Output directories are removed, but for those of failed jobs and lost runs.
THEOREM LeftoversGone == Spec => []NoLeftovers
<1>1. ASSUME IInv PROVE NoLeftovers
  <2>1. ASSUME crashes = 0, NEW d \in Dirs, dirs[d] # None
        PROVE  runs[d].req \in open \/ answers[runs[d].req] = "error"
    <3>1. runs[d] # None /\ runs[d].req \in Requests /\ d # None
      BY <1>1, <2>1, RequestsAssumption DEF IInv, TypeInv, FilesInv, TypeOK, DirsOK, Run
    <3>2. tracked[runs[d].req] = d \/ answers[runs[d].req] = "error"
      BY <1>1, <2>1 DEF IInv, LeftOK
    <3> QED
      BY <1>1, <3>1, <3>2 DEF IInv, TypeInv, RunsOK
  <2> QED
    BY <2>1 DEF NoLeftovers
<1> QED
  BY <1>1, Invariant, PTL

=============================================================================
