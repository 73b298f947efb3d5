---------------------------- MODULE GarbledClient ----------------------------
(***************************************************************************)
(* The client of a garbled circuit                                         *)
(* (garbled-dispatcher/examples/garbled_client.rs) with the dispatcher and *)
(* the directories its jobs work in (WorkDirs).  It has a proof made,      *)
(* reads the files of the proof from the directory of that job, sends them *)
(* to be verified and compares the digests of the two results.  The result *)
(* of the first job and the files it names are read at different times,    *)
(* by two processes.  A client that gives up, because its attempts are     *)
(* used up or a call fails, takes no more steps.                           *)
(***************************************************************************)
EXTENDS WorkDirs

CONSTANTS
  prove,   \* the Prove job of the client
  verify   \* its Verify job; any other request is another client's

ASSUME ClientAssumption ==
  /\ {prove, verify} \subseteq Requests
  /\ KindOf[prove] = "Prove" /\ KindOf[verify] = "Verify"
  /\ \A q, r \in Requests : DirOf[q] = DirOf[r] => q = r

VARIABLES
  cpc,      \* "prove", "proving", "reading", "verifying", "accepted", "ended"
  proved,   \* the run whose ProveResult the client took
  blob,     \* blob[f]: the run that wrote what it read of proof file f
  asked     \* requests sent so far

client == <<cpc, proved, blob, asked>>
cvars  == <<vars, client>>

ClientInit ==
  /\ Init
  /\ cpc = "prove" /\ proved = None /\ asked = {}
  /\ blob = [f \in Proof |-> None]

-----------------------------------------------------------------------------

\* Request r is sent.
Sends(r) ==
  /\ r \notin asked
  /\ asked' = asked \cup {r}
  /\ Ask(r)

SendProve ==
  /\ cpc = "prove"
  /\ Sends(prove)
  /\ cpc' = "proving"
  /\ UNCHANGED <<proved, blob>>

\* Variant: an error is taken for a result.
AwaitedAny(r) == {a \in answers : a.req = r}

\* wait_for_result: the first result of the type that is waited for; others,
\* and errors, are discarded.
Awaited(r) ==
  {a \in answers : a.out # Bad /\ MessageType(procs[a.out].req) = MessageType(r)
                   /\ a.req \in {prove, verify}}

TakeProveResult ==
  /\ cpc = "proving"
  /\ \E a \in Awaited(prove) : proved' = a.out
  /\ cpc' = "reading"
  /\ UNCHANGED <<vars, blob, asked>>

\* std::fs::read of the next proof file the result names.
ReadProofFile(i) ==
  /\ cpc = "reading"
  /\ blob[ProofFiles[i]] = None /\ Files(prove)[ProofFiles[i]] # None
  /\ \A k \in 1..(i - 1) : blob[ProofFiles[k]] # None
  /\ blob' = [blob EXCEPT ![ProofFiles[i]] = Files(prove)[ProofFiles[i]]]
  /\ UNCHANGED <<vars, cpc, proved, asked>>

SendVerify ==
  /\ cpc = "reading" /\ \A f \in Proof : blob[f] # None
  /\ Sends(verify)
  /\ cpc' = "verifying"
  /\ UNCHANGED <<proved, blob>>

\* The digests verify reports are those of the GC proof it was given; what it
\* reports of inputs it could not read can be anything.  Its verdict on the proof
\* is not modelled: the client prints `valid` and does not look at it, so that a
\* proof that was found not valid is accepted when the digests match.
DigestsMatch(v) == procs[v].sound => blob["gc_proof"] = proved

TakeVerifyResult ==
  /\ cpc = "verifying"
  /\ \E a \in Awaited(verify) :
       \/ cpc' = "accepted" /\ DigestsMatch(a.out)
       \/ cpc' = "ended" /\ (procs[a.out].sound => ~DigestsMatch(a.out))
  /\ UNCHANGED <<vars, proved, blob, asked>>

Client ==
  \/ SendProve
  \/ TakeProveResult
  \/ \E i \in 1..Len(ProofFiles) : ReadProofFile(i)
  \/ SendVerify
  \/ TakeVerifyResult

\* Another client sends its job.
OtherClient ==
  /\ \E r \in Requests \ {prove, verify} : Sends(r)
  /\ UNCHANGED <<cpc, proved, blob>>

ClientNext ==
  \/ Client
  \/ OtherClient
  \/ (Worker \/ Dispatcher \/ Crash) /\ UNCHANGED client

ClientSpec == ClientInit /\ [][ClientNext]_cvars

-----------------------------------------------------------------------------
(* Properties *)

\* The client's variables, and those of the dispatcher and its workers, keep
\* their kinds of values.
ClientTypeOK ==
  /\ TypeOK
  /\ cpc \in {"prove", "proving", "reading", "verifying", "accepted", "ended"}
  /\ proved \in Runs \cup {None}
  /\ blob \in [Proof -> Runs \cup {None}]
  /\ asked \subseteq Requests

\* The result says where the files of the proof are, and the client reads them
\* later (garbled_client.rs:74).  As long as the dispatcher is not lost they are
\* files of the run whose result it was given, and no run of the job is left
\* that could write them again.  After a restart an orphan may.
ProofIsFinal ==
  crashes = 0 /\ proved # None =>
    /\ \A f \in Proof : blob[f] \in {None, proved}
    /\ \A n \in Runs :
         procs[n] # None /\ procs[n].req = prove => procs[n].st \in {"ok", "failed"}

=============================================================================
