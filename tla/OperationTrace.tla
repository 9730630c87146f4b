--------------------------- MODULE OperationTrace ---------------------------
(***************************************************************************)
(* What internal/diagnostics keeps of an operation: the trace the recorder *)
(* has in memory, latest-operation.json of every session, and the files in *)
(* the directories of failure artefacts.  The files have no lock and are   *)
(* not replaced but truncated and written again.                           *)
(*                                                                         *)
(* A file is described by the process whose trace it holds, since a trace  *)
(* does not change once it is complete.  The file system may refuse any    *)
(* of the writes, before the truncation or after it: the command reports   *)
(* that and goes on, and what the file holds then is modelled.  Left out:  *)
(* times, metadata other than the session, the snapshots of the cluster,   *)
(* and trace.txt (another rendering of trace.json).                        *)
(***************************************************************************)
EXTENDS SessionDatabase

VARIABLES
  trace,    \* the recorder of every operation
  latest,   \* latest-operation.json of every session
  writers,  \* history: the operations that have had it open since it was last truncated
  artefact  \* the failure artefacts in every directory, by operation

traceVars == <<trace, latest, writers, artefact>>

\* The steps that can fail; those that talk to the cluster are two.
TraceSteps ==
  {"ensure_runtime", "preflight_configuration", "forgejo_import", "provision",
   "prepare_agent_state", "attach_agent"}
TraceStatuses == {"running", "succeeded", "failed"}

\* failed: the step that failed; finished: Complete was called.
Trace == [status : TraceStatuses, failed : TraceSteps \union {None}, finished : BOOLEAN]

\* A file that was truncated, one that holds a part of what was to be written, and one
\* that two processes wrote over each other.
Empty == "empty"
Partial == "partial"
Mixed == "mixed"

ASSUME ContentAssumption ==
  /\ {Empty, Partial, Mixed} \intersect (Operations \union {None}) = {}
  /\ None \notin TraceSteps

\* artefactDirectory: one for every session, and None for pending/<repo>/start.
Directories == Starts \union {None}
\* Nobody reads an artefact back: one that was refused, and may be cut, counts as not
\* written.
Artefacts ==
  [failure : Operations \union {None}, trace : Operations \union {None}, summary : Statuses]
NoArtefacts == [failure |-> None, trace |-> None, summary |-> "none"]

TraceTypeOK ==
  /\ trace \in [Operations -> Trace]
  /\ latest \in [Starts -> Operations \union {None, Empty, Partial, Mixed}]
  /\ writers \in [Starts -> SUBSET Operations]
  /\ artefact \in [Directories -> [{"start", "attach"} -> Artefacts]]

TraceInit ==
  /\ trace = [p \in Operations |-> [status |-> "running", failed |-> None, finished |-> FALSE]]
  /\ latest = [s \in Starts |-> None]
  /\ writers = [s \in Starts |-> {}]
  /\ artefact = [d \in Directories |-> [operation \in {"start", "attach"} |-> NoArtefacts]]

Name(p) == IF p \in Starts THEN "start" ELSE "attach"

-----------------------------------------------------------------------------
\* Mutant: the status of the operation is left to Complete.
StepFailsAlone(p, step) == trace' = [trace EXCEPT ![p].failed = step]

\* RunStep, when the step fails; a step that succeeds leaves the operation running.
StepFails(p, step) ==
  trace' = [trace EXCEPT ![p].status = "failed", ![p].failed = step]

\* Complete: an operation without a failed step has succeeded.
Complete(p) ==
  trace' = [trace EXCEPT ![p].finished = TRUE,
                         ![p].status = IF @ = "failed" THEN "failed" ELSE "succeeded"]

\* Mutant: the file is opened without O_TRUNC.
SaveKeepsOld(s, writing) ==
  /\ writers' = [writers EXCEPT ![s] = writing]
  /\ UNCHANGED latest

\* os.WriteFile: the file is truncated, or created, before anything is written.
\* writing: the operations that have it open then.
SaveTruncates(s, writing) ==
  /\ latest' = [latest EXCEPT ![s] = Empty]
  /\ writers' = [writers EXCEPT ![s] = writing]

\* A file that another process has written since the truncation is overwritten
\* from its start, and keeps the end of what was there if that was longer.
SaveWrites(p, s) ==
  /\ \/ latest' = [latest EXCEPT ![s] = p]
     \/ latest[s] # Empty /\ latest' = [latest EXCEPT ![s] = Mixed]
  /\ UNCHANGED writers

\* The write is refused after nothing or a part of it.
SaveFails(s) ==
  /\ \/ UNCHANGED latest
     \/ latest' = [latest EXCEPT ![s] = IF @ = Empty THEN Partial ELSE Mixed]
  /\ UNCHANGED writers

\* Mutant: the error of the parser is dropped.
LoadsAnything(s) == TRUE

\* LoadLatestOperation, json.Unmarshal.
Loads(s) == latest[s] \notin {Empty, Partial, Mixed}

\* The files of Collect.
CollectFailure(p, d) == artefact' = [artefact EXCEPT ![d][Name(p)].failure = p]
CollectTrace(p, d) == artefact' = [artefact EXCEPT ![d][Name(p)].trace = p]
CollectSummary(p, d, status) == artefact' = [artefact EXCEPT ![d][Name(p)].summary = status]

=============================================================================
