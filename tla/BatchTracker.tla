---------------------------- MODULE BatchTracker ----------------------------
(***************************************************************************)
(* track(jobCode, declencheur, handler): the row of lic_batch_executions   *)
(* around a run of a job.  No transaction holds its statements together:   *)
(* the INSERT, the two UPDATEs of a success and the UPDATE of a failure    *)
(* are steps of their own, and the process may die between any two.        *)
(*                                                                         *)
(* The handler is whatever the module that instantiates this one does      *)
(* while the run's stage is "handler"; each runs in a process of its own.  *)
(***************************************************************************)
EXTENDS Naturals

CONSTANTS
  Job,      \* job codes, keys of lic_batch_jobs
  Run,      \* calls of track
  JobOf,    \* the job each call is for, in [Run -> Job]
  Null,     \* NULL, and no row
  MaxFault  \* bound: statements that fail and processes that die

VARIABLES
  executions,    \* status of each run's lic_batch_executions row
  lastExecution, \* last_execution_id of each lic_batch_jobs row
  stage,         \* how far each call of track is
  faults         \* how many statements have failed or processes died

tvars == <<executions, lastExecution, stage, faults>>

Stage == {"idle", "handler", "returned", "linking", "threw", "over", "lost"}

TrackerTypeOK ==
  /\ executions \in [Run -> {Null, "RUNNING", "SUCCESS", "FAILED"}]
  /\ lastExecution \in [Job -> Run \cup {Null}]
  /\ stage \in [Run -> Stage]
  /\ faults \in 0..MaxFault

TrackerInit ==
  /\ executions = [r \in Run |-> Null]
  /\ lastExecution = [j \in Job |-> Null]
  /\ stage = [r \in Run |-> "idle"]
  /\ faults = 0

Reach(r, s) == stage' = [stage EXCEPT ![r] = s]

Fault == faults < MaxFault /\ faults' = faults + 1

Running(r) == stage[r] \notin {"idle", "over", "lost"}

-----------------------------------------------------------------------------
BeginTrack(r) ==
  /\ stage[r] = "idle"
  /\ executions' = [executions EXCEPT ![r] = "RUNNING"]
  /\ Reach(r, "handler")
  /\ UNCHANGED <<lastExecution, faults>>

(* Mutant: the job's row is updated first and the execution's after it.    *)
LinkFirst(r) ==
  /\ stage[r] = "returned"
  /\ lastExecution' = [lastExecution EXCEPT ![JobOf[r]] = r]
  /\ Reach(r, "linking")
  /\ UNCHANGED <<executions, faults>>

MarkSuccess(r) ==
  /\ stage[r] = "returned"
  /\ executions' = [executions EXCEPT ![r] = "SUCCESS"]
  /\ Reach(r, "linking")
  /\ UNCHANGED <<lastExecution, faults>>

SetLastExecution(r) ==
  /\ stage[r] = "linking"
  /\ lastExecution' = [lastExecution EXCEPT ![JobOf[r]] = r]
  /\ Reach(r, "over")
  /\ UNCHANGED <<executions, faults>>

(* Mutant: the row is closed the same way whatever the handler did.        *)
MarkDone(r) ==
  /\ stage[r] = "threw"
  /\ executions' = [executions EXCEPT ![r] = "SUCCESS"]
  /\ Reach(r, "over")
  /\ UNCHANGED <<lastExecution, faults>>

(* Mutant: the failure is logged and the row is left as it is.             *)
OnlyLogged(r) ==
  /\ stage[r] = "threw"
  /\ Reach(r, "over")
  /\ UNCHANGED <<executions, lastExecution, faults>>

(* The catch clause: it answers for the handler and for the two UPDATEs.   *)
MarkFailed(r) ==
  /\ stage[r] = "threw"
  /\ executions' = [executions EXCEPT ![r] = "FAILED"]
  /\ Reach(r, "over")
  /\ UNCHANGED <<lastExecution, faults>>

(* A statement inside the try block fails; the catch clause takes over.    *)
StatementFails(r) ==
  /\ stage[r] \in {"handler", "returned", "linking"}
  /\ Fault
  /\ Reach(r, "threw")
  /\ UNCHANGED <<executions, lastExecution>>

(* The process dies, or the catch clause's own UPDATE fails and track      *)
(* rejects: nobody comes back to the row.                                  *)
Abandon(r) ==
  /\ Running(r)
  /\ Fault
  /\ Reach(r, "lost")
  /\ UNCHANGED <<executions, lastExecution>>

Track(r) ==
  MarkSuccess(r) \/ SetLastExecution(r) \/ MarkFailed(r)

TrackFault(r) == StatementFails(r) \/ Abandon(r)

-----------------------------------------------------------------------------
(* The execution a job shows as its last is one that succeeded: a run that *)
(* failed, or one that is still running, is never linked to the job.       *)
LastExecutionSucceeded ==
  \A j \in Job :
    lastExecution[j] # Null => executions[lastExecution[j]] = "SUCCESS"
=============================================================================
