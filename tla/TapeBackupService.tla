------------------------- MODULE TapeBackupService -------------------------
(***************************************************************************)
(* The backup API handler and the job it starts, composed: the requests   *)
(* of BackupOrchestrator (backup.rs 127-197) on one drive, whose worker   *)
(* closure calls backup_worker, here the job of TapeBackupRerun.  Each    *)
(* call of backup_worker is a new run from what the last commit()         *)
(* persisted and what the media hold, so a request made after a failed,   *)
(* aborted or crashed run is the re-run spec.md 4.3 relies on.  The       *)
(* handler's lock_tape_device is what keeps two runs of the job apart.    *)
(*                                                                         *)
(* The process may crash while a job runs: every handler and worker thread *)
(* stops, the drive lock (a lock file held open by the guard) is released *)
(* with the process, and the drive-state marker written by                *)
(* set_tape_device_state survives or not (its store is not in this        *)
(* repository).                                                           *)
(***************************************************************************)
EXTENDS TapeBackupRerun

CONSTANTS
  Requests,   \* calls of the backup API for the job's drive (model values)
  Drive,      \* setup.drive of every request
  NoRequest,  \* no lock holder / an empty drive state marker
  Privs       \* [Requests -> SUBSET O!Privileges]: what each caller's ACL grants

VARIABLES hpc, wpc, holder, devState, email, jobResult, notified,
  jobOwner    \* the request whose worker is inside backup_worker, if any

O == INSTANCE BackupOrchestrator WITH Drives <- {Drive},
                                      DriveOf <- [r \in Requests |-> Drive]

ASSUME /\ NoRequest \notin Requests
       /\ MaxRuns >= Cardinality(Requests)

orchVars == <<hpc, wpc, holder, devState, email, jobResult, notified>>
svcVars  == <<allVars, orchVars, jobOwner>>

\* Before the first request no backup_worker runs; the pool holds what
\* earlier media sets left (InitialUse) and an empty catalog.
SInit ==
  /\ O!Init
  /\ jobOwner = NoRequest
  /\ runs = 0
  /\ durable = [index |-> {}, status |-> [m \in Media |-> "writable"]]
  /\ latestOnly \in BOOLEAN
  /\ forceMediaSet = FALSE /\ prior = {}
  /\ pc = "done" /\ result = "none"
  /\ groupList = <<>> /\ gi = 1 /\ snapList = <<>> /\ snapNo = 0 /\ cur = NoSnap
  /\ errors = FALSE /\ needCatalog = FALSE /\ summary = <<>> /\ ignored = {}
  /\ progress = [doneGroups |-> 0, doneSnaps |-> 0, groupSnaps |-> 0, total |-> 0]
  /\ abortReq = FALSE
  /\ loaded = NoMedium /\ uuid = NoMedium
  /\ status = [m \in Media |-> "writable"] /\ content = [m \in Media |-> <<>>]
  /\ index = {} /\ usedMedia = <<>> /\ committed = FALSE
  /\ chan = <<>> /\ rstate = "idle" /\ rnext = 1

\* check_backup_permission, the configuration lookups, lock_tape_device,
\* lookup_user_email and WorkerTask::new_thread.
Handler(r) == O!Handler(r) /\ UNCHANGED <<allVars, jobOwner>>

\* The worker closure calls backup_worker(.., force_media_set = false): a new
\* MediaPool and PoolWriter are built from the persisted pool state.
StartWorker(r) ==
  /\ wpc[r] = "work"
  /\ jobOwner = NoRequest
  /\ Rerun
  /\ jobOwner' = r
  /\ UNCHANGED orchVars

\* backup_worker has returned; its job_result is kept for the notification.
FinishWorker(r) ==
  /\ jobOwner = r
  /\ pc = "done"
  /\ O!RunJob(r)
  /\ jobResult'[r] = IF result = "ok" THEN "ok" ELSE "failed"
  /\ jobOwner' = NoRequest
  /\ UNCHANGED allVars

\* set_tape_device_state(upid)?, backup_worker, the notification and the
\* reset of the marker, in the worker thread of request r.
Worker(r) ==
  \/ O!SetDeviceState(r) /\ UNCHANGED <<allVars, jobOwner>>
  \/ StartWorker(r)
  \/ FinishWorker(r)
  \/ (O!Notify(r) \/ O!ResetDeviceState(r)) /\ UNCHANGED <<allVars, jobOwner>>

\* The process dies while a job runs.  Handlers still in progress answer
\* nothing (an error to their caller), workers stop, the lock goes with the
\* process; the marker file survives a restart of the daemon, not a reboot.
ProcessCrash ==
  /\ Crash
  /\ jobOwner' = NoRequest
  /\ hpc' = [r \in Requests |-> IF hpc[r] \in {"config", "lock", "spawn"}
                                THEN "error" ELSE hpc[r]]
  /\ wpc' = [r \in Requests |-> IF wpc[r] \in O!Active THEN "exit" ELSE wpc[r]]
  /\ holder' = [d \in {Drive} |-> NoRequest]
  /\ devState' \in {devState, [d \in {Drive} |-> NoRequest]}
  /\ UNCHANGED <<email, jobResult, notified>>

\* Every request answered, every worker returned, no job running.
AllServed ==
  /\ pc = "done" /\ jobOwner = NoRequest
  /\ \A r \in Requests : hpc[r] \in {"ok", "error"} /\ wpc[r] \in {"none", "exit"}
  /\ UNCHANGED svcVars

JobSteps == RJobStep /\ UNCHANGED <<orchVars, jobOwner>>

ReaderSteps == ReaderStep /\ UNCHANGED <<rerunVars, orchVars, jobOwner>>

SNext ==
  \/ \E r \in Requests : Handler(r) \/ Worker(r)
  \/ JobSteps
  \/ ReaderSteps
  \/ RequestAbort /\ UNCHANGED <<rerunVars, orchVars, jobOwner>>
  \/ ProcessCrash
  \/ AllServed

\* Each handler call, each worker, the job's worker loop and the chunk
\* reader run on threads of their own; a crash and an abort are not
\* promised to happen.
SSpec ==
  /\ SInit /\ [][SNext]_svcVars
  /\ WF_svcVars(JobSteps) /\ WF_svcVars(ReaderSteps)
  /\ \A r \in Requests : WF_svcVars(Handler(r)) /\ WF_svcVars(Worker(r))

-----------------------------------------------------------------------------
(* The media are written only by the job of the request that holds the    *)
(* drive lock and whose upid the drive-state marker shows: the guard moved *)
(* into the worker closure lives as long as backup_worker, so no other     *)
(* request's lock_tape_device, and no crash, lets a write happen outside   *)
(* it.                                                                     *)
WritesOnlyUnderLock ==
  [][Appended # {} => /\ jobOwner # NoRequest
                      /\ holder[Drive] = jobOwner
                      /\ devState[Drive] = jobOwner]_svcVars

(* A worker that enters backup_worker returns, and releases the drive lock, *)
(* whatever the job meets (LEOM, read errors, a panicked reader, an abort)  *)
(* and whatever the other requests do.                                      *)
WorkerReturns ==
  \A r \in Requests : wpc[r] = "work" ~> (wpc[r] = "exit" /\ holder[Drive] # r)
=============================================================================
