------------------------- MODULE BackupOrchestrator -------------------------
(***************************************************************************)
(* The API handler `backup` of src/src/api2/cloud/backup.rs (lines        *)
(* 127-197) serving several requests at once.  The handler checks the      *)
(* caller's permission and loads the configuration.  It then takes the    *)
(* drive lock (lock_tape_device, no waiting) and spawns the worker thread *)
(* (WorkerTask::new_thread), which owns the lock guard.  The worker sets  *)
(* the drive's state marker, runs backup_worker, notifies, and clears the *)
(* marker; the lock is released when the closure returns.                 *)
(* backup_worker is abstracted to its outcome; TapeBackupJob models it.   *)
(***************************************************************************)
EXTENDS FiniteSets

CONSTANTS
  Requests,   \* concurrent calls of the backup API (model values)
  Drives,     \* tape drives (model values)
  DriveOf,    \* [Requests -> Drives]: setup.drive of each request
  NoRequest,  \* no lock holder / an empty drive state marker
  Privs       \* [Requests -> SUBSET Privileges]: what the caller's ACL grants

\* The privileges check_backup_permission asks for: Datastore.Read on the
\* store, Tape.Write on the drive and Tape.Write on the pool.
Privileges == {"datastore-read", "drive-write", "pool-write"}

ASSUME /\ DriveOf \in [Requests -> Drives] /\ NoRequest \notin Requests
       /\ Privs \in [Requests -> SUBSET Privileges]

VARIABLES
  hpc,        \* handler of each request: its step, then "ok" or "error"
  wpc,        \* worker thread of each request: "none" until spawned
  holder,     \* [Drives -> Requests \cup {NoRequest}]: the drive lock
  devState,   \* [Drives -> Requests \cup {NoRequest}]: set_tape_device_state
  email,      \* the notify user's email was found (lookup_user_email)
  jobResult,  \* job_result returned by backup_worker
  notified    \* send_tape_backup_status was attempted

vars == <<hpc, wpc, holder, devState, email, jobResult, notified>>

Active == {"setState", "work", "notify", "reset"}

Init ==
  /\ hpc = [r \in Requests |-> "auth"]
  /\ wpc = [r \in Requests |-> "none"]
  /\ holder = [d \in Drives |-> NoRequest]
  /\ devState = [d \in Drives |-> NoRequest]
  /\ email = [r \in Requests |-> FALSE]
  /\ jobResult = [r \in Requests |-> "none"]
  /\ notified = [r \in Requests |-> FALSE]

\* check_backup_permission: the three check_privs calls, each with `?`.
HasBackupPrivs(r) == Privileges \subseteq Privs[r]

\* A failure (or CachedUserInfo::new failing) returns an error before
\* anything else.
CheckPermission(r) ==
  /\ hpc[r] = "auth"
  /\ hpc' \in IF HasBackupPrivs(r)
              THEN {[hpc EXCEPT ![r] = "config"], [hpc EXCEPT ![r] = "error"]}
              ELSE {[hpc EXCEPT ![r] = "error"]}
  /\ UNCHANGED <<wpc, holder, devState, email, jobResult, notified>>

\* lookup_datastore and the media pool and drive configuration: each `?`.
LoadConfig(r) ==
  /\ hpc[r] = "config"
  /\ hpc' \in {[hpc EXCEPT ![r] = "lock"], [hpc EXCEPT ![r] = "error"]}
  /\ UNCHANGED <<wpc, holder, devState, email, jobResult, notified>>

\* Fault model: the lock is taken whether or not it is held.
LockDriveNoCheck(r) ==
  /\ hpc[r] = "lock"
  /\ holder' = [holder EXCEPT ![DriveOf[r]] = r]
  /\ hpc' = [hpc EXCEPT ![r] = "spawn"]
  /\ \E e \in BOOLEAN : email' = [email EXCEPT ![r] = e]
  /\ UNCHANGED <<wpc, devState, jobResult, notified>>

\* lock_tape_device fails at once if the drive is locked; then the notify
\* user's email is looked up.
LockDrive(r) ==
  /\ hpc[r] = "lock"
  /\ \/ /\ holder[DriveOf[r]] = NoRequest
        /\ holder' = [holder EXCEPT ![DriveOf[r]] = r]
        /\ hpc' = [hpc EXCEPT ![r] = "spawn"]
        /\ \E e \in BOOLEAN : email' = [email EXCEPT ![r] = e]
     \/ /\ holder[DriveOf[r]] # NoRequest
        /\ hpc' = [hpc EXCEPT ![r] = "error"]
        /\ UNCHANGED <<holder, email>>
  /\ UNCHANGED <<wpc, devState, jobResult, notified>>

\* Fault models: the handler keeps the guard, so it is dropped when the
\* handler returns; a failed spawn leaks the guard.
SpawnDropsLock(r) ==
  /\ hpc[r] = "spawn"
  /\ hpc' = [hpc EXCEPT ![r] = "ok"]
  /\ wpc' = [wpc EXCEPT ![r] = "setState"]
  /\ holder' = [holder EXCEPT ![DriveOf[r]] = NoRequest]
  /\ UNCHANGED <<devState, email, jobResult, notified>>

SpawnFailKeepsLock(r) ==
  /\ hpc[r] = "spawn"
  /\ \/ /\ hpc' = [hpc EXCEPT ![r] = "ok"]
        /\ wpc' = [wpc EXCEPT ![r] = "setState"]
     \/ /\ hpc' = [hpc EXCEPT ![r] = "error"]
        /\ UNCHANGED wpc
  /\ UNCHANGED <<holder, devState, email, jobResult, notified>>

\* WorkerTask::new_thread moves the closure, and with it the lock guard,
\* into the worker thread and the handler returns Ok(upid); if it fails the
\* closure is dropped, which releases the lock, and the handler errors.
Spawn(r) ==
  /\ hpc[r] = "spawn"
  /\ \/ /\ hpc' = [hpc EXCEPT ![r] = "ok"]
        /\ wpc' = [wpc EXCEPT ![r] = "setState"]
        /\ UNCHANGED holder
     \/ /\ hpc' = [hpc EXCEPT ![r] = "error"]
        /\ holder' = [holder EXCEPT ![DriveOf[r]] = NoRequest]
        /\ UNCHANGED wpc
  /\ UNCHANGED <<devState, email, jobResult, notified>>

\* Fault model: the early return on an error leaks the guard.
SetDeviceStateFailKeepsLock(r) ==
  /\ wpc[r] = "setState"
  /\ \/ /\ devState' = [devState EXCEPT ![DriveOf[r]] = r]
        /\ wpc' = [wpc EXCEPT ![r] = "work"]
     \/ /\ wpc' = [wpc EXCEPT ![r] = "exit"]
        /\ UNCHANGED devState
  /\ UNCHANGED <<hpc, holder, email, jobResult, notified>>

\* set_tape_device_state(drive, upid)?: on an error the closure returns at
\* once, dropping the guard; no job runs and no notification is sent.
SetDeviceState(r) ==
  /\ wpc[r] = "setState"
  /\ \/ /\ devState' = [devState EXCEPT ![DriveOf[r]] = r]
        /\ wpc' = [wpc EXCEPT ![r] = "work"]
        /\ UNCHANGED holder
     \/ /\ wpc' = [wpc EXCEPT ![r] = "exit"]
        /\ holder' = [holder EXCEPT ![DriveOf[r]] = NoRequest]
        /\ UNCHANGED devState
  /\ UNCHANGED <<hpc, email, jobResult, notified>>

\* backup_worker, abstracted to the job_result it returns.
RunJob(r) ==
  /\ wpc[r] = "work"
  /\ \E res \in {"ok", "failed"} : jobResult' = [jobResult EXCEPT ![r] = res]
  /\ wpc' = [wpc EXCEPT ![r] = "notify"]
  /\ UNCHANGED <<hpc, holder, devState, email, notified>>

\* With an email, send_tape_backup_status is attempted; its error is logged.
Notify(r) ==
  /\ wpc[r] = "notify"
  /\ notified' = [notified EXCEPT ![r] = email[r]]
  /\ wpc' = [wpc EXCEPT ![r] = "reset"]
  /\ UNCHANGED <<hpc, holder, devState, email, jobResult>>

\* Fault model: the reset leaves a marker that names no request.
ResetDeviceStateEmptyName(r) ==
  /\ wpc[r] = "reset"
  /\ devState' \in {[devState EXCEPT ![DriveOf[r]] = ""], devState}
  /\ wpc' = [wpc EXCEPT ![r] = "exit"]
  /\ holder' = [holder EXCEPT ![DriveOf[r]] = NoRequest]
  /\ UNCHANGED <<hpc, email, jobResult, notified>>

\* `let _ = set_tape_device_state(drive, "")`: a failed write is ignored;
\* the closure returns job_result and the guard is dropped.
ResetDeviceState(r) ==
  /\ wpc[r] = "reset"
  /\ devState' \in {[devState EXCEPT ![DriveOf[r]] = NoRequest], devState}
  /\ wpc' = [wpc EXCEPT ![r] = "exit"]
  /\ holder' = [holder EXCEPT ![DriveOf[r]] = NoRequest]
  /\ UNCHANGED <<hpc, email, jobResult, notified>>

Handler(r) == CheckPermission(r) \/ LoadConfig(r) \/ LockDrive(r) \/ Spawn(r)

Worker(r) == SetDeviceState(r) \/ RunJob(r) \/ Notify(r) \/ ResetDeviceState(r)

\* Every request has been answered and every worker has returned.
AllServed ==
  /\ \A r \in Requests : hpc[r] \in {"ok", "error"} /\ wpc[r] \in {"none", "exit"}
  /\ UNCHANGED vars

Next == \/ \E r \in Requests : Handler(r) \/ Worker(r)
        \/ AllServed

\* Each handler call and each worker runs on its own thread.
Spec == /\ Init /\ [][Next]_vars
        /\ \A r \in Requests : WF_vars(Handler(r)) /\ WF_vars(Worker(r))

-----------------------------------------------------------------------------
TypeOK ==
  /\ hpc \in [Requests -> {"auth", "config", "lock", "spawn", "ok", "error"}]
  /\ wpc \in [Requests -> {"none", "exit"} \cup Active]
  /\ holder \in [Drives -> Requests \cup {NoRequest}]
  /\ devState \in [Drives -> Requests \cup {NoRequest}]
  /\ email \in [Requests -> BOOLEAN] /\ notified \in [Requests -> BOOLEAN]
  /\ jobResult \in [Requests -> {"none", "ok", "failed"}]

(* The drive lock makes a drive exclusive to one job: every running worker *)
(* holds the lock of its drive (so no two run on one drive), because the  *)
(* guard taken by lock_tape_device lives in the worker closure.           *)
DriveExclusive ==
  \A r \in Requests : wpc[r] \in Active => holder[DriveOf[r]] = r

(* While backup_worker runs and notifies, the drive's state marker names *)
(* that job: no other request can overwrite it between the worker's      *)
(* set_tape_device_state and its reset.                                  *)
DriveStateNamesRunningJob ==
  \A r \in Requests : wpc[r] \in {"work", "notify"} => devState[DriveOf[r]] = r

(* A request answered with an error (permission, configuration, busy     *)
(* drive, failed spawn) had no effect: no worker, no lock, no marker.    *)
ErrorHasNoEffect ==
  \A r \in Requests :
    hpc[r] = "error" => /\ wpc[r] = "none"
                        /\ \A d \in Drives : holder[d] # r /\ devState[d] # r

(* Every drive lock that is taken is released again, on every exit path *)
(* of the handler and the worker closure.                                *)
LocksReleased == \A d \in Drives : holder[d] # NoRequest ~> holder[d] = NoRequest

-----------------------------------------------------------------------------
(* spec.md 4.1: the notification is attempted whatever the outcome; the  *)
(* `?` on set_tape_device_state returns before it.                       *)
NotifyEveryOutcome ==
  \A r \in Requests : wpc[r] = "exit" /\ email[r] => notified[r]

(* spec.md 4.1: the drive-state marker is cleared on every exit path; the *)
(* reset's error is ignored, so a marker can outlive its job's lock.      *)
MarkerOnlyWhileLocked ==
  \A d \in Drives : devState[d] # NoRequest => holder[d] = devState[d]
=============================================================================
