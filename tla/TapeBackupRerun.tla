-------------------------- MODULE TapeBackupRerun --------------------------
(***************************************************************************)
(* Runs of one tape backup job one after another on the same media pool.  *)
(* Each run is the backup_worker of TapeBackupJob.  Between runs only two *)
(* things survive:                                                        *)
(*   - what the media hold: records written stay on tape whether the run  *)
(*     that wrote them committed or not;                                  *)
(*   - what pool_writer.commit() persisted (spec.md 3 and 4.3): the       *)
(*     media-set catalog that contains_snapshot consults and the status   *)
(*     of the media.                                                      *)
(* A run ends with Ok, with an error (any `?` of backup_worker), when it  *)
(* is aborted, or because the host goes down; the job is then started    *)
(* again, which is how spec.md 4.3 expects a partial failure to be        *)
(* repaired.  TapeBackupService starts each run from a backup request.    *)
(***************************************************************************)
EXTENDS TapeBackupJob

CONSTANT MaxRuns   \* runs of the job the model lets happen

ASSUME MaxRuns \in Nat \ {0}

VARIABLES
  runs,     \* runs of the job started so far
  durable   \* [index, status]: the pool state the last commit() persisted

rerunVars == <<runs, durable>>
allVars   == <<vars, rerunVars>>

\* pool_writer.commit() persists the media-set catalog and the media status.
CommitPersist ==
  /\ Commit
  /\ durable' = [index |-> index, status |-> status]
  /\ UNCHANGED runs

RJobStep ==
  \/ CommitPersist
  \/ pc # "commit" /\ JobStep /\ UNCHANGED rerunVars

\* The host goes down while the job runs: the worker and its reader thread
\* stop where they are; nothing more is persisted.
Crash ==
  /\ pc # "done"
  /\ pc' = "done"
  /\ result' = "crashed"
  /\ rstate' = "idle"
  /\ UNCHANGED <<setup, groupList, gi, snapList, snapNo, cur, errors, needCatalog,
                 summary, progress, ignored, abortReq, writer, chan, rnext,
                 rerunVars>>

(***************************************************************************)
(* The job is started again once the last run has ended, by a backup call  *)
(* with the same setup and without force-media-set (its default,           *)
(* backup.rs 107-111).  backup_worker builds a new MediaPool and PoolWriter *)
(* from the persisted state; nothing of the old worker is kept.             *)
(***************************************************************************)
Rerun ==
  /\ pc = "done"
  /\ runs < MaxRuns
  /\ runs' = runs + 1
  /\ forceMediaSet' = FALSE
  /\ prior' = durable.index
  /\ status' = durable.status
  /\ pc' = "online"
  /\ groupList' = <<>>
  /\ gi' = 1
  /\ snapList' = <<>>
  /\ snapNo' = 0
  /\ cur' = NoSnap
  /\ errors' = FALSE
  /\ needCatalog' = FALSE
  /\ summary' = <<>>
  /\ progress' = [doneGroups |-> 0, doneSnaps |-> 0, groupSnaps |-> 0, total |-> 0]
  /\ result' = "running"
  /\ ignored' = {}
  /\ abortReq' = FALSE
  /\ loaded' = NoMedium
  /\ uuid' = NoMedium
  /\ index' = {}
  /\ usedMedia' = <<>>
  /\ committed' = FALSE
  /\ chan' = <<>>
  /\ rstate' = "idle"
  /\ rnext' = 1
  /\ UNCHANGED <<latestOnly, content, durable>>

-----------------------------------------------------------------------------
\* Every record on the media, whichever run wrote it.
OnTape == UNION {ToSet(content[m]) : m \in Media}

\* Records a step appends to the media.
Appended == UNION {ToSet(SubSeq(content'[m], Len(content[m]) + 1, Len(content'[m])))
                   : m \in Media}

(* The persisted catalog never lies: every snapshot it lists, which every   *)
(* later run skips through contains_snapshot, has its snapshot archive and  *)
(* all of its chunks on the media, whatever runs failed, were aborted or    *)
(* crashed before.  A snapshot that entered the catalog half written would  *)
(* never be repaired by a re-run.                                           *)
CommittedIsOnTape ==
  \A s \in durable.index :
    /\ SnapRec(s) \in OnTape
    /\ \A i \in 1..NumChunks : ChunkRec(s, i) \in OnTape

(* A re-run does not write again what an earlier run committed: no step of *)
(* a run without force-media-set appends the archive of a snapshot in the  *)
(* persisted catalog (spec.md 8, Idempotence).                              *)
NoRewriteOfCommitted ==
  [][~forceMediaSet => \A s \in durable.index : SnapRec(s) \notin Appended]_allVars
=============================================================================
