--------------------------- MODULE TapeBackupJob ---------------------------
(***************************************************************************)
(* The tape backup worker of src/src/api2/cloud/backup.rs: backup_worker   *)
(* (group/snapshot selection, the snapshot loop, commit, catalog, export)  *)
(* and backup_snapshot (open, chunk streaming with LEOM rotation, snapshot *)
(* archive with one retry on a fresh medium), together with the two        *)
(* collaborators it drives concurrently or statefully:                     *)
(*   - the chunk reader thread spawned by spawn_chunk_reader_thread, which *)
(*     feeds the worker through a bounded channel;                         *)
(*   - the PoolWriter (load_writable_media, append_*_archive,             *)
(*     set_media_status_full, contains_snapshot, commit), whose source is  *)
(*     not in this repository and is modelled from spec.md section 4.3.    *)
(* Data is abstracted: a snapshot is <<group, time>>, a chunk is its index *)
(* within the snapshot, a medium is a model value with Capacity units.     *)
(***************************************************************************)
EXTENDS Integers, Sequences, FiniteSets, SequencesExt, FiniteSetsExt

CONSTANTS
  Groups,        \* backup group ids found in the datastore (ordered)
  SnapTimes,     \* [Groups -> SUBSET Nat]: snapshot timestamps of each group
  Finished,      \* the snapshots <<g, t>> whose backup is finished
  FilterKeep,    \* the groups the job's group_filter lets through
  HasChanger,    \* the drive belongs to a changer (media_changer returns Some)
  PriorIndexes,  \* possible contents of the media set catalog before the job
  NumChunks,     \* chunks per snapshot
  Media,         \* the media of the pool (model values)
  Capacity,      \* units per medium; a chunk takes one unit
  InitialUse,    \* [Media -> Nat]: units written by earlier runs of the media set
  ArchiveSize,   \* units of a snapshot archive
  CatalogSize,   \* units of a catalog archive
  ChanCap,       \* capacity of the reader -> writer channel
  NoMedium, NoSnap,
  ReadError      \* the Err item a failing chunk read sends through the channel

Snapshots == UNION {{<<g, t>> : t \in SnapTimes[g]} : g \in Groups}

ASSUME /\ Groups \subseteq Nat /\ FilterKeep \subseteq Groups
       /\ Finished \subseteq Snapshots
       /\ \A P \in PriorIndexes : P \subseteq Snapshots
       /\ NumChunks \in Nat \ {0} /\ ChanCap \in Nat \ {0}
       /\ {Capacity, ArchiveSize, CatalogSize} \subseteq Nat \ {0}
       /\ \A m \in Media : InitialUse[m] \in 0..Capacity

VARIABLES
  \* job setup (TapeBackupJobSetup, force_media_set): fixed for the run
  latestOnly, forceMediaSet, prior,
  \* backup_worker / backup_snapshot locals
  pc, groupList, gi, snapList, snapNo, cur, errors, needCatalog,
  summary,   \* summary.snapshot_list
  progress,  \* StoreProgress
  result,    \* job_result: "running", "ok", "failed" or "aborted"
  ignored,   \* snapshots that vanished (SnapshotBackupResult::Ignored)
  abortReq,  \* the worker's abort flag, polled by check_abort
  \* PoolWriter
  loaded, uuid, status, content, index, usedMedia, committed,
  \* chunk reader thread and its channel
  chan, rstate, rnext

setup  == <<latestOnly, forceMediaSet, prior>>
job    == <<pc, groupList, gi, snapList, snapNo, cur, errors, needCatalog,
            summary, progress, result, ignored>>
writer == <<loaded, uuid, status, content, index, usedMedia, committed>>
reader == <<chan, rstate, rnext>>
vars   == <<setup, job, abortReq, writer, reader>>

ChunkRec(s, i) == [k |-> "chunk", s |-> s, i |-> i]
SnapRec(s)     == [k |-> "snapshot", s |-> s, i |-> 0]
CatalogRec     == [k |-> "catalog", s |-> NoSnap, i |-> 0]
Record == {ChunkRec(s, i) : s \in Snapshots, i \in 1..NumChunks}
            \cup {SnapRec(s) : s \in Snapshots} \cup {CatalogRec}

RecSize(r) == CASE r.k = "chunk"    -> 1
                [] r.k = "snapshot" -> ArchiveSize
                [] r.k = "catalog"  -> CatalogSize

Free(m) == Capacity - InitialUse[m] - FoldLeft(LAMBDA acc, r : acc + RecSize(r), 0, content[m])

\* Everything written in this session, medium after medium in load order.
Written == FlattenSeq([j \in 1..Len(usedMedia) |-> content[usedMedia[j]]])

FinishedTimes(g) == {t \in SnapTimes[g] : <<g, t>> \in Finished}

Fail(r) == /\ pc' = "done"
           /\ result' = r

(***************************************************************************)
(* PoolWriter::load_writable_media (spec.md 4.3): keep the loaded medium  *)
(* while it is Writable, otherwise load another Writable medium of the    *)
(* pool; with none left the call fails and so does the job.  `next` is    *)
(* where the worker continues; the caller keeps uuid as the medium id.    *)
(***************************************************************************)
CurrentWritable == loaded # NoMedium /\ status[loaded] = "writable"

\* Fault model: allocation that ignores the status and may pick a Full medium.
LoadWritableMediaAnyStatus(next) ==
  \/ /\ CurrentWritable
     /\ uuid' = loaded
     /\ pc' = next
     /\ UNCHANGED <<loaded, usedMedia, result>>
  \/ /\ ~CurrentWritable
     /\ \E m \in Media \ {loaded} :
          /\ loaded' = m
          /\ uuid' = m
          /\ usedMedia' = Append(usedMedia, m)
     /\ pc' = next
     /\ UNCHANGED result

LoadWritableMedia(next) ==
  \/ /\ CurrentWritable
     /\ uuid' = loaded
     /\ pc' = next
     /\ UNCHANGED <<loaded, usedMedia, result>>
  \/ /\ ~CurrentWritable
     /\ \E m \in Media :
          /\ status[m] = "writable"
          /\ loaded' = m
          /\ uuid' = m
          /\ usedMedia' = Append(usedMedia, m)
     /\ pc' = next
     /\ UNCHANGED result
  \/ /\ ~CurrentWritable
     /\ \A m \in Media : status[m] = "full"
     /\ Fail("failed")
     /\ UNCHANGED <<loaded, uuid, usedMedia>>

\* StoreProgress::percentage as a fraction <<num, den>>.
Percentage(p) ==
  IF p.groupSnaps = 0 THEN <<p.doneGroups, p.total>>
  ELSE <<p.doneGroups * p.groupSnaps + p.doneSnaps, p.total * p.groupSnaps>>

-----------------------------------------------------------------------------
Init ==
  /\ latestOnly \in BOOLEAN
  /\ forceMediaSet \in BOOLEAN
  /\ prior \in PriorIndexes
  /\ pc = "online"
  /\ groupList = <<>>
  /\ gi = 1
  /\ snapList = <<>>
  /\ snapNo = 0
  /\ cur = NoSnap
  /\ errors = FALSE
  /\ needCatalog = FALSE
  /\ summary = <<>>
  /\ progress = [doneGroups |-> 0, doneSnaps |-> 0, groupSnaps |-> 0, total |-> 0]
  /\ result = "running"
  /\ ignored = {}
  /\ abortReq = FALSE
  /\ loaded = NoMedium
  /\ uuid = NoMedium
  /\ status = [m \in Media |-> "writable"]
  /\ content = [m \in Media |-> <<>>]
  /\ index = {}
  /\ usedMedia = <<>>
  /\ committed = FALSE
  /\ chan = <<>>
  /\ rstate = "idle"
  /\ rnext = 1

\* update_media_online_status: only an error of the changer query, the
\* inventory load or the status update is propagated (`?`), which ends the job.
UpdateMediaOnlineStatus ==
  /\ pc = "online"
  /\ \/ pc' = "list" /\ UNCHANGED result
     \/ HasChanger /\ Fail("failed")
  /\ UNCHANGED <<setup, groupList, gi, snapList, snapNo, cur, errors,
                 needCatalog, summary, progress, ignored, abortReq, writer, reader>>

\* MediaPool::with_config and PoolWriter::new (a forced new media set has an
\* empty catalog), then the namespace walk, the sort by group and the filter;
\* an error of any of these calls (`?`) ends the job before anything is written.
ListGroups ==
  /\ pc = "list"
  /\ \/ /\ index' = IF forceMediaSet THEN {} ELSE prior
        /\ groupList' = SelectSeq(SetToSortSeq(Groups, <), LAMBDA g : g \in FilterKeep)
        /\ progress' = [progress EXCEPT !.total = Len(groupList')]
        /\ pc' = "group"
        /\ UNCHANGED result
     \/ Fail("failed") /\ UNCHANGED <<index, groupList, progress>>
  /\ UNCHANGED <<setup, gi, snapList, snapNo, cur, errors, needCatalog, summary,
                 ignored, abortReq, loaded, uuid, status, content,
                 usedMedia, committed, reader>>

\* The `for (group_number, group)` loop has run out of groups.
GroupsDone ==
  /\ pc = "group"
  /\ gi > Len(groupList)
  /\ pc' = "commit"
  /\ UNCHANGED <<setup, groupList, gi, snapList, snapNo, cur, errors, needCatalog,
                 summary, progress, result, ignored, abortReq, writer, reader>>

\* One group: progress reset, list_backups (its error ends the job), the
\* finished snapshots oldest first, an empty group skipped, and latest-only
\* reduced to the newest one (snapshot_list.pop()).
\* Fault models: latest-only keeps the oldest snapshot; the list is sorted
\* newest first; done_snapshots is not reset for the new group.
StartGroupLatestIsOldest ==
  /\ pc = "group"
  /\ gi <= Len(groupList)
  /\ LET g      == groupList[gi]
         sorted == SetToSortSeq(FinishedTimes(g), <)
         list   == IF latestOnly /\ sorted # <<>> THEN <<Head(sorted)>> ELSE sorted
     IN \/ sorted = <<>> /\ gi' = gi + 1 /\ UNCHANGED <<pc, snapList, snapNo, progress>>
        \/ /\ sorted # <<>>
           /\ snapList' = [j \in 1..Len(list) |-> <<g, list[j]>>]
           /\ snapNo' = 0
           /\ pc' = "snap"
           /\ UNCHANGED <<gi, progress>>
  /\ UNCHANGED <<setup, groupList, cur, errors, needCatalog, summary, ignored,
                 result, abortReq, writer, reader>>

StartGroupNewestFirst ==
  /\ pc = "group"
  /\ gi <= Len(groupList)
  /\ LET g    == groupList[gi]
         list == SetToSortSeq(FinishedTimes(g), >)
     IN \/ list = <<>> /\ gi' = gi + 1 /\ UNCHANGED <<pc, snapList, snapNo>>
        \/ /\ list # <<>>
           /\ snapList' = [j \in 1..Len(list) |-> <<g, list[j]>>]
           /\ snapNo' = 0
           /\ pc' = "snap"
           /\ UNCHANGED gi
  /\ UNCHANGED <<setup, groupList, cur, errors, needCatalog, summary, ignored,
                 progress, result, abortReq, writer, reader>>

StartGroupKeepsDoneSnaps ==
  /\ pc = "group"
  /\ gi <= Len(groupList)
  /\ LET g      == groupList[gi]
         sorted == SetToSortSeq(FinishedTimes(g), <)
         list   == IF latestOnly /\ sorted # <<>> THEN <<Last(sorted)>> ELSE sorted
     IN \/ /\ sorted = <<>>
           /\ gi' = gi + 1
           /\ progress' = [progress EXCEPT !.doneGroups = gi - 1, !.groupSnaps = 0]
           /\ UNCHANGED <<pc, snapList, snapNo>>
        \/ /\ sorted # <<>>
           /\ snapList' = [j \in 1..Len(list) |-> <<g, list[j]>>]
           /\ snapNo' = 0
           /\ progress' = [progress EXCEPT !.doneGroups = gi - 1,
                                           !.groupSnaps = Len(list)]
           /\ pc' = "snap"
           /\ UNCHANGED gi
  /\ UNCHANGED <<setup, groupList, cur, errors, needCatalog, summary, ignored,
                 result, abortReq, writer, reader>>

StartGroup ==
  /\ pc = "group"
  /\ gi <= Len(groupList)
  /\ LET g      == groupList[gi]
         sorted == SetToSortSeq(FinishedTimes(g), <)
         list   == IF latestOnly THEN <<Last(sorted)>> ELSE sorted
     IN \/ /\ sorted = <<>>
           /\ gi' = gi + 1
           /\ progress' = [progress EXCEPT !.doneGroups = gi - 1, !.doneSnaps = 0,
                                           !.groupSnaps = 0]
           /\ UNCHANGED <<pc, snapList, snapNo, result>>
        \/ /\ sorted # <<>>
           /\ snapList' = [j \in 1..Len(list) |-> <<g, list[j]>>]
           /\ snapNo' = 0
           /\ progress' = [progress EXCEPT !.doneGroups = gi - 1, !.doneSnaps = 0,
                                           !.groupSnaps = Len(list)]
           /\ pc' = "snap"
           /\ UNCHANGED <<gi, result>>
        \/ /\ Fail("failed")
           /\ UNCHANGED <<gi, snapList, snapNo, progress>>
  /\ UNCHANGED <<setup, groupList, cur, errors, needCatalog, summary, ignored,
                 abortReq, writer, reader>>

\* Next snapshot of the group: one already in the media set catalog
\* (contains_snapshot) is skipped without a progress update; otherwise the
\* job now needs a catalog and backs the snapshot up.
\* Fault model: contains_snapshot is not consulted.
NextSnapshotNoSkip ==
  /\ pc = "snap"
  /\ \/ snapList = <<>> /\ pc' = "group" /\ gi' = gi + 1
        /\ UNCHANGED <<snapList, snapNo, cur, needCatalog>>
     \/ /\ snapList # <<>>
        /\ needCatalog' = TRUE
        /\ cur' = Head(snapList)
        /\ snapList' = Tail(snapList)
        /\ snapNo' = snapNo + 1
        /\ pc' = "open"
        /\ UNCHANGED gi
  /\ UNCHANGED <<setup, groupList, errors, summary, progress, result, ignored,
                 abortReq, writer, reader>>

NextSnapshot ==
  /\ pc = "snap"
  /\ \/ /\ snapList = <<>>
        /\ pc' = "group"
        /\ gi' = gi + 1
        /\ UNCHANGED <<snapList, snapNo, cur, needCatalog>>
     \/ /\ snapList # <<>>
        /\ Head(snapList) \in index
        /\ snapList' = Tail(snapList)
        /\ snapNo' = snapNo + 1
        /\ UNCHANGED <<pc, gi, cur, needCatalog>>
     \/ /\ snapList # <<>>
        /\ Head(snapList) \notin index
        /\ needCatalog' = TRUE
        /\ cur' = Head(snapList)
        /\ snapList' = Tail(snapList)
        /\ snapNo' = snapNo + 1
        /\ pc' = "open"
        /\ UNCHANGED gi
  /\ UNCHANGED <<setup, groupList, errors, summary, progress, result, ignored,
                 abortReq, writer, reader>>

\* The `match backup_snapshot(..)` on its result, then the progress line.
SnapshotResult(res) ==
  /\ summary' = IF res = "success" THEN Append(summary, cur) ELSE summary
  /\ errors' = (errors \/ res = "error")
  /\ progress' = [progress EXCEPT !.doneSnaps = snapNo]
  /\ pc' = "snap"

\* backup_snapshot: locked_reader; on error a vanished directory is Ignored
\* and any other failure an Error; on success the chunk reader thread starts.
OpenSnapshot ==
  /\ pc = "open"
  /\ \/ /\ chan' = <<>>
        /\ rstate' = "run"
        /\ rnext' = 1
        /\ pc' = "chunkCheck"
        /\ UNCHANGED <<summary, errors, progress, ignored>>
     \/ /\ ignored' = ignored \cup {cur}
        /\ SnapshotResult("ignored")
        /\ UNCHANGED reader
     \/ /\ SnapshotResult("error")
        /\ UNCHANGED <<ignored, reader>>
  /\ UNCHANGED <<setup, groupList, gi, snapList, snapNo, cur, needCatalog, result,
                 abortReq, writer>>

\* Top of the chunk loop: worker.check_abort().
ChunkCheck ==
  /\ pc = "chunkCheck"
  /\ \/ abortReq /\ Fail("aborted")
     \/ ~abortReq /\ pc' = "chunkPeek" /\ UNCHANGED result
  /\ UNCHANGED <<setup, groupList, gi, snapList, snapNo, cur, errors, needCatalog,
                 summary, progress, ignored, abortReq, writer, reader>>

\* chunk_iter.peek() blocks until the reader sent an item or hung up: the end
\* of the stream leaves the loop, an error ends the job, a chunk is followed
\* by load_writable_media.
\* Fault model: an Err item is taken for the end of the stream.
ChunkPeekErrorAsEnd ==
  /\ pc = "chunkPeek"
  /\ \/ /\ \/ chan = <<>> /\ rstate \in {"done", "panicked"}
           \/ chan # <<>> /\ Head(chan) = ReadError
        /\ pc' = "join"
        /\ UNCHANGED <<result, loaded, uuid, usedMedia>>
     \/ /\ chan # <<>>
        /\ Head(chan) # ReadError
        /\ LoadWritableMedia("chunkAppend")
  /\ UNCHANGED <<setup, groupList, gi, snapList, snapNo, cur, errors, needCatalog,
                 summary, progress, ignored, abortReq, status, content, index,
                 committed, reader>>

ChunkPeek ==
  /\ pc = "chunkPeek"
  /\ \/ /\ chan = <<>>
        /\ rstate \in {"done", "panicked"}
        /\ pc' = "join"
        /\ UNCHANGED <<result, loaded, uuid, usedMedia>>
     \/ /\ chan # <<>>
        /\ Head(chan) = ReadError
        /\ Fail("failed")
        /\ UNCHANGED <<loaded, uuid, usedMedia>>
     \/ /\ chan # <<>>
        /\ Head(chan) # ReadError
        /\ LoadWritableMedia("chunkAppend")
  /\ UNCHANGED <<setup, groupList, gi, snapList, snapNo, cur, errors, needCatalog,
                 summary, progress, ignored, abortReq, status, content, index,
                 committed, reader>>

(***************************************************************************)
(* worker.check_abort() and PoolWriter::append_chunk_archive: the writer  *)
(* takes chunks from the stream until it is drained, the chunk archive is *)
(* closed at its size limit (any n), or the medium reaches LEOM, and       *)
(* returns leom; on leom the loop marks the medium Full.                   *)
(***************************************************************************)
OkPrefix == LET errAt == {j \in 1..Len(chan) : chan[j] = ReadError}
            IN IF errAt = {} THEN Len(chan) ELSE Min(errAt) - 1

\* Fault model: the chunk during which LEOM was hit stays in the stream and
\* is written again on the next medium.
AppendChunkArchiveRewritesAtLeom(n) ==
  /\ content' = [content EXCEPT ![uuid] = @ \o [j \in 1..n |-> ChunkRec(cur, chan[j])]]
  /\ chan' = SubSeq(chan, IF n > 0 /\ Free(uuid) = n THEN n ELSE n + 1, Len(chan))

AppendChunkArchive(n) ==
  /\ content' = [content EXCEPT ![uuid] = @ \o [j \in 1..n |-> ChunkRec(cur, chan[j])]]
  /\ chan' = SubSeq(chan, n + 1, Len(chan))

\* Fault model: LEOM does not mark the medium Full.
ChunkAppendNoFull ==
  /\ pc = "chunkAppend"
  /\ \/ abortReq /\ Fail("aborted") /\ UNCHANGED <<content, chan>>
     \/ /\ ~abortReq
        /\ \E n \in IF Free(uuid) = 0 THEN {0} ELSE 1..Min({OkPrefix, Free(uuid)}) :
             AppendChunkArchive(n)
        /\ pc' = "chunkCheck"
        /\ UNCHANGED result
  /\ UNCHANGED <<setup, groupList, gi, snapList, snapNo, cur, errors, needCatalog,
                 summary, progress, ignored, abortReq, loaded, uuid, index, status,
                 usedMedia, committed, rstate, rnext>>

ChunkAppend ==
  /\ pc = "chunkAppend"
  /\ \/ /\ abortReq
        /\ Fail("aborted")
        /\ UNCHANGED <<status, content, chan>>
     \/ /\ ~abortReq
        /\ \E n \in IF Free(uuid) = 0 THEN {0} ELSE 1..Min({OkPrefix, Free(uuid)}) :
             /\ AppendChunkArchive(n)
             /\ status' = IF Free(uuid) - n = 0
                          THEN [status EXCEPT ![uuid] = "full"] ELSE status
        /\ pc' = "chunkCheck"
        /\ UNCHANGED result
  /\ UNCHANGED <<setup, groupList, gi, snapList, snapNo, cur, errors, needCatalog,
                 summary, progress, ignored, abortReq, loaded, uuid, index,
                 usedMedia, committed, rstate, rnext>>

\* reader_thread.join(): a panicked reader thread ends the job.
JoinReader ==
  /\ pc = "join"
  /\ \/ rstate = "panicked" /\ Fail("failed")
     \/ rstate = "done" /\ pc' = "snapLoad" /\ UNCHANGED result
  /\ UNCHANGED <<setup, groupList, gi, snapList, snapNo, cur, errors, needCatalog,
                 summary, progress, ignored, abortReq, writer, reader>>

\* check_abort, then load_writable_media for the snapshot archive.
SnapLoad ==
  /\ pc = "snapLoad"
  /\ \/ abortReq /\ Fail("aborted") /\ UNCHANGED <<loaded, uuid, usedMedia>>
     \/ ~abortReq /\ LoadWritableMedia("snapAppend")
  /\ UNCHANGED <<setup, groupList, gi, snapList, snapNo, cur, errors, needCatalog,
                 summary, progress, ignored, abortReq, status, content, index,
                 committed, reader>>

\* Fault model: the fit test is off by one.
FitsOffByOne(size) == size <= Free(uuid) + 1

Fits(size) == size <= Free(uuid)

\* PoolWriter::append_snapshot_archive: the whole archive or nothing; a
\* written snapshot enters the media set catalog.
WriteSnapshotArchive ==
  /\ content' = [content EXCEPT ![uuid] = Append(@, SnapRec(cur))]
  /\ index' = index \cup {cur}

\* check_abort, then the snapshot archive; if it does not fit the medium is
\* marked Full and the archive is retried on the next volume.
SnapAppend ==
  /\ pc = "snapAppend"
  /\ \/ /\ abortReq
        /\ Fail("aborted")
        /\ UNCHANGED <<summary, errors, progress, status, content, index>>
     \/ /\ ~abortReq
        /\ Fits(ArchiveSize)
        /\ WriteSnapshotArchive
        /\ SnapshotResult("success")
        /\ UNCHANGED <<result, status>>
     \/ /\ ~abortReq
        /\ ~Fits(ArchiveSize)
        /\ status' = [status EXCEPT ![uuid] = "full"]
        /\ pc' = "snapRetry"
        /\ UNCHANGED <<summary, errors, progress, result, content, index>>
  /\ UNCHANGED <<setup, groupList, gi, snapList, snapNo, cur, needCatalog,
                 ignored, abortReq, loaded, uuid, usedMedia, committed, reader>>

\* check_abort, then load_writable_media for the second attempt.
SnapRetry ==
  /\ pc = "snapRetry"
  /\ \/ abortReq /\ Fail("aborted") /\ UNCHANGED <<loaded, uuid, usedMedia>>
     \/ ~abortReq /\ LoadWritableMedia("snapAppend2")
  /\ UNCHANGED <<setup, groupList, gi, snapList, snapNo, cur, errors, needCatalog,
                 summary, progress, ignored, abortReq, status, content, index,
                 committed, reader>>

\* Second attempt: no abort check; failing again ends the job.
SnapAppend2 ==
  /\ pc = "snapAppend2"
  /\ \/ /\ Fits(ArchiveSize)
        /\ WriteSnapshotArchive
        /\ SnapshotResult("success")
        /\ UNCHANGED result
     \/ /\ ~Fits(ArchiveSize)
        /\ Fail("failed")
        /\ UNCHANGED <<summary, errors, progress, content, index>>
  /\ UNCHANGED <<setup, groupList, gi, snapList, snapNo, cur, needCatalog,
                 ignored, abortReq, loaded, uuid, status, usedMedia, committed,
                 reader>>

\* pool_writer.commit(), before the catalog; the catalog only if needed.
Commit ==
  /\ pc = "commit"
  /\ committed' = TRUE
  /\ pc' = IF needCatalog THEN "catLoad" ELSE "export"
  /\ UNCHANGED <<setup, groupList, gi, snapList, snapNo, cur, errors, needCatalog,
                 summary, progress, result, ignored, abortReq, loaded, uuid,
                 status, content, index, usedMedia, reader>>

CatLoad ==
  /\ pc = "catLoad"
  /\ LoadWritableMedia("catAppend")
  /\ UNCHANGED <<setup, groupList, gi, snapList, snapNo, cur, errors, needCatalog,
                 summary, progress, ignored, abortReq, status, content, index,
                 committed, reader>>

WriteCatalogArchive ==
  content' = [content EXCEPT ![uuid] = Append(@, CatalogRec)]

\* append_catalog_archive; if it does not fit, mark Full and go to the next volume.
CatAppend ==
  /\ pc = "catAppend"
  /\ \/ /\ Fits(CatalogSize)
        /\ WriteCatalogArchive
        /\ pc' = "export"
        /\ UNCHANGED status
     \/ /\ ~Fits(CatalogSize)
        /\ status' = [status EXCEPT ![uuid] = "full"]
        /\ pc' = "catRetry"
        /\ UNCHANGED content
  /\ UNCHANGED <<setup, groupList, gi, snapList, snapNo, cur, errors, needCatalog,
                 summary, progress, result, ignored, abortReq, loaded, uuid, index,
                 usedMedia, committed, reader>>

CatRetry ==
  /\ pc = "catRetry"
  /\ LoadWritableMedia("catAppend2")
  /\ UNCHANGED <<setup, groupList, gi, snapList, snapNo, cur, errors, needCatalog,
                 summary, progress, ignored, abortReq, status, content, index,
                 committed, reader>>

\* Second catalog attempt; failing again ends the job.
CatAppend2 ==
  /\ pc = "catAppend2"
  /\ \/ Fits(CatalogSize) /\ WriteCatalogArchive /\ pc' = "export" /\ UNCHANGED result
     \/ ~Fits(CatalogSize) /\ Fail("failed") /\ UNCHANGED content
  /\ UNCHANGED <<setup, groupList, gi, snapList, snapNo, cur, errors, needCatalog,
                 summary, progress, ignored, abortReq, loaded, uuid, status, index,
                 usedMedia, committed, reader>>

\* export_media_set / eject_media, then any per-snapshot error fails the job;
\* only a clean run records the used tapes and ends Ok.
Export ==
  /\ pc = "export"
  /\ Fail(IF errors THEN "failed" ELSE "ok")
  /\ UNCHANGED <<setup, groupList, gi, snapList, snapNo, cur, errors, needCatalog,
                 summary, progress, ignored, abortReq, writer, reader>>

(***************************************************************************)
(* The chunk reader thread (spawn_chunk_reader_thread): sends the chunks  *)
(* of the snapshot in order over a channel of ChanCap slots, or an error  *)
(* item after which it stops, or panics; it hangs up when it ends.         *)
(***************************************************************************)
ReaderSend ==
  /\ rstate = "run"
  /\ rnext <= NumChunks
  /\ Len(chan) < ChanCap
  /\ \/ chan' = Append(chan, rnext) /\ rnext' = rnext + 1 /\ UNCHANGED rstate
     \/ chan' = Append(chan, ReadError) /\ rstate' = "done" /\ UNCHANGED rnext
  /\ UNCHANGED <<setup, job, abortReq, writer>>

ReaderEnd ==
  /\ rstate = "run"
  /\ \/ rnext > NumChunks /\ rstate' = "done"
     \/ rstate' = "panicked"
  /\ UNCHANGED <<setup, job, abortReq, writer, chan, rnext>>

\* The task's abort request (WorkerTask), at any time while the job runs.
RequestAbort ==
  /\ pc # "done"
  /\ ~abortReq
  /\ abortReq' = TRUE
  /\ UNCHANGED <<setup, job, writer, reader>>

\* The worker has returned job_result.
Terminated ==
  /\ pc = "done"
  /\ UNCHANGED vars

JobStep ==
  \/ UpdateMediaOnlineStatus \/ ListGroups \/ GroupsDone \/ StartGroup
  \/ NextSnapshot \/ OpenSnapshot \/ ChunkCheck \/ ChunkPeek \/ ChunkAppend
  \/ JoinReader \/ SnapLoad \/ SnapAppend \/ SnapRetry \/ SnapAppend2
  \/ Commit \/ CatLoad \/ CatAppend \/ CatRetry \/ CatAppend2 \/ Export

ReaderStep == ReaderSend \/ ReaderEnd

Next == JobStep \/ ReaderStep \/ RequestAbort \/ Terminated

\* The job runs on its own worker thread and the reader on its own thread:
\* each eventually takes a step it stays able to take.
Spec == Init /\ [][Next]_vars /\ WF_vars(JobStep) /\ WF_vars(ReaderStep)

\* The media set of the session as MediaSet sees it: each record written,
\* tagged with its medium, medium after medium in load order.
MediaLog == FlattenSeq([j \in 1..Len(usedMedia) |->
              LET m == usedMedia[j]
              IN [k \in 1..Len(content[m]) |-> [m |-> m, r |-> content[m][k]]]])

MS == INSTANCE MediaSet WITH Room <- [m \in Media |-> Capacity - InitialUse[m]],
                             Size <- RecSize, log <- MediaLog,
                             full <- {m \in Media : status[m] = "full"},
                             done <- (pc = "done")

-----------------------------------------------------------------------------
TypeOK ==
  /\ latestOnly \in BOOLEAN /\ forceMediaSet \in BOOLEAN /\ prior \in PriorIndexes
  /\ pc \in {"online", "list", "group", "snap", "open", "chunkCheck", "chunkPeek",
             "chunkAppend", "join", "snapLoad", "snapAppend", "snapRetry",
             "snapAppend2", "commit", "catLoad", "catAppend", "catRetry",
             "catAppend2", "export", "done"}
  /\ groupList \in Seq(Groups) /\ gi \in 1..(Cardinality(Groups) + 1)
  /\ snapList \in Seq(Snapshots) /\ snapNo \in Nat
  /\ cur \in Snapshots \cup {NoSnap}
  /\ errors \in BOOLEAN /\ needCatalog \in BOOLEAN /\ committed \in BOOLEAN
  /\ summary \in Seq(Snapshots) /\ ignored \subseteq Snapshots
  /\ result \in {"running", "ok", "failed", "aborted"}
  /\ abortReq \in BOOLEAN
  /\ loaded \in Media \cup {NoMedium} /\ uuid \in Media \cup {NoMedium}
  /\ status \in [Media -> {"writable", "full"}]
  /\ content \in [Media -> Seq(Record)]
  /\ \A m \in Media : Free(m) >= 0
  /\ index \subseteq Snapshots /\ usedMedia \in Seq(Media)
  /\ chan \in Seq((1..NumChunks) \cup {ReadError}) /\ Len(chan) <= ChanCap
  /\ rstate \in {"idle", "run", "done", "panicked"} /\ rnext \in 1..(NumChunks + 1)

ArchivedNow == {s \in Snapshots : SnapRec(s) \in ToSet(Written)}
StartIndex  == IF forceMediaSet THEN {} ELSE prior

\* What a clean run must leave in the media set: every finished snapshot of
\* every group the filter keeps, or only the newest of each with latest-only.
Expected ==
  UNION {IF latestOnly /\ FinishedTimes(g) # {}
         THEN {<<g, Max(FinishedTimes(g))>>}
         ELSE {<<g, t>> : t \in FinishedTimes(g)} : g \in FilterKeep}

(* Chunk order across media rotation: for every snapshot, the chunks that   *)
(* reached the media, read medium after medium, are exactly 1, 2, ... with  *)
(* no chunk lost or repeated where append_chunk_archive hit LEOM and the    *)
(* loop in backup_snapshot resumed the same stream on the next medium.      *)
ChunksInOrder ==
  \A s \in Snapshots :
    LET w == SelectSeq(Written, LAMBDA r : r.k = "chunk" /\ r.s = s)
    IN \A j \in 1..Len(w) : w[j].i = j

(* A snapshot reported in summary.snapshot_list is durable: its archive is  *)
(* on a medium and every one of its chunks was written before it, so the    *)
(* chunk loop of backup_snapshot only ended on the real end of the stream.  *)
SuccessIsDurable ==
  \A s \in ToSet(summary) :
    \E p \in 1..Len(Written) :
      /\ Written[p] = SnapRec(s)
      /\ {Written[q].i : q \in {q \in 1..(p - 1) : Written[q].k = "chunk"
                                                 /\ Written[q].s = s}} = 1..NumChunks

(* Idempotence: no snapshot archive is on the media set twice, counting the *)
(* catalog the job started from, i.e. contains_snapshot skips everything   *)
(* already there and nothing is backed up twice in one run.                *)
NoDuplicateArchive ==
  \A s \in Snapshots :
    Cardinality({p \in 1..Len(Written) : Written[p] = SnapRec(s)})
      + (IF s \in StartIndex THEN 1 ELSE 0) <= 1

(* A run that ends Ok has put every expected snapshot in the media set      *)
(* (unless it vanished) and archived nothing else: the group filter, the    *)
(* finished filter, latest-only reduction and skipping of known snapshots   *)
(* of backup_worker together select exactly the right work.                 *)
CompleteOnSuccess ==
  result = "ok" => /\ Expected \ ignored \subseteq index
                   /\ ArchivedNow \subseteq Expected

(* Snapshot archives are written in group order, oldest snapshot first,     *)
(* as the sort of group_list and BackupInfo::sort_list(.., true) promise.   *)
SnapshotOrder ==
  LET a == SelectSeq(Written, LAMBDA r : r.k = "snapshot")
      Before(x, y) == x.s[1] < y.s[1] \/ (x.s[1] = y.s[1] /\ x.s[2] < y.s[2])
  IN IsSorted(a, Before)

(* The progress shown after each snapshot (StoreProgress) never goes back,  *)
(* across the per-group reset of done_snapshots and group_snapshots.        *)
ProgressMonotone ==
  [][progress.total > 0 =>
       LET a == Percentage(progress)
           b == Percentage(progress')
       IN a[1] * b[2] <= b[1] * a[2]]_progress

(* Every run ends: the LEOM loop and the archive retries cannot go on      *)
(* forever on a finite pool, given a fair worker and reader thread.        *)
Termination == <>(pc = "done")

(* The job implements MediaSet: under the mapping MediaLog, what           *)
(* backup_snapshot and the catalog write through load_writable_media and   *)
(* append_*_archive is a sequence of archive writes, medium by medium, each *)
(* within the room of an open medium, with Full final and one end.         *)
ImplementsMediaSet == MS!Spec

-----------------------------------------------------------------------------
(* spec.md 4.3: the catalog archive is written only if a snapshot or chunk  *)
(* was actually written; backup_worker sets need_catalog before it knows.   *)
CatalogOnlyIfWritten ==
  CatalogRec \in ToSet(Written) => \E r \in ToSet(Written) : r.k # "catalog"

(* spec.md 4.3: commit() comes after all archive writes.                    *)
NoWriteAfterCommit == [][committed => content' = content]_<<committed, content>>

(* spec.md 4.1 and 4.5: the online-status refresh is best effort; its     *)
(* failure is logged and never ends the job.  update_media_online_status    *)
(* propagates the changer and inventory errors with `?`.                    *)
OnlineRefreshNonFatal == [][pc = "online" => pc' # "done"]_pc

(* spec.md 7: a reader thread that cannot be joined fails only its          *)
(* snapshot (an Error outcome) and the job goes on; backup_snapshot bails   *)
(* and the `?` on its result in backup_worker ends the job.                 *)
JoinFailureIsolated == [][pc = "join" => pc' # "done"]_pc

(* spec.md 7: an abort request unwinds the job and no further write is      *)
(* attempted.                                                               *)
NoWriteAfterAbort == [][abortReq => content' = content]_<<abortReq, content>>
=============================================================================
