------------------------ MODULE MC_TapeBackupService ------------------------
(* Two backup requests for one drive, so the second either meets the lock  *)
(* of a running job or makes the re-run after it.  The job has one group   *)
(* with one finished snapshot of one chunk; of three media of four units,  *)
(* m1 has one unit left, so a run can fill it, mark it Full and fail or    *)
(* crash before commit(), and the next run starts from a persisted status  *)
(* that no longer matches the media.                                       *)
EXTENDS TapeBackupService, TLC

CONSTANTS m1, m2, m3, r1, r2, d1

MCSnapTimes  == 1 :> {1}
MCFinished   == {<<1, 1>>}
MCInitialUse == (m1 :> 3) @@ (m2 :> 0) @@ (m3 :> 0)
MCPrivs      == [r \in {r1, r2} |-> {"datastore-read", "drive-write", "pool-write"}]
=============================================================================
