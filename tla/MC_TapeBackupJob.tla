------------------------- MODULE MC_TapeBackupJob -------------------------
(* A datastore of four groups for TLC: group 1 has two finished snapshots, *)
(* group 2 one, group 3 only an unfinished one (an empty group), group 4   *)
(* is dropped by the group filter.  Of four media of five units, two are   *)
(* the nearly full tail of the media set (one unit left), so archives     *)
(* that do not fit, second attempts that fail, and runs that run out of   *)
(* media all occur beside runs that complete.                             *)
EXTENDS TapeBackupJob, TLC

CONSTANTS m1, m2, m3, m4

MCSnapTimes == (1 :> {1, 2}) @@ (2 :> {1}) @@ (3 :> {1}) @@ (4 :> {1})
MCFinished  == {<<1, 1>>, <<1, 2>>, <<2, 1>>, <<4, 1>>}
MCInitialUse == (m1 :> 4) @@ (m2 :> 4) @@ (m3 :> 0) @@ (m4 :> 0)
MCPriorIndexes == {{}, {<<1, 1>>}}
=============================================================================
