------------------------ MODULE MC_BackupOrchestrator ------------------------
EXTENDS BackupOrchestrator, TLC

CONSTANTS r1, r2, r3, r4, d1, d2

\* Two requests compete for drive d1, a third uses drive d2; a fourth, on
\* d2, comes from a caller without Tape.Write on the pool.
MCDriveOf == (r1 :> d1) @@ (r2 :> d1) @@ (r3 :> d2) @@ (r4 :> d2)

MCPrivs == [r \in {r1, r2, r3} |-> Privileges] @@ (r4 :> {"datastore-read", "drive-write"})
=============================================================================
