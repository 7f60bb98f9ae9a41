-------------------------- MODULE PruneKeepOptions --------------------------
(***************************************************************************)
(* KeepOptions::keeps_something and PruneJobOptions::keeps_something,     *)
(* jobs.rs 588-616 and 648-651: whether a prune configuration keeps any   *)
(* snapshot.  The six keep-* options are Option<u64>; the code adds them  *)
(* with `+`, which panics on overflow in a debug build and wraps modulo   *)
(* 2^64 in a release build (the crate sets no overflow-checks profile).   *)
(* Width is the integer width; the values a keep-* option can take are     *)
(* 1 .. 2^(Width-1)-1, the range of the signed integer schema.            *)
(***************************************************************************)
EXTENDS Integers, SequencesExt

CONSTANTS
  Width,     \* bits of the integer type (64 in the code)
  Counts,    \* the Some(n) values tried, within 1 .. 2^(Width-1)-1
  None,      \* Option::None
  Panic      \* the thread panicked

KeepFields == <<"keep-last", "keep-hourly", "keep-daily", "keep-weekly",
                "keep-monthly", "keep-yearly">>

KeepOptions == [ToSet(KeepFields) -> Counts \cup {None}]

UnwrapOr0(o) == IF o = None THEN 0 ELSE o

\* The sum in the order of the code; Panic if a debug build overflows.
KeepsSomething(keep, build) ==
  LET sum == FoldLeft(LAMBDA acc, f : acc + UnwrapOr0(keep[f]), 0, KeepFields)
  IN IF build = "debug" /\ sum >= 2^Width THEN Panic
     ELSE sum % 2^Width > 0

VARIABLES
  keep,     \* the prune job's KeepOptions
  build,    \* "debug" or "release"
  result    \* keeps_something(), Panic, or None before the call

vars == <<keep, build, result>>

Init == keep \in KeepOptions /\ build \in {"debug", "release"} /\ result = None

\* PruneJobOptions::keeps_something delegates to KeepOptions.
Evaluate ==
  /\ result = None
  /\ result' = KeepsSomething(keep, build)
  /\ UNCHANGED <<keep, build>>

Done == result # None /\ UNCHANGED vars

Spec == Init /\ [][Evaluate \/ Done]_vars

(* keeps_something answers whether some keep-* option keeps a snapshot:  *)
(* it returns, and returns TRUE exactly when one option is set to a       *)
(* positive count.                                                        *)
KeepsSomethingExact ==
  result # None =>
    /\ result # Panic
    /\ result = \E f \in ToSet(KeepFields) : UnwrapOr0(keep[f]) > 0
=============================================================================
