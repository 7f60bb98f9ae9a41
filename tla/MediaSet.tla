------------------------------ MODULE MediaSet ------------------------------
(***************************************************************************)
(* What the PoolWriter of a backup job promises about the media set (spec *)
(* md 4.3), stated without the job's control flow: the session appends    *)
(* archives medium by medium.  A medium is written in one stretch, never   *)
(* after it is Full, never after the session moved on to another medium  *)
(* and never beyond the room it had when the session began; Full is final *)
(* and the session ends once.  TapeBackupJob implements this module.      *)
(***************************************************************************)
EXTENDS Integers, Sequences, SequencesExt

CONSTANTS
  Media,     \* the media of the pool
  Room,      \* [Media -> Nat]: units free on each medium at the start
  Size(_)    \* the units an archive record takes

VARIABLES
  log,       \* Seq([m : Media, r : records]): what was written, in order
  full,      \* the media marked Full
  done       \* the session has ended

vars == <<log, full, done>>

OnMedium(m) == SelectSeq(log, LAMBDA e : e.m = m)

Used(m) == FoldLeft(LAMBDA acc, e : acc + Size(e.r), 0, OnMedium(m))

\* The medium the session writes now: the one of the last record.
Current == IF log = <<>> THEN {} ELSE {Last(log).m}

\* A medium may take records if it is not Full and is either the current
\* one or, once the current one is Full, one the session has not written.
Open(m) == /\ m \notin full
           /\ \/ m \in Current
              \/ OnMedium(m) = <<>> /\ Current \subseteq full

Init == log = <<>> /\ full = {} /\ done = FALSE

\* One archive write: records appended to one open medium, within its
\* room; the medium may become Full with it (end of medium).
Write(m) ==
  /\ ~done
  /\ Open(m)
  /\ Len(log') > Len(log)
  /\ SubSeq(log', 1, Len(log)) = log
  /\ \A i \in (Len(log) + 1)..Len(log') : log'[i].m = m
  /\ Used(m) + FoldLeft(LAMBDA acc, e : acc + Size(e.r), 0,
                        SubSeq(log', Len(log) + 1, Len(log'))) <= Room[m]
  /\ full' \in {full, full \cup {m}}
  /\ UNCHANGED done

MarkFull(m) ==
  /\ ~done
  /\ full' = full \cup {m}
  /\ UNCHANGED <<log, done>>

Finish ==
  /\ ~done
  /\ done' = TRUE
  /\ UNCHANGED <<log, full>>

Next == (\E m \in Media : Write(m) \/ MarkFull(m)) \/ Finish

\* The session ends: the job returns.
Spec == Init /\ [][Next]_vars /\ WF_vars(Finish)
=============================================================================
