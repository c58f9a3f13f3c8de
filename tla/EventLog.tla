------------------------------- MODULE EventLog -------------------------------
(***************************************************************************)
(* What the in-memory event log of MK66_Firmware/App/App_logger.c promises *)
(* its users, with neither tasks nor semaphores: records are numbered in   *)
(* the order in which they are accepted, the log keeps the most recent     *)
(* Capacity of them, and counts every record it had to forget for lack of  *)
(* room.  AppLogger implements this specification.                         *)
(***************************************************************************)
EXTENDS Naturals, Sequences

CONSTANT Capacity       \* EVENT_LOG_SIZE - 1: the ring keeps one slot empty

VARIABLES
  count,                \* records published so far
  kept,                 \* the records still in the log, oldest first
  forgotten             \* older records, overwritten

vars == <<count, kept, forgotten>>

Init ==
  /\ count = 0
  /\ kept = <<>>
  /\ forgotten = 0

\* LOG: the new record enters; when the log is full the oldest one leaves.
Publish ==
  /\ count' = count + 1
  /\ IF Len(kept) < Capacity
       THEN /\ kept' = Append(kept, count')
            /\ UNCHANGED forgotten
       ELSE /\ kept' = Append(Tail(kept), count')
            /\ forgotten' = forgotten + 1

Next == Publish

Spec == Init /\ [][Next]_vars
===============================================================================
