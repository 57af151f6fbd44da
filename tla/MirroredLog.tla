---------------------------- MODULE MirroredLog ----------------------------
(***************************************************************************)
(* What replication promises of the two files: the copy only grows, and as *)
(* long as the log has never lost bytes that were already copied, the copy *)
(* is a prefix of the log.                                                 *)
(***************************************************************************)
EXTENDS Integers, Sequences

VARIABLES log, copy, intact

mirrorVars == <<log, copy, intact>>

Extends(s, t) == Len(s) <= Len(t) /\ \A i \in 1 .. Len(s) : t[i] = s[i]

Init == log = <<>> /\ copy = <<>> /\ intact = TRUE

Write == Extends(log, log') /\ UNCHANGED <<copy, intact>>

Copy == Extends(copy, copy') /\ (intact => Extends(copy', log)) /\ UNCHANGED <<log, intact>>

Lose ==
  /\ Extends(log', log)
  /\ intact' = (intact /\ Len(copy) <= Len(log'))
  /\ UNCHANGED copy

Next == Write \/ Copy \/ Lose

Spec == Init /\ [][Next]_mirrorVars
=============================================================================
