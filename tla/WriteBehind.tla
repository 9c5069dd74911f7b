----------------------------- MODULE WriteBehind -----------------------------
(***************************************************************************)
(* What a store that writes in batches promises: what is durable is at all *)
(* times a prefix of what was written, in the order it was written.  A     *)
(* crash loses what was not yet durable and nothing else.                  *)
(***************************************************************************)
EXTENDS Naturals, Sequences

CONSTANT Row
VARIABLES log, durable

Init == log = <<>> /\ durable = 0

Write == \E r \in Row : log' = Append(log, r) /\ UNCHANGED durable

Sync == durable' \in durable .. Len(log) /\ UNCHANGED log

Crash == log' = SubSeq(log, 1, durable) /\ UNCHANGED durable

Next == Write \/ Sync \/ Crash

Spec == Init /\ [][Next]_<<log, durable>>
=============================================================================
