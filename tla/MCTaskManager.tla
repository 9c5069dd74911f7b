---------------------------- MODULE MCTaskManager ----------------------------
(***************************************************************************)
(* Small instances of TaskManager for TLC: the sequences a script executes *)
(***************************************************************************)
EXTENDS TaskManager

Seq1(n, reset, blocking) == [commands |-> n, reset |-> reset, blocking |-> blocking]

OneCommand   == {Seq1(1, FALSE, FALSE)}
OneOrReset   == {Seq1(1, FALSE, FALSE), Seq1(1, TRUE, FALSE)}
MixedCommands == {Seq1(2, FALSE, TRUE), Seq1(1, TRUE, FALSE)}
=============================================================================
