------------------------------ MODULE PythonNone ------------------------------
(* None is no number and no sequence of numbers.                           *)
EXTENDS Naturals, Sequences
CONSTANT None  \* the value None of a Python variable
ASSUME NoneAssumption == None \notin Nat \cup Seq(Nat)
=============================================================================
