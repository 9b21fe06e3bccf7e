----------------------------- MODULE MCKeyBroker -----------------------------
(* Small instances of KeyBroker for TLC.                                    *)
EXTENDS KeyBroker, TLC

\* Processes are interchangeable: no action or property names one.
ProcSymmetry == Permutations(Procs)
=============================================================================
