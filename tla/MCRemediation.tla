---------------------------- MODULE MCRemediation ----------------------------
(* Small instances of Remediation for TLC.                                  *)
EXTENDS Remediation, TLC

CONSTANTS c1, c2, t1, t2, api

NoPrior  == <<>>
ApiPrior == <<api>>

NoClash  == {}

Symmetry == Permutations(Conns) \cup Permutations(Threads)
=============================================================================
