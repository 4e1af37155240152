--------------------------- MODULE MCAgentSession ---------------------------
(* Small instances of AgentSession for TLC.                                *)
EXTENDS AgentSession, TLC

CONSTANTS c1, c2, listPrs, sloStatus, createPr, pushFiles

Symmetry == Permutations(Conns) \cup Permutations(ReadTools)
=============================================================================
