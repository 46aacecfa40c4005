---------------------------- MODULE MCAnalysisCycle ----------------------------
(* AnalysisCycle for TLC.  The constants are in the configurations.         *)
EXTENDS AnalysisCycle
=============================================================================
