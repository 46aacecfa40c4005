---------------------------- MODULE MCModelArtifacts ----------------------------
(* ModelArtifacts for TLC: the job and the script, two days.                 *)
EXTENDS ModelArtifacts

Both    == {"job", "script"}
TwoDays == {1, 2}
=============================================================================
