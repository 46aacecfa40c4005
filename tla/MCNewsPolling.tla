----------------------------- MODULE MCNewsPolling -----------------------------
(* NewsPolling for TLC: more titles than the memory holds.                  *)
EXTENDS NewsPolling
=============================================================================
