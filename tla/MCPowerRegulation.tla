-------------------------- MODULE MCPowerRegulation --------------------------
(* An instance of PowerRegulation: the fault bounds that may be returned. *)
EXTENDS PowerRegulation

SomeBounds == {[floor |-> PowerMin, ceiling |-> PowerMax],   \* no evidence
               [floor |-> PowerMin, ceiling |-> PowerMin],   \* a fault
               [floor |-> PowerMax, ceiling |-> PowerMax]}   \* a crash

NoEvidence == {[floor |-> PowerMin, ceiling |-> PowerMax]}
=============================================================================
