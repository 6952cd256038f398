--------------------------- MODULE MCJointHistory ---------------------------
(* JointHistory under every circumstance.                                    *)
EXTENDS JointHistory

Anything == Circumstances
=============================================================================
