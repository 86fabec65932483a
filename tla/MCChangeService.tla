--------------------------- MODULE MCChangeService ---------------------------
(***************************************************************************)
(* Values of the constants for TLC.                                        *)
(***************************************************************************)
EXTENDS ChangeApprovals

CONSTANTS h1, h2, h3, r1, r2

TwoReplicas == [h \in Handlers |-> IF h = h1 THEN r1 ELSE r2]
=============================================================================
