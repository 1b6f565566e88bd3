------------------------ MODULE MCPendingWorkspace -------------------------
(***************************************************************************)
(* Instances of PendingWorkspace for TLC.                                  *)
(***************************************************************************)
EXTENDS PendingWorkspace, TLC

\* Drafts are created in any order and texts are only compared.
Symmetry == Permutations(Drafts) \cup Permutations(Texts)
=============================================================================
