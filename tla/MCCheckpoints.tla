--------------------------- MODULE MCCheckpoints ----------------------------
(***************************************************************************)
(* Instances of Checkpoints for TLC.                                       *)
(***************************************************************************)
EXTENDS Checkpoints, TLC

\* Changes are created in any order; configurations are only compared.
Symmetry == Permutations(Changes) \cup Permutations(Configs) \cup
            Permutations(Threads)
=============================================================================
