---------------------------- MODULE MCDeployment ----------------------------
(***************************************************************************)
(* Instances of Deployment for TLC.  c1 and c2 are the children of batch   *)
(* b1 on devices d1 and d2; c3 and c4 are standalone changes of d1.        *)
(***************************************************************************)
EXTENDS Deployment, TLC

CONSTANTS c1, c2, c3, c4, b1, d1, d2

MCDeviceOf == [c \in Changes |-> IF c = c2 THEN d2 ELSE d1]
MCBatchOf  == [c \in Changes |-> IF c \in {c1, c2} /\ b1 \in Batches
                                 THEN b1 ELSE None]
MCHostRank == [d \in Devices |-> IF d = d1 THEN 1 ELSE 2]

\* Requests are served by any thread; configurations are only compared.
Symmetry == Permutations(Threads) \cup Permutations(Configs)
=============================================================================
