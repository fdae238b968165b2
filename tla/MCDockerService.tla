--------------------------- MODULE MCDockerService ---------------------------
(* Small instances of DockerService for TLC.                               *)
EXTENDS DockerService, TLC

CONSTANTS k1, k2, do53, dot

MCListeners == [p \in Profiles |-> IF p = do53 THEN {"do53"} ELSE {"dot"}]

(* One kernel starts; the other one stops what it finds.                   *)
SoleStarters == [i \in Instances |-> {k1}]

Symmetry == Permutations(Ids) \cup Permutations(Configs)

====
