-------------------------- MODULE MCDockerProvider --------------------------
(* Small instances of DockerProvider for TLC.                              *)
EXTENDS DockerProvider, TLC

CONSTANTS k1, k2,          \* two kernels
          do53, dot, both  \* profiles: plain only, DoT only, both

MCListeners ==
    [p \in Profiles |->
        IF p = do53 THEN {"do53"} ELSE IF p = dot THEN {"dot"} ELSE {"do53", "dot"}]

(* One kernel starts; the others stop, regenerate and crash.               *)
SoleStarters == [i \in Instances |-> {k1}]

(* Every kernel starts everything.                                         *)
AllStarters == [i \in Instances |-> Kernels]

Symmetry == Permutations(Ids) \cup Permutations(Configs)

=============================================================================
