---------------------------- MODULE DockerService ----------------------------
(***************************************************************************)
(* DockerProvider implements LabService as long as each instance is        *)
(* started by one kernel: the containers that a crash or a failed start    *)
(* leaves behind, the config file that is rewritten under a running        *)
(* server, and stops by other kernels are all invisible behind it.         *)
(***************************************************************************)
EXTENDS DockerProvider

(* None is neither a call nor a request.                                   *)
ASSUME ServiceAssumption == None \notin StartCall \cup [inst : Instances, config : Configs]

Up(i) == {c \in Named(i) : Running(c)}

serving == [i \in Instances |->
               IF Up(i) = {} THEN None ELSE box[CHOOSE c \in Up(i) : TRUE].config]

asked == [k \in Kernels |->
             IF call[k] # None /\ call[k].op = "start"
             THEN [inst |-> call[k].inst, config |-> call[k].config]
             ELSE None]

reply == [k \in Kernels |->
             IF result[k] \in {"running", "reused"} THEN "served" ELSE "none"]

Lab == INSTANCE LabService WITH Down <- None, Nothing <- None

(* Every step of the docker provider is a step of the service it promises, *)
(* or none that a client of the service could see.                         *)
ImplementsLabService == Lab!Spec

=============================================================================
