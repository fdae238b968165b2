---------------------------- MODULE MCEc2Provider ----------------------------
(* Small instances of Ec2Provider for TLC.                                  *)
EXTENDS Ec2Provider, TLC

CONSTANTS k1, k2       \* two kernels

AllCalls    == [k \in Kernels |-> Ops]
StatusAside == [k \in Kernels |-> IF k = k1 THEN {"start", "stop"} ELSE {"status"}]
NukeAside   == [k \in Kernels |-> IF k = k1 THEN {"start"} ELSE {"nuke"}]
Starts      == [k \in Kernels |-> {"start"}]

(* AWS hands ids out in no order.                                           *)
Fresh == Permutations(Ids) \cup Permutations(Groups)

=============================================================================
