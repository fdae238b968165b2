------------------------------- MODULE MCCerts -------------------------------
(* Small instances of Certs for TLC.                                        *)
EXTENDS Certs

CONSTANTS k1, k2       \* two kernels

(* The same extra names every time.                                         *)
SameNames == [i \in Instances |-> {ExtraSans}]

(* One kernel starts everything.                                            *)
SoleStarts == [p \in Procs |-> Instances]

(* One kernel starts, the other only regenerates.                           *)
FirstStarts == [p \in Procs |-> IF p = k1 THEN Instances ELSE {}]

(* Every value of force, and the values that the repository's own calls     *)
(* and its documentation pass.                                              *)
AnyForce     == [o \in Ops |-> BOOLEAN]
AsDocumented == [o \in Ops |-> {o = "regen"}]

=============================================================================
