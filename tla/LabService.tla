------------------------------ MODULE LabService ------------------------------
(***************************************************************************)
(* What dnslab.start() promises the notebooks, without containers, files   *)
(* or labels: "a running instance with the same profile and unchanged      *)
(* rendered config that still answers its healthcheck is reused; config    *)
(* drift triggers a replace" (dnslab/__init__.py, docstring of start).     *)
(*                                                                         *)
(* An instance serves one configuration or nothing.  It comes up with the  *)
(* configuration of a start that is under way, keeps it until it goes      *)
(* down, and a start that reports a server it waited for reports one that  *)
(* serves what was asked.                                                  *)
(***************************************************************************)
CONSTANTS Kernels, Instances, Configs, Down, Nothing

VARIABLES
    serving,   \* serving[i]: the configuration clients of i meet
    asked,     \* asked[k]: what the start that k is in was asked for
    reply      \* reply[k]: "served" when the last start of k reported a server

vars == <<serving, asked, reply>>

Request == [inst : Instances, config : Configs]

Init ==
    /\ serving = [i \in Instances |-> Down]
    /\ asked = [k \in Kernels |-> Nothing]
    /\ reply = [k \in Kernels |-> "none"]

Ask(k) ==
    /\ asked[k] = Nothing
    /\ \E r \in Request : asked' = [asked EXCEPT ![k] = r]
    /\ reply' = [reply EXCEPT ![k] = "none"]
    /\ UNCHANGED serving

(* A kernel turns to something else, a teardown for instance.              *)
Forget(k) ==
    /\ asked[k] = Nothing
    /\ reply' = [reply EXCEPT ![k] = "none"]
    /\ UNCHANGED <<serving, asked>>

ComeUp(k) ==
    /\ asked[k] # Nothing
    /\ serving[asked[k].inst] = Down
    /\ serving' = [serving EXCEPT ![asked[k].inst] = asked[k].config]
    /\ UNCHANGED <<asked, reply>>

(* Replaced, stopped by anybody, or exited.                                *)
GoDown(i) ==
    /\ serving[i] # Down
    /\ serving' = [serving EXCEPT ![i] = Down]
    /\ UNCHANGED <<asked, reply>>

Deliver(k) ==
    /\ asked[k] # Nothing
    /\ serving[asked[k].inst] = asked[k].config
    /\ asked' = [asked EXCEPT ![k] = Nothing]
    /\ reply' = [reply EXCEPT ![k] = "served"]
    /\ UNCHANGED serving

(* An error, a crash, or a start that does not wait.                       *)
GiveUp(k) ==
    /\ asked[k] # Nothing
    /\ asked' = [asked EXCEPT ![k] = Nothing]
    /\ UNCHANGED <<serving, reply>>

Next ==
    \/ \E k \in Kernels : Ask(k) \/ Forget(k) \/ ComeUp(k) \/ Deliver(k) \/ GiveUp(k)
    \/ \E i \in Instances : GoDown(i)

Spec == Init /\ [][Next]_vars

=============================================================================
