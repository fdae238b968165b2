------------------------- MODULE DockerService_proofs -------------------------
(***************************************************************************)
(* Proofs about DockerProvider, and that it implements LabService, for any *)
(* number of kernels, instances, profiles, configurations and containers;  *)
(* all but the types and the teardown as long as each instance is started  *)
(* by one kernel.                                                          *)
(***************************************************************************)
EXTENDS DockerService, TLAPS

-----------------------------------------------------------------------------
(* Types.                                                                  *)

Outcomes == {"none", "ok", "reused", "running", "launched", "error", "crashed"}

StartLabels == {"render", "hash", "lookup", "reuse_wait", "image", "remove",
                "create", "connect", "boot", "inspect", "wait"}
StopLabels  == {"discover", "stop", "stop_remove"}
HoldLabels  == {"reuse_wait", "connect", "boot", "inspect", "wait", "stop_remove"}

(* What a kernel has at hand at each label.                                *)
Control ==
    \A k \in Kernels :
        /\ pc[k] \in StartLabels => call[k] \in StartCall
        /\ pc[k] \in StopLabels  => call[k] \in StopCall
        /\ pc[k] \in HoldLabels  => cid[k] \in Ids
        /\ pc[k] # "idle" => result[k] = "none"

TypeInv == TypeOK /\ Control

LEMMA AbsentType == \A s \in {"unborn", "removed"} : Absent(s) \in Container
  BY DockerAssumption, SMT DEF Absent, Container

LEMMA CreatedType ==
  ASSUME NEW i \in Instances, NEW p \in Profiles, NEW h \in Configs \cup {None}
  PROVE  NewContainer(i, p, h) \in Container
  BY DockerAssumption DEF NewContainer, Container

LEMMA BootedType ==
  ASSUME NEW b \in Container, NEW t \in Configs \cup {None}, NEW l \in 0..MaxCa
  PROVE  [b EXCEPT !.status = "running", !.config = t, !.leaf = l] \in Container
  BY DEF Container

LEMMA ServerType ==
  ASSUME NEW b \in Container, NEW h \in {"booting", "answering", "hung"}
  PROVE  /\ [b EXCEPT !.health = h] \in Container
         /\ [b EXCEPT !.status = "exited"] \in Container
  BY DEF Container

(* A call that returns leaves all types as they are.                       *)
LEMMA ReturnTypes ==
  ASSUME TypeInv, NEW k \in Kernels, NEW o \in Outcomes, Return(k, o), UNCHANGED <<box, disk>>
  PROVE  TypeInv'
  BY DockerAssumption DEF TypeInv, TypeOK, Control, Return, Outcomes, disk, Labels,
     StartLabels, StopLabels, HoldLabels

LEMMA InitTypes == Init => TypeInv
  <1>1. ASSUME Init PROVE TypeOK
    BY <1>1, DockerAssumption, AbsentType DEF Init, TypeOK, Labels
  <1>2. ASSUME Init PROVE Control
    BY <1>2 DEF Init, Control, StartLabels, StopLabels, HoldLabels
  <1>3. QED
    BY <1>1, <1>2 DEF TypeInv

LEMMA NextTypes == TypeInv /\ [Next]_vars => TypeInv'
  <1> SUFFICES ASSUME TypeInv, [Next]_vars PROVE TypeInv'
    OBVIOUS
  <1> USE DEF TypeInv, TypeOK, Control, Goto, disk, tls, locals, Labels, StartLabels, StopLabels, HoldLabels
  <1>1. ASSUME NEW k \in Kernels, CallStart(k) PROVE TypeInv'
    BY <1>1 DEF CallStart, StartCall
  <1>2. ASSUME NEW k \in Kernels, Start(k) PROVE TypeInv'
    <2>1. CASE Render(k)
      BY <2>1 DEF Render, StartCall
    <2>2. CASE Confhash(k)
      BY <2>2 DEF Confhash, StartCall
    <2>3. CASE LookupReuse(k)
      BY <2>3, DockerAssumption DEF LookupReuse, Named, Known
    <2>4. CASE LookupRecreate(k)
      BY <2>4 DEF LookupRecreate
    <2>5. CASE WaitGone(k)
      BY <2>5, ReturnTypes DEF WaitGone, Raise, Outcomes
    <2>6. CASE WaitAnswered(k)
      BY <2>6, ReturnTypes DEF WaitAnswered, Outcomes
    <2>7. CASE WaitRetry(k)
      BY <2>7, DockerAssumption DEF WaitRetry, Probing
    <2>8. CASE WaitFailed(k)
      <3>1. CASE pc[k] = "wait"
        BY <2>8, <3>1, ReturnTypes DEF WaitFailed, Raise, Outcomes
      <3>2. CASE pc[k] # "wait"
        BY <2>8, <3>2, DockerAssumption DEF WaitFailed, Waiting
      <3>3. QED
        BY <3>1, <3>2
    <2>9. CASE Image(k)
      BY <2>9 DEF Image
    <2>10. CASE RemoveOld(k)
      <3>1. box' \in [Ids -> Container]
        BY <2>10, AbsentType DEF RemoveOld, Remove, Named, Known
      <3>2. QED
        BY <2>10, <3>1 DEF RemoveOld
    <2>11. CASE Create(k)
      <3>1. PICK c \in Ids :
              /\ box' = [box EXCEPT ![c] =
                           NewContainer(call[k].inst, call[k].profile, hash[k])]
              /\ cid' = [cid EXCEPT ![k] = c]
        BY <2>11 DEF Create
      <3>2. box' \in [Ids -> Container]
        <4>1. call[k] \in StartCall
          BY <2>11 DEF Create
        <4>2. /\ call[k].inst \in Instances /\ call[k].profile \in Profiles
              /\ hash[k] \in Configs \cup {None}
          BY <4>1 DEF StartCall
        <4>3. QED
          BY <3>1, <4>2, CreatedType
      <3>3. QED
        BY <2>11, <3>1, <3>2 DEF Create
    <2>12. CASE CreateConflict(k)
      BY <2>12, ReturnTypes DEF CreateConflict, Raise, Outcomes
    <2>13. CASE Connect(k)
      BY <2>13 DEF Connect
    <2>14. CASE Boot(k)
      <3>1. /\ cid[k] \in Ids /\ call[k].inst \in Instances
            /\ box[cid[k]] \in Container
        BY <2>14 DEF Boot, StartCall
      <3>2. box' \in [Ids -> Container]
        BY <2>14, <3>1, BootedType DEF Boot
      <3>3. QED
        BY <2>14, <3>2 DEF Boot
    <2>15. CASE Inspect(k)
      <3>1. CASE call[k].wait
        BY <2>15, <3>1, DockerAssumption DEF Inspect
      <3>2. CASE ~call[k].wait
        BY <2>15, <3>2, ReturnTypes DEF Inspect, Outcomes
      <3>3. QED
        BY <3>1, <3>2
    <2>16. CASE NewContainerGone(k)
      BY <2>16, ReturnTypes DEF NewContainerGone, Raise, Outcomes
    <2>17. CASE StartRaises(k)
      BY <2>17, ReturnTypes DEF StartRaises, Raise, Outcomes
    <2>18. CASE WaitReadCa(k)
      BY <2>18 DEF WaitReadCa
    <2>19. QED
      BY <1>2, <2>1, <2>2, <2>3, <2>4, <2>5, <2>6, <2>7, <2>8, <2>9, <2>10, <2>11,
         <2>12, <2>13, <2>14, <2>15, <2>16, <2>17, <2>18 DEF Start
  <1>3. ASSUME NEW k \in Kernels, CallStop(k) PROVE TypeInv'
    BY <1>3 DEF CallStop, StopCall, Known
  <1>4. ASSUME NEW k \in Kernels, Stop(k) PROVE TypeInv'
    <2>1. CASE Discover(k)
      BY <2>1 DEF Discover
    <2>2. CASE DiscoverRaises(k)
      BY <2>2, ReturnTypes DEF DiscoverRaises, Raise, Outcomes
    <2>3. CASE StopGet(k)
      BY <2>3 DEF StopGet, Named, Known
    <2>4. CASE StopRemove(k)
      BY <2>4, AbsentType DEF StopRemove, Remove
    <2>5. CASE StopRemoveGone(k)
      BY <2>5, ReturnTypes DEF StopRemoveGone, Raise, Outcomes
    <2>6. CASE StopDone(k)
      BY <2>6, ReturnTypes DEF StopDone, Outcomes
    <2>7. QED
      BY <1>4, <2>1, <2>2, <2>3, <2>4, <2>5, <2>6 DEF Stop
  <1>5. ASSUME NEW k \in Kernels, Regen(k) PROVE TypeInv'
    BY <1>5, DockerAssumption DEF Regen
  <1>6. ASSUME NEW k \in Kernels, Crash(k) PROVE TypeInv'
    BY <1>6, ReturnTypes DEF Crash, Outcomes
  <1>7. ASSUME NEW c \in Ids, Server(c) PROVE TypeInv'
    <2>1. ASSUME NEW h \in {"booting", "answering", "hung"}, box' = [box EXCEPT ![c].health = h]
          PROVE  box' \in [Ids -> Container]
      <3>1. box' = [box EXCEPT ![c] = [box[c] EXCEPT !.health = h]]
        BY <2>1
      <3>2. QED
        BY <3>1, ServerType
    <2>2. ASSUME ServerExits(c) PROVE box' \in [Ids -> Container]
      <3>1. box' = [box EXCEPT ![c] = [box[c] EXCEPT !.status = "exited"]]
        BY <2>2 DEF ServerExits
      <3>2. QED
        BY <3>1, ServerType
    <2>3. UNCHANGED <<disk, pc, locals, result>>
      BY <1>7 DEF Server, ServerReady, ServerHangs, ServerExits, Health
    <2>4. box' \in [Ids -> Container]
      BY <1>7, <2>1, <2>2 DEF Server, ServerReady, ServerHangs, Health
    <2>5. QED
      BY <2>3, <2>4
  <1>8. CASE UNCHANGED vars
    BY <1>8 DEF vars
  <1>9. QED
    BY <1>1, <1>2, <1>3, <1>4, <1>5, <1>6, <1>7, <1>8 DEF Next, Kernel

(* Containers, files and locals keep their types, and a kernel at a label  *)
(* holds what the code at that place uses.                                 *)
THEOREM TypeCorrect == Spec => []TypeOK
  <1>1. TypeInv => TypeOK
    BY DEF TypeInv
  <1>2. QED
    BY <1>1, InitTypes, NextTypes, PTL DEF Spec

-----------------------------------------------------------------------------
(* How containers change, and what a step of one kernel leaves to others.  *)

Labelled(c) == <<box[c].name, box[c].profile, box[c].confhash>>

(* The four things a step can do to the containers.                        *)
Changes(c) ==
    \/ UNCHANGED box
    \/ Exists(c) /\ Remove(c)
    \/ /\ box[c].status = "unborn"
       /\ \E k \in Kernels :
            /\ pc[k] = "create" /\ Create(k) /\ Named(call[k].inst) = {}
            /\ box' = [box EXCEPT ![c] = NewContainer(call[k].inst, call[k].profile, hash[k])]
    \/ /\ Exists(c)
       /\ \E b \in Container :
            /\ box' = [box EXCEPT ![c] = b]
            /\ b.status \in {"running", "exited"}
            /\ <<b.name, b.profile, b.confhash>> = Labelled(c)

LEMMA BoxChanges ==
  ASSUME TypeInv, [Next]_vars
  PROVE  UNCHANGED box \/ \E c \in Ids : Changes(c)
  <1> USE DEF TypeInv, TypeOK
  <1>1. ASSUME NEW k \in Kernels, RemoveOld(k)
        PROVE  UNCHANGED box \/ \E c \in Ids : Changes(c)
    BY <1>1 DEF RemoveOld, Named, Known, Changes
  <1>2. ASSUME NEW k \in Kernels, Create(k)
        PROVE  \E c \in Ids : Changes(c)
    <2>1. PICK c \in Ids :
            /\ box[c].status = "unborn"
            /\ box' = [box EXCEPT ![c] = NewContainer(call[k].inst, call[k].profile, hash[k])]
      BY <1>2 DEF Create
    <2>2. pc[k] = "create" /\ Named(call[k].inst) = {}
      BY <1>2 DEF Create
    <2>3. QED
      BY <1>2, <2>1, <2>2 DEF Changes
  <1>3. ASSUME NEW k \in Kernels, Boot(k)
        PROVE  \E c \in Ids : Changes(c)
    <2>1. /\ cid[k] \in Ids /\ call[k].inst \in Instances /\ box[cid[k]] \in Container
          /\ Exists(cid[k])
      BY <1>3 DEF Boot, Control, StartLabels, HoldLabels, StartCall
    <2> DEFINE b == [box[cid[k]] EXCEPT !.status = "running",
                                        !.config = configFile[call[k].inst],
                                        !.leaf = leaf[call[k].inst]]
    <2>2. b \in Container
      BY <2>1, BootedType
    <2>3. /\ b.status = "running"
          /\ <<b.name, b.profile, b.confhash>> = Labelled(cid[k])
      BY <2>1 DEF Container, Labelled
    <2>4. box' = [box EXCEPT ![cid[k]] = b]
      BY <1>3 DEF Boot
    <2>5. QED
      BY <2>1, <2>2, <2>3, <2>4 DEF Changes
  <1>4. ASSUME NEW k \in Kernels, StopRemove(k)
        PROVE  \E c \in Ids : Changes(c)
    BY <1>4 DEF StopRemove, Changes, Control, HoldLabels
  <1>5. ASSUME NEW k \in Kernels, Kernel(k),
               ~RemoveOld(k), ~Create(k), ~Boot(k), ~StopRemove(k)
        PROVE  UNCHANGED box
    BY <1>5 DEF Kernel, Start, Stop, CallStart, Render, Confhash, LookupReuse, LookupRecreate,
       WaitGone, WaitReadCa, WaitAnswered, WaitRetry, WaitFailed, Image, CreateConflict, Connect, Inspect,
       NewContainerGone, StartRaises, CallStop, Discover, DiscoverRaises, StopGet,
       StopRemoveGone, StopDone, Regen, Crash, Raise
  <1>6. ASSUME NEW c \in Ids, Server(c)
        PROVE  Changes(c)
    <2>1. Exists(c) /\ box[c] \in Container /\ box[c].status = "running"
      BY <1>6 DEF Server, ServerReady, ServerHangs, ServerExits, Health, Running, Exists
    <2>2. ASSUME NEW h \in {"booting", "answering", "hung"}, box' = [box EXCEPT ![c].health = h]
          PROVE  Changes(c)
      <3> DEFINE b == [box[c] EXCEPT !.health = h]
      <3>1. b \in Container
        BY <2>1, ServerType
      <3>2. b.status = "running" /\ <<b.name, b.profile, b.confhash>> = Labelled(c)
        BY <2>1 DEF Container, Labelled
      <3>3. box' = [box EXCEPT ![c] = b]
        BY <2>2
      <3>4. QED
        BY <2>1, <3>1, <3>2, <3>3 DEF Changes
    <2>3. ASSUME ServerExits(c)
          PROVE  Changes(c)
      <3> DEFINE b == [box[c] EXCEPT !.status = "exited"]
      <3>1. b \in Container
        BY <2>1, ServerType
      <3>2. b.status = "exited" /\ <<b.name, b.profile, b.confhash>> = Labelled(c)
        BY <2>1 DEF Container, Labelled
      <3>3. box' = [box EXCEPT ![c] = b]
        BY <2>3 DEF ServerExits
      <3>4. QED
        BY <2>1, <3>1, <3>2, <3>3 DEF Changes
    <2>4. QED
      BY <1>6, <2>2, <2>3 DEF Server, ServerReady, ServerHangs, Health
  <1>7. CASE UNCHANGED vars
    BY <1>7 DEF vars
  <1>8. QED
    BY <1>1, <1>2, <1>3, <1>4, <1>5, <1>6, <1>7 DEF Next

(* Ids are never reused, and the labels of a container are for life.       *)
LEMMA LabelsForLife ==
  ASSUME TypeInv, [Next]_vars, NEW c \in Ids, box[c].status # "unborn"
  PROVE  /\ box'[c].status # "unborn"
         /\ Exists(c)' => Exists(c) /\ Labelled(c)' = Labelled(c)
  <1> USE DEF TypeInv, TypeOK, Exists, Labelled
  <1>1. CASE UNCHANGED box
    BY <1>1
  <1>2. ASSUME NEW d \in Ids, Changes(d)
        PROVE  /\ box'[c].status # "unborn"
               /\ Exists(c)' => Exists(c) /\ Labelled(c)' = Labelled(c)
    <2>1. CASE UNCHANGED box
      BY <2>1
    <2>2. CASE Remove(d)
      BY <2>2 DEF Remove, Absent
    <2>3. ASSUME NEW k \in Kernels, box[d].status = "unborn",
                 box' = [box EXCEPT ![d] = NewContainer(call[k].inst, call[k].profile, hash[k])]
          PROVE  /\ box'[c].status # "unborn"
                 /\ Exists(c)' => Exists(c) /\ Labelled(c)' = Labelled(c)
      BY <2>3
    <2>4. ASSUME NEW b \in Container, Exists(d), box' = [box EXCEPT ![d] = b],
                 b.status \in {"running", "exited"},
                 <<b.name, b.profile, b.confhash>> = Labelled(d)
          PROVE  /\ box'[c].status # "unborn"
                 /\ Exists(c)' => Exists(c) /\ Labelled(c)' = Labelled(c)
      BY <2>4
    <2>5. QED
      BY <1>2, <2>1, <2>2, <2>3, <2>4 DEF Changes
  <1>3. QED
    BY <1>1, <1>2, BoxChanges

(* The daemon gives a name to one container at a time.                     *)
UniqueName ==
    \A c, d \in Ids : Exists(c) /\ Exists(d) /\ box[c].name = box[d].name => c = d

LEMMA NextUnique == TypeInv /\ UniqueName /\ [Next]_vars => UniqueName'
  <1> SUFFICES ASSUME TypeInv, UniqueName, [Next]_vars,
                      NEW c \in Ids, NEW d \in Ids,
                      Exists(c)', Exists(d)', (box[c].name = box[d].name)'
               PROVE  c = d
    BY DEF UniqueName
  <1> USE DEF TypeInv, TypeOK
  <1>1. CASE Exists(c) /\ Exists(d)
    <2>1. box'[c].name = box[c].name /\ box'[d].name = box[d].name
      BY <1>1, LabelsForLife DEF Labelled, Exists
    <2>2. QED
      BY <1>1, <2>1 DEF UniqueName
  <1>2. ASSUME NEW e \in {c, d}, ~Exists(e)
        PROVE  c = d
    <2>1. e \in Ids /\ Exists(e)'
      BY <1>2
    <2>2. ~UNCHANGED box
      BY <1>2, <2>1 DEF Exists
    <2>3. PICK f \in Ids : Changes(f)
      BY <2>2, BoxChanges
    <2>4. f = e
      BY <1>2, <2>1, <2>2, <2>3 DEF Changes, Exists, Remove, Absent
    <2>5. PICK k \in Kernels :
            /\ Named(call[k].inst) = {}
            /\ box' = [box EXCEPT ![e] = NewContainer(call[k].inst, call[k].profile, hash[k])]
      BY <1>2, <2>2, <2>3, <2>4 DEF Changes
    <2>6. box'[e].name = call[k].inst
      BY <2>1, <2>5 DEF NewContainer
    <2>7. ASSUME NEW g \in {c, d}, g # e PROVE FALSE
      <3>1. g \in Ids /\ box'[g] = box[g] /\ Exists(g)
        BY <2>5, <2>7 DEF Exists
      <3>2. g \in Named(call[k].inst)
        BY <2>6, <3>1 DEF Named, Known
      <3>3. QED
        BY <2>5, <3>2
    <2>8. QED
      BY <2>7
  <1>3. QED
    BY <1>1, <1>2

(* A step of one kernel touches no other kernel's locals.                  *)
LEMMA Frame ==
  ASSUME NEW k \in Kernels, Kernel(k), NEW j \in Kernels, j # k, TypeInv
  PROVE  /\ pc'[j] = pc[j] /\ call'[j] = call[j] /\ hash'[j] = hash[j] /\ cid'[j] = cid[j]
         /\ listed'[j] = listed[j] /\ pending'[j] = pending[j] /\ result'[j] = result[j]
  <1> USE DEF TypeInv, TypeOK, Goto, Return, Raise, locals
  <1>1. CASE CallStart(k) \/ CallStop(k) \/ Regen(k) \/ Crash(k)
    BY <1>1 DEF CallStart, CallStop, Regen, Crash
  <1>2. CASE Start(k)
    BY <1>2 DEF Start, Render, Confhash, LookupReuse, LookupRecreate,
       WaitGone, WaitReadCa, WaitAnswered, WaitRetry, WaitFailed, Image, RemoveOld, Create, CreateConflict,
       Connect, Boot, Inspect, NewContainerGone, StartRaises
  <1>3. CASE Stop(k)
    BY <1>3 DEF Stop, Discover, DiscoverRaises, StopGet, StopRemove, StopRemoveGone, StopDone
  <1>4. QED
    BY <1>1, <1>2, <1>3 DEF Kernel

LEMMA ServerFrame ==
  ASSUME NEW c \in Ids, Server(c)
  PROVE  UNCHANGED <<disk, pc, locals, result>>
  BY DEF Server, ServerReady, ServerHangs, ServerExits, Health

-----------------------------------------------------------------------------
(* Teardown.  A name leaves pending when its container is in hand, and a   *)
(* listed container only leaves the daemon; so whatever listed container   *)
(* is still there has its name pending, or is the one in hand.             *)

Accounted(k) ==
    /\ \A c \in listed[k] : box[c].status # "unborn"
    /\ pc[k] \in {"stop", "stop_remove"} =>
         \A c \in listed[k] : Exists(c) =>
             \/ box[c].name \in pending[k]
             \/ pc[k] = "stop_remove" /\ cid[k] = c

TeardownInv == TypeInv /\ UniqueName /\ \A k \in Kernels : Accounted(k)

(* A step that leaves the locals of a teardown alone cannot spoil it.      *)
LEMMA AccountedFrame ==
  ASSUME TypeInv, [Next]_vars, NEW k \in Kernels, Accounted(k),
         pc'[k] = pc[k], cid'[k] = cid[k], listed'[k] = listed[k], pending'[k] = pending[k]
  PROVE  Accounted(k)'
  <1>1. listed[k] \subseteq Ids
    BY DEF TypeInv, TypeOK
  <1>2. QED
    BY <1>1, LabelsForLife DEF Accounted, Labelled, Exists

(* Neither can one that leads away from the teardown.                      *)
LEMMA AccountedElsewhere ==
  ASSUME TypeInv, [Next]_vars, NEW k \in Kernels, Accounted(k),
         pc'[k] \notin {"stop", "stop_remove"}, listed'[k] \in {listed[k], {}}
  PROVE  Accounted(k)'
  <1>1. listed[k] \subseteq Ids
    BY DEF TypeInv, TypeOK
  <1>2. QED
    BY <1>1, LabelsForLife DEF Accounted

LEMMA StopAccounted ==
  ASSUME TypeInv, UniqueName, [Next]_vars, NEW k \in Kernels, Accounted(k), CallStop(k) \/ Stop(k)
  PROVE  Accounted(k)'
  <1> USE DEF TypeInv, TypeOK, Goto
  <1>0. listed[k] \subseteq Ids
    OBVIOUS
  <1>1. CASE CallStop(k)
    BY <1>1 DEF CallStop, Accounted, Known, Exists
  <1>2. CASE Discover(k)
    BY <1>0, <1>2 DEF Discover, Accounted, Known, Exists
  <1>3. CASE DiscoverRaises(k) \/ StopRemoveGone(k) \/ StopDone(k)
    BY <1>3, AccountedElsewhere DEF DiscoverRaises, StopRemoveGone, StopDone, Raise, Return
  <1>4. CASE StopGet(k)
    <2>1. PICK i \in pending[k] :
            /\ pending' = [pending EXCEPT ![k] = @ \ {i}]
            /\ \/ /\ \E c \in Named(i) : cid' = [cid EXCEPT ![k] = c]
                  /\ Goto(k, "stop_remove")
               \/ /\ Named(i) = {}
                  /\ UNCHANGED <<pc, cid, result>>
      BY <1>4 DEF StopGet
    <2>2. /\ pc[k] = "stop" /\ UNCHANGED <<box, listed>>
      BY <1>4 DEF StopGet
    <2>3. CASE Named(i) = {} /\ UNCHANGED <<pc, cid, result>>
      BY <1>0, <2>1, <2>2, <2>3 DEF Accounted, Exists, Named, Known
    <2>4. ASSUME NEW d \in Named(i), cid' = [cid EXCEPT ![k] = d], Goto(k, "stop_remove")
          PROVE  Accounted(k)'
      <3>1. \A c \in listed[k] : Exists(c) /\ box[c].name = i => c = d
        BY <1>0 DEF Named, Known, UniqueName
      <3>2. pc'[k] = "stop_remove" /\ cid'[k] = d
        BY <2>4
      <3>3. pending'[k] = pending[k] \ {i}
        BY <2>1
      <3>4. QED
        BY <2>2, <3>1, <3>2, <3>3 DEF Accounted, Exists
    <2>5. QED
      BY <2>1, <2>3, <2>4
  <1>5. CASE StopRemove(k)
    <2>1. /\ pc[k] = "stop_remove" /\ pc'[k] = "stop"
          /\ box'[cid[k]].status = "removed"
          /\ UNCHANGED <<listed, pending>>
      BY <1>5 DEF StopRemove, Remove, Absent, Control, HoldLabels
    <2>2. QED
      BY <1>0, <2>1, LabelsForLife DEF Accounted, Labelled, Exists
  <1>6. QED
    BY <1>1, <1>2, <1>3, <1>4, <1>5 DEF Stop

LEMMA NextTeardown == TeardownInv /\ [Next]_vars => TeardownInv'
  <1> SUFFICES ASSUME TeardownInv, [Next]_vars PROVE TeardownInv'
    OBVIOUS
  <1>1. TypeInv' /\ UniqueName'
    BY NextTypes, NextUnique DEF TeardownInv
  <1>2. ASSUME NEW j \in Kernels PROVE Accounted(j)'
    <2>0. TypeInv /\ UniqueName /\ Accounted(j)
      BY <1>2 DEF TeardownInv
    <2>1. ASSUME NEW k \in Kernels, Kernel(k), k # j PROVE Accounted(j)'
      BY <2>0, <2>1, Frame, AccountedFrame
    <2>2. ASSUME CallStop(j) \/ Stop(j) PROVE Accounted(j)'
      BY <2>0, <2>2, StopAccounted
    <2>3. ASSUME CallStart(j) \/ Start(j) PROVE Accounted(j)'
      <3>1. pc'[j] \notin {"stop", "stop_remove"} /\ listed'[j] \in {listed[j], {}}
        BY <2>0, <2>3 DEF TypeInv, TypeOK, Start, CallStart, Render, Confhash, LookupReuse, LookupRecreate,
           WaitGone, WaitReadCa, WaitAnswered, WaitRetry, WaitFailed, Image, RemoveOld, Create, CreateConflict,
           Connect, Boot, Inspect, NewContainerGone, StartRaises, Goto, Return, Raise, locals, Waiting, Probing
      <3>2. QED
        BY <2>0, <3>1, AccountedElsewhere
    <2>4. ASSUME Crash(j) PROVE Accounted(j)'
      BY <2>0, <2>4, AccountedElsewhere DEF Crash, Return, TypeInv, TypeOK
    <2>5. ASSUME Regen(j) PROVE Accounted(j)'
      BY <2>0, <2>5, AccountedFrame DEF Regen, locals
    <2>6. ASSUME NEW c \in Ids, Server(c) PROVE Accounted(j)'
      BY <2>0, <2>6, ServerFrame, AccountedFrame DEF locals
    <2>7. CASE UNCHANGED vars
      BY <2>0, <2>7, AccountedFrame DEF vars, locals
    <2>8. QED
      BY <2>1, <2>2, <2>3, <2>4, <2>5, <2>6, <2>7 DEF Next, Kernel
  <1>3. QED
    BY <1>1, <1>2 DEF TeardownInv

LEMMA InitTeardown == Init => TeardownInv
  <1>1. Init => UniqueName /\ \A k \in Kernels : Accounted(k)
    BY DEF Init, UniqueName, Accounted, Exists, Absent
  <1>2. QED
    BY <1>1, InitTypes DEF TeardownInv

(* stop() and nuke() are complete for any number of kernels that start,    *)
(* stop and crash at the same time: when one returns, every container it   *)
(* listed is gone.                                                         *)
THEOREM TeardownIsComplete == Spec => TeardownComplete
  <1>1. TeardownInv /\ [Next]_vars =>
          [\A k \in Kernels : pc[k] = "stop" /\ result'[k] = "ok" /\ pc'[k] = "idle" =>
              \A c \in listed[k] : ~Exists(c)]_vars
    <2> SUFFICES ASSUME TeardownInv, Next, NEW k \in Kernels,
                        pc[k] = "stop", result'[k] = "ok", pc'[k] = "idle"
                 PROVE  \A c \in listed[k] : ~Exists(c)
      BY DEF TeardownInv
    <2>1. pending[k] = {}
      <3>1. ASSUME NEW j \in Kernels, Kernel(j), j # k PROVE FALSE
        BY <3>1, Frame DEF TeardownInv
      <3>2. ASSUME NEW c \in Ids, Server(c) PROVE FALSE
        BY <3>2, ServerFrame
      <3>3. Kernel(k)
        BY <3>1, <3>2 DEF Next
      <3>4. ~Crash(k) /\ ~StopGet(k)
        BY DEF Crash, Return, StopGet, Goto, TeardownInv, TypeInv, TypeOK
      <3>5. ~CallStart(k) /\ ~CallStop(k) /\ ~Regen(k) /\ ~Start(k)
        BY DEF CallStart, CallStop, Regen, Start, Render, Confhash, LookupReuse, LookupRecreate,
           WaitGone, WaitReadCa, WaitAnswered, WaitRetry, WaitFailed, Image, RemoveOld, Create, CreateConflict,
           Connect, Boot, Inspect, NewContainerGone, StartRaises, Waiting, Probing
      <3>6. ~Discover(k) /\ ~DiscoverRaises(k) /\ ~StopRemove(k) /\ ~StopRemoveGone(k)
        BY DEF Discover, DiscoverRaises, StopRemove, StopRemoveGone
      <3>7. QED
        BY <3>3, <3>4, <3>5, <3>6 DEF Kernel, Stop, StopDone
    <2>2. QED
      BY <2>1 DEF TeardownInv, Accounted
  <1>2. QED
    BY <1>1, InitTeardown, NextTeardown, PTL DEF Spec, TeardownComplete

-----------------------------------------------------------------------------
(* Starts, as long as each instance has one starter.  From render to boot  *)
(* the config file stays the one this start wrote, so the fingerprint, the *)
(* label and the text the server loads are the same; the name is free when *)
(* the container is created; and a container in hand is, while it exists,  *)
(* labelled with what was asked.                                           *)

Asked(k) == <<call[k].inst, call[k].profile, call[k].config>>

Promise(k) ==
    /\ pc[k] \in StartLabels => k \in Starters[call[k].inst]
    /\ pc[k] \in {"hash", "lookup", "reuse_wait", "image", "remove", "create", "connect", "boot"} =>
         configFile[call[k].inst] = call[k].config
    /\ pc[k] \in {"lookup", "reuse_wait", "image", "remove", "create", "connect", "boot"} =>
         hash[k] = call[k].config
    /\ pc[k] = "create" => Named(call[k].inst) = {}
    /\ pc[k] \in HoldLabels => box[cid[k]].status # "unborn"
    /\ pc[k] \in HoldLabels \ {"stop_remove"} /\ Exists(cid[k]) => Labelled(cid[k]) = Asked(k)
    /\ pc[k] \in {"reuse_wait", "inspect", "wait"} => box[cid[k]].status # "created"

StartInv == TypeInv /\ UniqueName /\ LabelsTellConfig /\ \A k \in Kernels : Promise(k)

(* Once started, a container is never "created" again.                     *)
LEMMA StartedForLife ==
  ASSUME TypeInv, [Next]_vars, NEW c \in Ids, box[c].status \notin {"unborn", "created"}
  PROVE  box'[c].status \notin {"unborn", "created"}
  <1> USE DEF TypeInv, TypeOK
  <1>1. CASE UNCHANGED box
    BY <1>1
  <1>2. ASSUME NEW d \in Ids, Changes(d)
        PROVE  box'[c].status \notin {"unborn", "created"}
    BY <1>2 DEF Changes, Remove, Absent, Exists
  <1>3. QED
    BY <1>1, <1>2, BoxChanges

(* A kernel whose locals, config file and name are left alone keeps its    *)
(* promise.                                                                *)
LEMMA PromiseFrame ==
  ASSUME TypeInv, [Next]_vars, NEW k \in Kernels, Promise(k),
         pc'[k] = pc[k], call'[k] = call[k], hash'[k] = hash[k], cid'[k] = cid[k],
         pc[k] \in StartLabels => configFile'[call[k].inst] = configFile[call[k].inst],
         pc[k] = "create" => Named(call[k].inst)' = {}
  PROVE  Promise(k)'
  <1>1. pc[k] \in HoldLabels => cid[k] \in Ids
    BY DEF TypeInv, Control
  <1>2. /\ pc[k] \in StartLabels => k \in Starters[call[k].inst]
        /\ pc[k] \in {"hash", "lookup", "reuse_wait", "image", "remove", "create", "connect", "boot"} =>
             configFile'[call[k].inst] = call[k].config
        /\ pc[k] \in {"lookup", "reuse_wait", "image", "remove", "create", "connect", "boot"} =>
             hash[k] = call[k].config
    BY DEF Promise, StartLabels
  <1>3. /\ pc[k] \in HoldLabels => box'[cid[k]].status # "unborn"
        /\ pc[k] \in HoldLabels \ {"stop_remove"} /\ Exists(cid[k])' => Labelled(cid[k])' = Asked(k)
    BY <1>1, LabelsForLife DEF Promise, Exists, Labelled
  <1>4. pc[k] \in {"reuse_wait", "inspect", "wait"} => box'[cid[k]].status # "created"
    BY <1>1, StartedForLife DEF Promise, HoldLabels
  <1>5. QED
    BY <1>2, <1>3, <1>4 DEF Promise, Asked, Labelled, Exists, Named, Known

(* A kernel outside start() has promised nothing.                          *)
LEMMA PromiseElsewhere ==
  ASSUME NEW k \in Kernels, pc'[k] \in {"idle", "discover", "stop"}
  PROVE  Promise(k)'
  BY DEF Promise, StartLabels, HoldLabels

(* What a step of another kernel, or of a server, leaves alone.            *)
LEMMA OthersKeepOut ==
  ASSUME OneStarter, StartInv, NEW k \in Kernels, NEW j \in Kernels, k # j, Kernel(k), Next
  PROVE  Promise(j)'
  <1> USE DEF StartInv, TypeInv, TypeOK
  <1>1. ASSUME pc[j] \in StartLabels, pc[k] \in StartLabels PROVE call[j].inst # call[k].inst
    <2>1. call[j] \in StartCall
      BY <1>1 DEF Control
    <2>2. QED
      BY <1>1, <2>1 DEF Promise, OneStarter, StartCall
  <1>2. ASSUME pc[j] \in StartLabels PROVE configFile'[call[j].inst] = configFile[call[j].inst]
    <2>1. CASE Render(k)
      BY <1>1, <1>2, <2>1 DEF Render, StartLabels
    <2>2. CASE ~Render(k)
      <3>1. configFile' = configFile
        BY <2>2 DEF Kernel, Start, Stop, CallStart, Confhash, LookupReuse, LookupRecreate,
           WaitGone, WaitReadCa, WaitAnswered, WaitRetry, WaitFailed, Image, RemoveOld, Create, CreateConflict,
           Connect, Boot, Inspect, NewContainerGone, StartRaises, CallStop, Discover, DiscoverRaises,
           StopGet, StopRemove, StopRemoveGone, StopDone, Regen, Crash, Raise, disk, vars
      <3>2. QED
        BY <3>1
    <2>3. QED
      BY <2>1, <2>2
  <1>3. ASSUME pc[j] = "create" PROVE Named(call[j].inst)' = {}
    <2>1. Named(call[j].inst) = {}
      BY <1>3 DEF Promise
    <2>2. SUFFICES ASSUME NEW c \in Ids, Exists(c)', box'[c].name = call[j].inst PROVE FALSE
      BY Frame DEF Named, Known, Exists
    <2>3. CASE box[c].status # "unborn"
      BY <2>1, <2>2, <2>3, LabelsForLife DEF Labelled, Named, Known
    <2>4. CASE box[c].status = "unborn"
      <3>1. ~Exists(c) /\ ~UNCHANGED box
        BY <2>2, <2>4 DEF Exists
      <3>2. PICK d \in Ids : Changes(d)
        BY <3>1, BoxChanges
      <3>3. PICK m \in Kernels :
              /\ pc[m] = "create" /\ Create(m)
              /\ box' = [box EXCEPT ![d] = NewContainer(call[m].inst, call[m].profile, hash[m])]
        BY <2>2, <2>4, <3>1, <3>2 DEF Changes, Remove, Absent, Exists
      <3>4. d = c
        BY <2>2, <2>4, <3>3 DEF Exists
      <3>5. call[m].inst = call[j].inst
        BY <2>2, <3>3, <3>4 DEF NewContainer
      <3>6. m # j
        <4>1. Create(m) => pc'[m] = "connect"
          BY <3>3 DEF Create, Goto
        <4>2. pc'[j] = pc[j]
          BY Frame
        <4>3. QED
          BY <1>3, <3>3, <4>1, <4>2
      <3>7. call[j] \in StartCall /\ m \in Starters[call[m].inst] /\ j \in Starters[call[j].inst]
        BY <1>3, <3>3 DEF Control, Promise, StartLabels
      <3>8. QED
        BY <3>5, <3>6, <3>7 DEF OneStarter, StartCall
    <2>5. QED
      BY <2>3, <2>4
  <1>4. QED
    BY <1>2, <1>3, Frame, PromiseFrame

(* The steps of start() itself.                                            *)
LEMMA StartPromise ==
  ASSUME StartInv, NEW k \in Kernels, CallStart(k) \/ Start(k), Next
  PROVE  Promise(k)'
  <1> USE DEF StartInv, TypeInv, TypeOK, Goto, StartLabels, HoldLabels
  <1>1. CASE CallStart(k)
    BY <1>1 DEF CallStart, Promise
  <1>2. ASSUME pc[k] \in StartLabels
        PROVE  call[k] \in StartCall /\ k \in Starters[call[k].inst]
    BY <1>2 DEF Control, Promise
  <1>3. CASE Render(k)
    BY <1>2, <1>3 DEF Render, Promise, locals, StartCall
  <1>4. CASE Confhash(k)
    BY <1>4 DEF Confhash, Promise, disk
  <1>5. CASE LookupReuse(k)
    <2>1. PICK c \in Named(call[k].inst) : Matches(c, k) /\ cid' = [cid EXCEPT ![k] = c]
      BY <1>5 DEF LookupReuse
    <2>2. /\ cid'[k] = c /\ Exists(c) /\ box[c].status = "running"
          /\ box[c].name = call[k].inst
          /\ box[c].profile = call[k].profile /\ box[c].confhash = hash[k]
      BY <2>1 DEF Named, Known, Matches, Running
    <2>3. UNCHANGED <<box, disk, call, hash>> /\ pc[k] = "lookup" /\ pc'[k] = "reuse_wait"
      BY <1>5 DEF LookupReuse
    <2>4. QED
      BY <2>2, <2>3 DEF Promise, Labelled, Asked, Exists, disk
  <1>6. CASE LookupRecreate(k) \/ Image(k)
    BY <1>6 DEF LookupRecreate, Image, Promise, disk, locals
  <1>7. CASE WaitGone(k) \/ WaitAnswered(k) \/ CreateConflict(k) \/ NewContainerGone(k) \/ StartRaises(k)
    BY <1>7, PromiseElsewhere DEF WaitGone, WaitReadCa, WaitAnswered, CreateConflict, NewContainerGone, StartRaises,
       Raise, Return
  <1>8. CASE WaitReadCa(k) \/ WaitRetry(k)
    <2>1. UNCHANGED <<box, configFile, pc, call, hash, cid>>
      BY <1>8 DEF WaitReadCa, WaitRetry, disk
    <2>2. pc[k] \in {"reuse_wait", "wait"}
      BY <1>8 DEF WaitReadCa, WaitRetry, Probing, Waiting
    <2>3. QED
      BY <2>1, <2>2 DEF Promise, Exists, Labelled, Asked
  <1>9. CASE WaitFailed(k)
    <2>1. CASE pc[k] = "wait"
      BY <1>9, <2>1, PromiseElsewhere DEF WaitFailed, Raise, Return
    <2>2. CASE pc[k] # "wait"
      BY <1>9, <2>2 DEF WaitFailed, Waiting, Promise, disk
    <2>3. QED
      BY <2>1, <2>2
  <1>10. CASE RemoveOld(k)
    <2>1. /\ pc[k] = "remove" /\ pc'[k] = "create" /\ UNCHANGED <<configFile, call, hash>>
      BY <1>10 DEF RemoveOld, disk, locals
    <2>2. Named(call[k].inst)' = {}
      <3>1. SUFFICES ASSUME NEW c \in Ids, Exists(c)', box'[c].name = call[k].inst PROVE FALSE
        BY <2>1 DEF Named, Known, Exists
      <3>2. CASE \E d \in Named(call[k].inst) : Remove(d)
        <4>1. PICK d \in Ids : Exists(d) /\ box[d].name = call[k].inst /\ Remove(d)
          BY <3>2 DEF Named, Known
        <4>2. c # d
          BY <3>1, <4>1 DEF Remove, Absent, Exists
        <4>3. Exists(c) /\ box[c].name = call[k].inst
          BY <3>1, <4>1, <4>2 DEF Remove, Exists
        <4>4. QED
          BY <4>1, <4>2, <4>3 DEF UniqueName
      <3>3. CASE Named(call[k].inst) = {} /\ UNCHANGED box
        BY <3>1, <3>3 DEF Named, Known, Exists
      <3>4. QED
        BY <1>10, <3>2, <3>3 DEF RemoveOld
    <2>3. QED
      BY <2>1, <2>2 DEF Promise
  <1>11. CASE Create(k)
    <2>1. PICK c \in Ids :
            /\ box' = [box EXCEPT ![c] = NewContainer(call[k].inst, call[k].profile, hash[k])]
            /\ cid' = [cid EXCEPT ![k] = c]
      BY <1>11 DEF Create
    <2>2. /\ cid'[k] = c /\ box'[c] = NewContainer(call[k].inst, call[k].profile, hash[k])
          /\ pc[k] = "create" /\ pc'[k] = "connect" /\ UNCHANGED <<configFile, call, hash>>
      BY <1>11, <2>1 DEF Create, disk
    <2>3. QED
      BY <2>2 DEF Promise, Labelled, Asked, NewContainer
  <1>12. CASE Connect(k)
    BY <1>12 DEF Connect, Promise, disk, locals, Exists, Labelled, Asked
  <1>13. CASE Boot(k)
    <2>1. /\ cid[k] \in Ids /\ box[cid[k]] \in Container /\ Exists(cid[k])
          /\ pc[k] = "boot" /\ pc'[k] = "inspect" /\ UNCHANGED <<call, hash, cid>>
      BY <1>13 DEF Boot, Control, locals
    <2>2. /\ box'[cid[k]].status = "running"
          /\ box'[cid[k]].name = box[cid[k]].name
          /\ box'[cid[k]].profile = box[cid[k]].profile
          /\ box'[cid[k]].confhash = box[cid[k]].confhash
      BY <1>13, <2>1 DEF Boot, Container
    <2>3. QED
      BY <2>1, <2>2 DEF Promise, Labelled, Asked
  <1>14. CASE Inspect(k)
    <2>1. CASE call[k].wait
      BY <1>14, <2>1 DEF Inspect, Promise, disk, Exists, Labelled, Asked
    <2>2. CASE ~call[k].wait
      BY <1>14, <2>2, PromiseElsewhere DEF Inspect, Return
    <2>3. QED
      BY <2>1, <2>2
  <1>15. QED
    BY <1>1, <1>3, <1>4, <1>5, <1>6, <1>7, <1>8, <1>9, <1>10, <1>11, <1>12, <1>13, <1>14 DEF Start

LEMMA StopPromise ==
  ASSUME StartInv, NEW k \in Kernels, CallStop(k) \/ Stop(k) \/ Crash(k)
  PROVE  Promise(k)'
  <1> USE DEF StartInv, TypeInv, TypeOK, Goto
  <1>1. CASE StopGet(k)
    <2>1. CASE pc'[k] = "stop"
      BY <2>1, PromiseElsewhere
    <2>2. CASE pc'[k] # "stop"
      <3>1. PICK c \in Ids : Exists(c) /\ cid' = [cid EXCEPT ![k] = c]
        BY <1>1, <2>2 DEF StopGet, Named, Known
      <3>2. cid'[k] = c /\ pc'[k] = "stop_remove" /\ UNCHANGED box
        BY <1>1, <2>2, <3>1 DEF StopGet
      <3>3. QED
        BY <3>1, <3>2 DEF Promise, StartLabels, HoldLabels, Exists
    <2>3. QED
      BY <2>1, <2>2
  <1>2. CASE CallStop(k) \/ Crash(k) \/ Discover(k) \/ DiscoverRaises(k) \/ StopRemove(k)
             \/ StopRemoveGone(k) \/ StopDone(k)
    <2>1. pc'[k] \in {"idle", "discover", "stop"}
      BY <1>2 DEF CallStop, Crash, Discover, DiscoverRaises, StopRemove, StopRemoveGone, StopDone,
         Raise, Return
    <2>2. QED
      BY <2>1, PromiseElsewhere
  <1>3. QED
    BY <1>1, <1>2 DEF Stop

LEMMA NextLabels ==
  ASSUME StartInv, [Next]_vars
  PROVE  LabelsTellConfig'
  <1> USE DEF StartInv, TypeInv, TypeOK
  <1>1. CASE UNCHANGED box
    BY <1>1 DEF LabelsTellConfig
  <1>2. ASSUME NEW k \in Kernels, Boot(k) PROVE LabelsTellConfig'
    <2>1. /\ cid[k] \in Ids /\ box[cid[k]] \in Container
          /\ box[cid[k]].confhash = call[k].config
          /\ configFile[call[k].inst] = call[k].config
      BY <1>2 DEF Boot, Control, Promise, Labelled, Asked, HoldLabels
    <2>2. /\ box'[cid[k]].confhash = box'[cid[k]].config
          /\ \A c \in Ids \ {cid[k]} : box'[c] = box[c]
      BY <1>2, <2>1 DEF Boot, Container
    <2>3. QED
      BY <2>2 DEF LabelsTellConfig
  <1>3. ASSUME NEW k \in Kernels, Create(k) PROVE LabelsTellConfig'
    BY <1>3 DEF Create, NewContainer, LabelsTellConfig
  <1>4. ASSUME NEW c \in Ids, Remove(c) PROVE LabelsTellConfig'
    BY <1>4 DEF Remove, Absent, LabelsTellConfig
  <1>5. ASSUME NEW k \in Kernels, RemoveOld(k) PROVE LabelsTellConfig'
    BY <1>1, <1>4, <1>5 DEF RemoveOld, Named, Known
  <1>6. ASSUME NEW k \in Kernels, StopRemove(k) PROVE LabelsTellConfig'
    BY <1>4, <1>6 DEF StopRemove, Control, HoldLabels
  <1>7. ASSUME NEW k \in Kernels, Kernel(k),
               ~RemoveOld(k), ~Create(k), ~Boot(k), ~StopRemove(k)
        PROVE  UNCHANGED box
    BY <1>7 DEF Kernel, Start, Stop, CallStart, Render, Confhash, LookupReuse, LookupRecreate,
       WaitGone, WaitReadCa, WaitAnswered, WaitRetry, WaitFailed, Image, CreateConflict, Connect, Inspect,
       NewContainerGone, StartRaises, CallStop, Discover, DiscoverRaises, StopGet,
       StopRemoveGone, StopDone, Regen, Crash, Raise
  <1>8. ASSUME NEW c \in Ids, Server(c) PROVE LabelsTellConfig'
    <2>1. box[c] \in Container /\ box[c].status = "running"
      BY <1>8 DEF Server, ServerReady, ServerHangs, ServerExits, Health, Running
    <2>2. /\ box'[c].confhash = box[c].confhash /\ box'[c].config = box[c].config
          /\ \A d \in Ids \ {c} : box'[d] = box[d]
      BY <1>8, <2>1 DEF Server, ServerReady, ServerHangs, ServerExits, Health, Container
    <2>3. QED
      BY <2>1, <2>2 DEF LabelsTellConfig
  <1>9. CASE UNCHANGED vars
    BY <1>1, <1>9 DEF vars
  <1>10. QED
    BY <1>1, <1>2, <1>3, <1>5, <1>6, <1>7, <1>8, <1>9 DEF Next

LEMMA NextStart == OneStarter /\ StartInv /\ [Next]_vars => StartInv'
  <1> SUFFICES ASSUME OneStarter, StartInv, [Next]_vars PROVE StartInv'
    OBVIOUS
  <1>1. TypeInv' /\ UniqueName' /\ LabelsTellConfig'
    BY NextTypes, NextUnique, NextLabels DEF StartInv
  <1>2. ASSUME NEW j \in Kernels PROVE Promise(j)'
    <2>1. ASSUME NEW k \in Kernels, k # j, Kernel(k) PROVE Promise(j)'
      BY <2>1, OthersKeepOut DEF Next
    <2>2. CASE CallStart(j) \/ Start(j)
      BY <2>2, StartPromise DEF Next, Kernel
    <2>3. CASE CallStop(j) \/ Stop(j) \/ Crash(j)
      BY <2>3, StopPromise
    <2>4. CASE Regen(j)
      <3>1. UNCHANGED <<box, configFile, pc, call, hash, cid>>
        BY <2>4 DEF Regen, locals
      <3>2. QED
        BY <3>1, PromiseFrame DEF StartInv, Promise, Named, Known, Exists
    <2>5. ASSUME NEW c \in Ids, Server(c) PROVE Promise(j)'
      <3>1. UNCHANGED <<configFile, pc, call, hash, cid>>
        BY <2>5, ServerFrame DEF disk, locals
      <3>2. pc[j] = "create" => Named(call[j].inst)' = {}
        <4>1. SUFFICES ASSUME Named(call[j].inst) = {}, NEW d \in Ids, Exists(d)', box'[d].name = call[j].inst
                       PROVE FALSE
          BY <3>1 DEF StartInv, Promise, Named, Known, Exists
        <4>2. box[d].status # "unborn"
          BY <2>5, <4>1 DEF Server, ServerReady, ServerHangs, ServerExits, Health, Running, Exists,
             StartInv, TypeInv, TypeOK
        <4>3. QED
          BY <4>1, <4>2, LabelsForLife DEF StartInv, Labelled, Named, Known
      <3>3. QED
        BY <3>1, <3>2, PromiseFrame DEF StartInv
    <2>6. CASE UNCHANGED vars
      BY <2>6, PromiseFrame DEF StartInv, vars, disk, locals, Promise, Named, Known, Exists
    <2>7. QED
      BY <2>1, <2>2, <2>3, <2>4, <2>5, <2>6 DEF Next, Kernel
  <1>3. QED
    BY <1>1, <1>2 DEF StartInv

LEMMA InitStart == Init => StartInv
  <1>1. Init => UniqueName /\ LabelsTellConfig /\ \A k \in Kernels : Promise(k)
    BY DEF Init, UniqueName, LabelsTellConfig, Promise, StartLabels, HoldLabels, Exists, Absent
  <1>2. QED
    BY <1>1, InitTypes DEF StartInv

LEMMA StartInvariant ==
  ASSUME OneStarter
  PROVE  Spec => []StartInv
  BY InitStart, NextStart, PTL DEF Spec

(* With one starter per instance the label of a container never lies about *)
(* what its server runs, whoever stops, regenerates or crashes.            *)
THEOREM LabelsAreTrue ==
  ASSUME OneStarter
  PROVE  Spec => []LabelsTellConfig
  <1>1. StartInv => LabelsTellConfig
    BY DEF StartInv
  <1>2. QED
    BY <1>1, StartInvariant, PTL

(* With one starter per instance a start never fails on its own name.      *)
THEOREM NameIsFree ==
  ASSUME OneStarter
  PROVE  Spec => []NoNameConflict
  <1>1. StartInv => NoNameConflict
    BY DEF StartInv, Promise, NoNameConflict
  <1>2. QED
    BY <1>1, StartInvariant, PTL

(* Only the answer to a probe ends a waiting start with a server.          *)
LEMMA HandsOutAnswered ==
  ASSUME TypeInv, Next, NEW k \in Kernels, HandsOut(k)
  PROVE  WaitAnswered(k)
  <1> SUFFICES ASSUME ~WaitAnswered(k) PROVE FALSE
    OBVIOUS
  <1> USE DEF TypeInv, TypeOK
  <1>1. result[k] = "none" /\ result'[k] \in {"running", "reused"} /\ Waiting(k)
    BY DEF Waiting, Control, HandsOut
  <1>2. ASSUME NEW j \in Kernels, Kernel(j), j # k PROVE FALSE
    BY <1>1, <1>2, Frame
  <1>3. ASSUME NEW c \in Ids, Server(c) PROVE FALSE
    BY <1>1, <1>3, ServerFrame
  <1>4. Kernel(k)
    BY <1>2, <1>3 DEF Next
  <1>5. CASE Start(k)
    <2>1. CASE WaitGone(k) \/ WaitFailed(k) \/ WaitReadCa(k) \/ WaitRetry(k)
      BY <1>1, <2>1 DEF WaitGone, WaitFailed, WaitReadCa, WaitRetry, Raise, Return, Goto
    <2>2. CASE ~(WaitGone(k) \/ WaitFailed(k) \/ WaitReadCa(k) \/ WaitRetry(k))
      BY <1>1, <1>5, <2>2 DEF Waiting, Start, Render, Confhash, LookupReuse, LookupRecreate, Image,
         RemoveOld, Create, CreateConflict, Connect, Boot, Inspect, NewContainerGone, StartRaises
    <2>3. QED
      BY <2>1, <2>2
  <1>6. CASE Crash(k)
    BY <1>1, <1>6 DEF Crash, Return
  <1>7. CASE CallStart(k) \/ CallStop(k) \/ Regen(k) \/ Stop(k)
    BY <1>1, <1>7 DEF Waiting, CallStart, CallStop, Regen, Stop, Discover, DiscoverRaises, StopGet,
       StopRemove, StopRemoveGone, StopDone
  <1>8. QED
    BY <1>4, <1>5, <1>6, <1>7 DEF Kernel

(* With one starter per instance, what a waiting start hands out is what   *)
(* was asked for, reused or fresh.                                         *)
THEOREM StartsDeliver ==
  ASSUME OneStarter
  PROVE  Spec => StartDelivers
  <1>1. StartInv /\ [Next]_vars =>
          [\A k \in Kernels : HandsOut(k) => AsAsked(k)]_vars
    <2> SUFFICES ASSUME StartInv, Next, NEW k \in Kernels, HandsOut(k), ~UNCHANGED vars
                 PROVE  AsAsked(k)
      OBVIOUS
    <2> USE DEF StartInv, TypeInv, TypeOK
    <2>1. WaitAnswered(k)
      BY HandsOutAnswered
    <2>2. /\ cid[k] \in Ids /\ box[cid[k]].status = "running" /\ box[cid[k]].health = "answering"
      BY <2>1 DEF WaitAnswered, Answers, Probing, Running, Waiting, Control, HoldLabels, HandsOut
    <2>3. Labelled(cid[k]) = Asked(k)
      BY <2>2 DEF HandsOut, Waiting, Promise, HoldLabels, Exists
    <2>4. box[cid[k]].config = box[cid[k]].confhash
      BY <2>2 DEF LabelsTellConfig
    <2>5. QED
      BY <2>2, <2>3, <2>4 DEF Labelled, Asked, AsAsked
  <1>2. QED
    BY <1>1, StartInvariant, PTL DEF Spec, StartDelivers

(* The precondition: a server with a DoT listener has no plain one, so     *)
(* that the probe of its health is over TLS.                               *)
ProbesTls == \A p \in Profiles : "dot" \in Listeners[p] => UseDot(p)

(* What a probe validates against was on disk during the call: the CA only *)
(* moves on, and each call and each probe begins by reading where it is.   *)
ReadSince(k) ==
    /\ since[k] <= ca
    /\ pc[k] = "idle" => trusted[k] = 0
    /\ trusted[k] # 0 => since[k] <= trusted[k] /\ trusted[k] <= ca

TlsInv == TypeInv /\ \A k \in Kernels : ReadSince(k)

LEMMA NextTls == TlsInv /\ [Next]_vars => TlsInv'
  <1> SUFFICES ASSUME TlsInv, [Next]_vars PROVE TlsInv'
    OBVIOUS
  <1> USE DEF TlsInv, ReadSince, Goto
  <1>0. /\ ca \in Nat /\ trusted \in [Kernels -> Nat] /\ since \in [Kernels -> Nat]
        /\ pc \in [Kernels -> Labels]
    BY DockerAssumption DEF TypeInv, TypeOK
  <1>1. TypeInv'
    BY NextTypes
  <1>2. ASSUME UNCHANGED <<ca, tls>>, \A k \in Kernels : pc'[k] = "idle" => pc[k] = "idle"
        PROVE  TlsInv'
    BY <1>1, <1>2 DEF tls
  <1>3. ASSUME NEW k \in Kernels, NEW o, Return(k, o), UNCHANGED disk
        PROVE  TlsInv'
    BY <1>0, <1>1, <1>3 DEF Return, disk
  <1>4. ASSUME NEW k \in Kernels, CallStart(k)
        PROVE  TlsInv'
    BY <1>0, <1>1, <1>4 DEF CallStart
  <1>5. ASSUME NEW k \in Kernels, Regen(k)
        PROVE  TlsInv'
    BY <1>0, <1>1, <1>5 DEF Regen, locals, tls
  <1>6. ASSUME NEW k \in Kernels, WaitReadCa(k)
        PROVE  TlsInv'
    BY <1>0, <1>1, <1>6 DEF WaitReadCa, Probing, Waiting, disk
  <1>7. ASSUME NEW k \in Kernels, WaitRetry(k)
        PROVE  TlsInv'
    BY <1>0, <1>1, <1>7 DEF WaitRetry, disk
  <1>8. ASSUME NEW k \in Kernels, WaitFailed(k)
        PROVE  TlsInv'
    <2>1. CASE pc[k] = "wait"
      BY <1>3, <1>8, <2>1 DEF WaitFailed, Raise
    <2>2. CASE pc[k] # "wait"
      BY <1>0, <1>1, <1>8, <2>2 DEF WaitFailed, disk
    <2>3. QED
      BY <2>1, <2>2
  <1>9. ASSUME NEW k \in Kernels, Inspect(k)
        PROVE  TlsInv'
    <2>1. CASE call[k].wait
      BY <1>0, <1>2, <1>9, <2>1 DEF Inspect, disk
    <2>2. CASE ~call[k].wait
      BY <1>3, <1>9, <2>2 DEF Inspect
    <2>3. QED
      BY <2>1, <2>2
  <1>10. ASSUME NEW k \in Kernels,
                WaitGone(k) \/ WaitAnswered(k) \/ CreateConflict(k)
                  \/ NewContainerGone(k) \/ StartRaises(k) \/ Crash(k)
                  \/ DiscoverRaises(k) \/ StopRemoveGone(k) \/ StopDone(k)
         PROVE  TlsInv'
    BY <1>3, <1>10 DEF WaitGone, WaitAnswered, CreateConflict, NewContainerGone, StartRaises, Crash,
       DiscoverRaises, StopRemoveGone, StopDone, Raise
  <1>11. ASSUME NEW k \in Kernels,
                Render(k) \/ Confhash(k) \/ LookupReuse(k) \/ LookupRecreate(k)
                  \/ Image(k) \/ RemoveOld(k) \/ Create(k) \/ Connect(k) \/ Boot(k)
         PROVE  TlsInv'
    BY <1>0, <1>2, <1>11 DEF Render, Confhash, LookupReuse, LookupRecreate, Image, RemoveOld, Create,
       Connect, Boot, disk, locals
  <1>12. ASSUME NEW k \in Kernels,
                CallStop(k) \/ Discover(k) \/ StopGet(k) \/ StopRemove(k)
         PROVE  TlsInv'
    BY <1>0, <1>2, <1>12 DEF CallStop, Discover, StopGet, StopRemove, disk, locals
  <1>13. ASSUME NEW c \in Ids, Server(c)
         PROVE  TlsInv'
    BY <1>2, <1>13, ServerFrame DEF disk, locals
  <1>14. CASE UNCHANGED vars
    BY <1>2, <1>14 DEF vars, disk, locals
  <1>15. QED
    BY <1>4, <1>5, <1>6, <1>7, <1>8, <1>9, <1>10, <1>11, <1>12, <1>13, <1>14
       DEF Next, Kernel, Start, Stop

LEMMA InitTls == Init => TlsInv
  BY InitTypes DEF Init, TlsInv, ReadSince

(* Whoever starts, stops, crashes or regenerates the CA meanwhile, between *)
(* the reading of the CA and the probe too, the leaf of a DoT-only server  *)
(* that a waiting start hands out is of a CA that was on disk during the   *)
(* call.                                                                   *)
THEOREM TlsIsTrusted ==
  ASSUME ProbesTls
  PROVE  Spec => HandsOutTrustedTls
  <1>1. TlsInv /\ [Next]_vars =>
          [\A k \in Kernels :
             HandsOut(k) /\ "dot" \in Listeners[call[k].profile]
                 => box[cid[k]].leaf \in since[k]..ca]_vars
    <2> SUFFICES ASSUME TlsInv, Next, NEW k \in Kernels, HandsOut(k),
                        "dot" \in Listeners[call[k].profile], ~UNCHANGED vars
                 PROVE  box[cid[k]].leaf \in since[k]..ca
      OBVIOUS
    <2>1. WaitAnswered(k)
      BY HandsOutAnswered DEF TlsInv
    <2>2. call[k].profile \in Profiles
      BY DEF TlsInv, TypeInv, Control, HandsOut, Waiting, StartLabels, StartCall
    <2>3. trusted[k] # 0 /\ box[cid[k]].leaf = trusted[k]
      BY <2>1, <2>2 DEF ProbesTls, WaitAnswered, ProbeReady, Answers
    <2>4. ca \in Nat /\ trusted[k] \in Nat /\ since[k] \in Nat
      BY DockerAssumption DEF TlsInv, TypeInv, TypeOK
    <2>5. QED
      BY <2>3, <2>4 DEF TlsInv, ReadSince
  <1>2. QED
    BY <1>1, InitTls, NextTls, PTL DEF Spec, HandsOutTrustedTls

-----------------------------------------------------------------------------
(* What the mapping needs beside the invariant of starts: a server runs a  *)
(* configuration, and a kernel outside a call has none at hand.            *)
ServerHasConfig == \A c \in Ids : Running(c) => box[c].config \in Configs

IdleHasNoCall == \A k \in Kernels : pc[k] = "idle" => call[k] = None

ServiceInv == StartInv /\ ServerHasConfig /\ IdleHasNoCall

(* The steps that touch the containers.                                    *)
Touches(k) == RemoveOld(k) \/ Create(k) \/ Boot(k) \/ StopRemove(k)

LEMMA OthersLeaveBox ==
  ASSUME NEW k \in Kernels, Kernel(k), ~Touches(k)
  PROVE  UNCHANGED box
  BY DEF Touches, Kernel, Start, Stop, CallStart, Render, Confhash, LookupReuse, LookupRecreate,
     WaitGone, WaitReadCa, WaitAnswered, WaitRetry, WaitFailed, Image, CreateConflict, Connect, Inspect,
     NewContainerGone, StartRaises, CallStop, Discover, DiscoverRaises, StopGet,
     StopRemoveGone, StopDone, Regen, Crash, Raise

(* What a server that was booted has loaded.                               *)
LEMMA Booted ==
  ASSUME StartInv, NEW k \in Kernels, Boot(k)
  PROVE  LET c == cid[k] IN
         /\ c \in Ids /\ Exists(c) /\ box[c] \in Container
         /\ call[k] \in StartCall
         /\ box[c].name = call[k].inst /\ box[c].confhash = call[k].config
         /\ box'[c].status = "running" /\ box'[c].config = call[k].config
         /\ box'[c].name = call[k].inst
         /\ \A d \in Ids \ {c} : box'[d] = box[d]
  <1> USE DEF StartInv, TypeInv, TypeOK
  <1>1. /\ cid[k] \in Ids /\ Exists(cid[k]) /\ box[cid[k]] \in Container
        /\ call[k] \in StartCall
    BY DEF Boot, Control, StartLabels, HoldLabels
  <1>2. Labelled(cid[k]) = Asked(k) /\ configFile[call[k].inst] = call[k].config
    BY <1>1 DEF Boot, Promise, HoldLabels
  <1>3. QED
    BY <1>1, <1>2 DEF Boot, Labelled, Asked, Container

LEMMA NextConfig ==
  ASSUME ServiceInv, [Next]_vars
  PROVE  ServerHasConfig'
  <1> USE DEF ServiceInv, ServerHasConfig, Running
  <1>0. box \in [Ids -> Container]
    BY DEF StartInv, TypeInv, TypeOK
  <1>1. CASE UNCHANGED box
    BY <1>1
  <1>2. ASSUME NEW k \in Kernels, Boot(k) PROVE ServerHasConfig'
    BY <1>2, Booted DEF StartCall
  <1>3. ASSUME NEW c \in Ids, Remove(c) PROVE ServerHasConfig'
    BY <1>0, <1>3 DEF Remove, Absent
  <1>4. ASSUME NEW k \in Kernels, RemoveOld(k) \/ Create(k) \/ StopRemove(k) PROVE ServerHasConfig'
    <2>1. CASE RemoveOld(k)
      BY <1>1, <1>3, <2>1 DEF RemoveOld, Named, Known
    <2>2. CASE Create(k)
      BY <1>0, <2>2 DEF Create, NewContainer
    <2>3. CASE StopRemove(k)
      BY <1>3, <2>3 DEF StopRemove, StartInv, TypeInv, Control, HoldLabels
    <2>4. QED
      BY <1>4, <2>1, <2>2, <2>3
  <1>5. ASSUME NEW c \in Ids, Server(c) PROVE ServerHasConfig'
    <2>1. box[c] \in Container /\ box[c].status = "running"
      BY <1>0, <1>5 DEF Server, ServerReady, ServerHangs, ServerExits, Health
    <2>2. box'[c].config = box[c].config /\ \A d \in Ids \ {c} : box'[d] = box[d]
      BY <1>0, <1>5, <2>1 DEF Server, ServerReady, ServerHangs, ServerExits, Health, Container
    <2>3. QED
      BY <2>1, <2>2
  <1>6. QED
    BY <1>1, <1>2, <1>4, <1>5, OthersLeaveBox DEF Next, Touches, vars

LEMMA NextIdle ==
  ASSUME ServiceInv, [Next]_vars
  PROVE  IdleHasNoCall'
  <1> USE DEF ServiceInv, IdleHasNoCall
  <1>0. /\ pc \in [Kernels -> Labels] /\ call \in [Kernels -> StartCall \cup StopCall \cup {None}]
        /\ TypeInv
    BY DEF StartInv, TypeInv, TypeOK
  <1>1. ASSUME NEW k \in Kernels, Kernel(k) PROVE pc'[k] = "idle" => call'[k] = None
    <2>1. CASE CallStart(k) \/ CallStop(k) \/ Regen(k) \/ Crash(k)
      BY <1>0, <2>1 DEF CallStart, CallStop, Regen, Crash, Return, locals
    <2>2. CASE Start(k)
      BY <1>0, <2>2 DEF Start, Render, Confhash, LookupReuse, LookupRecreate, WaitGone, WaitReadCa,
         WaitAnswered, WaitRetry, WaitFailed, Image, RemoveOld, Create, CreateConflict, Connect, Boot, Inspect,
         NewContainerGone, StartRaises, Waiting, Probing, Goto, Raise, Return
    <2>3. CASE Stop(k)
      BY <1>0, <2>3 DEF Stop, Discover, DiscoverRaises, StopGet, StopRemove, StopRemoveGone, StopDone,
         Goto, Raise, Return
    <2>4. QED
      BY <1>1, <2>1, <2>2, <2>3 DEF Kernel
  <1>2. ASSUME NEW k \in Kernels, Kernel(k) PROVE IdleHasNoCall'
    BY <1>0, <1>1, <1>2, Frame
  <1>3. ASSUME NEW c \in Ids, Server(c) PROVE IdleHasNoCall'
    BY <1>3, ServerFrame DEF locals
  <1>4. CASE UNCHANGED vars
    BY <1>4 DEF vars, locals
  <1>5. QED
    BY <1>2, <1>3, <1>4 DEF Next

LEMMA ServiceInvariant ==
  ASSUME OneStarter
  PROVE  Spec => []ServiceInv
  <1>1. Init => ServiceInv
    BY InitStart DEF Init, ServiceInv, ServerHasConfig, IdleHasNoCall, Running, Absent
  <1>2. ServiceInv /\ [Next]_vars => ServiceInv'
    BY NextStart, NextConfig, NextIdle DEF ServiceInv
  <1>3. QED
    BY <1>1, <1>2, PTL DEF Spec

-----------------------------------------------------------------------------
(* What steps do to the servers that clients meet.  A container that is    *)
(* not running, or stops running, takes at most its own server down.       *)
Same == serving' = serving

Down(i) == serving[i] # None /\ serving' = [serving EXCEPT ![i] = None]

LEMMA SameServers ==
  ASSUME \A c \in Ids : /\ Running(c)' = Running(c)
                        /\ Running(c) => box'[c].name = box[c].name /\ box'[c].config = box[c].config
  PROVE  Same
  <1>1. ASSUME NEW i \in Instances PROVE Up(i)' = Up(i) /\ Up(i) \subseteq {c \in Ids : Running(c)}
    BY DEF Up, Named, Known, Exists, Running
  <1>2. ASSUME NEW i \in Instances, Up(i) # {}
        PROVE  (box[CHOOSE c \in Up(i) : TRUE].config)' = box[CHOOSE c \in Up(i) : TRUE].config
    <2>1. (CHOOSE c \in Up(i) : TRUE) \in Up(i)
      BY <1>2
    <2>2. (CHOOSE c \in Up(i)' : TRUE) = CHOOSE c \in Up(i) : TRUE
      BY <1>1
    <2>3. QED
      BY <1>1, <2>1, <2>2
  <1>3. QED
    BY <1>1, <1>2 DEF Same, serving

LEMMA ServingOf ==
  ASSUME UniqueName, NEW c \in Ids, Running(c), box[c].name \in Instances
  PROVE  serving[box[c].name] = box[c].config
  <1>1. Up(box[c].name) = {c}
    BY DEF Up, Named, Known, Exists, Running, UniqueName
  <1>2. QED
    BY <1>1 DEF serving

LEMMA OneGoesDown ==
  ASSUME ServiceInv, NEW c \in Ids, Exists(c), NEW b, b.status # "running",
         box' = [box EXCEPT ![c] = b]
  PROVE  Same \/ \E i \in Instances : Down(i)
  <1>0. UniqueName /\ box \in [Ids -> Container]
    BY DEF ServiceInv, StartInv, TypeInv, TypeOK
  <1>1. CASE ~Running(c)
    BY <1>0, <1>1, SameServers DEF Running
  <1>2. CASE Running(c)
    <2>0. PICK i : i = box[c].name
      OBVIOUS
    <2>1. ASSUME NEW j \in Instances, j # i
          PROVE  Up(j)' = Up(j) /\ c \notin Up(j) /\ Up(j) \subseteq Ids
      BY <1>0, <2>0, <2>1 DEF Up, Named, Known, Exists, Running
    <2>2. ASSUME NEW j \in Instances, j # i
          PROVE  serving'[j] = serving[j]
      <3>1. CASE Up(j) = {}
        BY <2>1, <2>2, <3>1 DEF serving
      <3>2. CASE Up(j) # {}
        <4>1. (CHOOSE d \in Up(j) : TRUE) \in Up(j)
          BY <3>2
        <4>2. (CHOOSE d \in Up(j)' : TRUE) = CHOOSE d \in Up(j) : TRUE
          BY <2>1, <2>2
        <4>3. QED
          BY <1>0, <2>1, <2>2, <3>2, <4>1, <4>2 DEF serving
      <3>3. QED
        BY <3>1, <3>2
    <2>3. CASE i \in Instances
      <3>1. Up(i)' = {}
        BY <1>0, <1>2, <2>0 DEF Up, Named, Known, Exists, Running, UniqueName
      <3>2. serving'[i] = None
        BY <2>3, <3>1 DEF serving
      <3>3. serving[i] # None
        BY <1>0, <1>2, <2>0, <2>3, ServingOf, DockerAssumption DEF ServiceInv, ServerHasConfig
      <3>4. serving' = [serving EXCEPT ![i] = None]
        BY <2>2, <2>3, <3>2 DEF serving
      <3>5. QED
        BY <2>3, <3>3, <3>4 DEF Down
    <2>4. CASE i \notin Instances
      BY <2>2, <2>4 DEF Same, serving
    <2>5. QED
      BY <2>3, <2>4
  <1>3. QED
    BY <1>1, <1>2

LEMMA RemovedGoesDown ==
  ASSUME ServiceInv, NEW c \in Ids, Exists(c), Remove(c)
  PROVE  Same \/ \E i \in Instances : Down(i)
  BY OneGoesDown DEF Remove, Absent

(* A new server comes up where there was none, or it is the one that was   *)
(* there, started again with what it had loaded.                           *)
LEMMA BootComesUp ==
  ASSUME ServiceInv, NEW k \in Kernels, Boot(k)
  PROVE  \/ Same
         \/ /\ serving[call[k].inst] = None
            /\ serving' = [serving EXCEPT ![call[k].inst] = call[k].config]
  <1>a. PICK c, i, config : c = cid[k] /\ i = call[k].inst /\ config = call[k].config
    OBVIOUS
  <1>0. UniqueName /\ LabelsTellConfig /\ box \in [Ids -> Container] /\ StartInv
    BY DEF ServiceInv, StartInv, TypeInv, TypeOK
  <1>1. /\ c \in Ids /\ Exists(c) /\ i \in Instances
        /\ box[c].name = i /\ box[c].confhash = config
        /\ box'[c].status = "running" /\ box'[c].config = config /\ box'[c].name = i
        /\ \A d \in Ids \ {c} : box'[d] = box[d]
    BY <1>0, <1>a, Booted DEF StartCall
  <1>2. CASE Running(c)
    <2>1. box[c].config = config
      BY <1>0, <1>1, <1>2 DEF LabelsTellConfig, Running
    <2>2. QED
      BY <1>1, <1>2, <2>1, SameServers DEF Running
  <1>3. CASE ~Running(c)
    <2>1. Up(i) = {}
      BY <1>0, <1>1, <1>3 DEF Up, Named, Known, Exists, Running, UniqueName
    <2>2. Up(i)' = {c}
      BY <1>0, <1>1 DEF Up, Named, Known, Exists, Running, UniqueName
    <2>3. serving[i] = None /\ serving'[i] = config
      BY <1>1, <2>1, <2>2 DEF serving
    <2>4. ASSUME NEW j \in Instances, j # i
          PROVE  serving'[j] = serving[j]
      <3>1. Up(j)' = Up(j) /\ c \notin Up(j) /\ Up(j) \subseteq Ids
        BY <1>0, <1>1, <2>4 DEF Up, Named, Known, Exists, Running
      <3>2. CASE Up(j) = {}
        BY <2>4, <3>1, <3>2 DEF serving
      <3>3. CASE Up(j) # {}
        <4>1. (CHOOSE d \in Up(j) : TRUE) \in Up(j)
          BY <3>3
        <4>2. (CHOOSE d \in Up(j)' : TRUE) = CHOOSE d \in Up(j) : TRUE
          BY <3>1
        <4>3. QED
          BY <1>1, <2>4, <3>1, <3>3, <4>1, <4>2 DEF serving
      <3>4. QED
        BY <3>2, <3>3
    <2>5. serving' = [serving EXCEPT ![i] = config]
      BY <1>1, <2>3, <2>4 DEF serving
    <2>6. QED
      BY <1>a, <2>3, <2>5
  <1>4. QED
    BY <1>2, <1>3

-----------------------------------------------------------------------------
(* Steps of the service.                                                   *)
ServiceStep == [Lab!Next]_(Lab!vars)

LEMMA QuietStep ==
  ASSUME Same, UNCHANGED <<call, result>>
  PROVE  ServiceStep
  BY DEF Same, ServiceStep, Lab!vars, asked, reply

LEMMA DownStep ==
  ASSUME UNCHANGED <<call, result>>, NEW i \in Instances, Down(i)
  PROVE  ServiceStep
  <1>1. Lab!GoDown(i)
    BY DEF Lab!GoDown, Down, asked, reply
  <1>2. QED
    BY <1>1 DEF ServiceStep, Lab!Next

(* What the service remembers of the other kernels.                        *)
LEMMA OthersRemembered ==
  ASSUME TypeInv, NEW k \in Kernels, Kernel(k)
  PROVE  /\ asked' = [asked EXCEPT ![k] = asked'[k]]
         /\ reply' = [reply EXCEPT ![k] = reply'[k]]
  <1>1. ASSUME NEW j \in Kernels, j # k
        PROVE  asked'[j] = asked[j] /\ reply'[j] = reply[j]
    BY <1>1, Frame DEF asked, reply
  <1>2. /\ asked = [j \in Kernels |-> asked[j]] /\ asked' = [j \in Kernels |-> asked'[j]]
        /\ reply = [j \in Kernels |-> reply[j]] /\ reply' = [j \in Kernels |-> reply'[j]]
    BY DEF asked, reply
  <1>3. QED
    BY <1>1, <1>2

LEMMA AskedWhat ==
  ASSUME NEW k \in Kernels
  PROVE  /\ call[k] \in StartCall => /\ asked[k] = [inst |-> call[k].inst, config |-> call[k].config]
                                     /\ asked[k] # None
         /\ call[k] \in StopCall \cup {None} => asked[k] = None
  BY ServiceAssumption DEF asked, StartCall, StopCall

(* A call that ends without handing out a server.                          *)
LEMMA ReturnStep ==
  ASSUME ServiceInv, NEW k \in Kernels, Kernel(k), Same, pc[k] # "idle",
         NEW o, o \notin {"running", "reused"}, Return(k, o)
  PROVE  ServiceStep
  <1>0. TypeInv /\ call \in [Kernels -> StartCall \cup StopCall \cup {None}]
        /\ result \in [Kernels -> Outcomes] /\ pc \in [Kernels -> Labels]
    BY DEF ServiceInv, StartInv, TypeInv, TypeOK, Outcomes
  <1>1. call[k] \in StartCall \cup StopCall /\ result[k] = "none"
    BY <1>0 DEF TypeInv, Control, Labels, StartLabels, StopLabels
  <1>2. asked'[k] = None /\ reply'[k] = "none" /\ reply[k] = "none"
    BY <1>0, <1>1 DEF Return, asked, reply
  <1>3. reply' = reply
    BY <1>0, <1>2, OthersRemembered DEF reply
  <1>4. asked' = [asked EXCEPT ![k] = None]
    BY <1>0, <1>2, OthersRemembered
  <1>5. CASE call[k] \in StartCall
    <2>1. Lab!GiveUp(k)
      BY <1>3, <1>4, <1>5, AskedWhat DEF Lab!GiveUp, Same
    <2>2. QED
      BY <2>1 DEF ServiceStep, Lab!Next
  <1>6. CASE call[k] \in StopCall
    <2>1. asked' = asked
      BY <1>4, <1>6, AskedWhat DEF asked
    <2>2. QED
      BY <1>3, <2>1 DEF ServiceStep, Lab!vars, Same
  <1>7. QED
    BY <1>1, <1>5, <1>6

LEMMA CallStep ==
  ASSUME ServiceInv, NEW k \in Kernels, CallStart(k) \/ CallStop(k)
  PROVE  ServiceStep
  <1>0. TypeInv /\ call \in [Kernels -> StartCall \cup StopCall \cup {None}]
        /\ result \in [Kernels -> Outcomes] /\ pc \in [Kernels -> Labels] /\ Kernel(k)
    BY DEF ServiceInv, StartInv, TypeInv, TypeOK, Outcomes, Kernel
  <1>1. call[k] = None /\ UNCHANGED box /\ result'[k] = "none"
    BY <1>0 DEF CallStart, CallStop, ServiceInv, IdleHasNoCall
  <1>2. Same /\ asked[k] = None /\ reply'[k] = "none"
    BY <1>1, SameServers, AskedWhat DEF Running, reply
  <1>3. reply' = [reply EXCEPT ![k] = "none"]
    BY <1>0, <1>2, OthersRemembered
  <1>4. CASE CallStart(k)
    <2>1. PICK c \in StartCall : call'[k] = c
      BY <1>0, <1>4 DEF CallStart
    <2>2. asked'[k] = [inst |-> c.inst, config |-> c.config]
      BY <2>1, ServiceAssumption DEF asked, StartCall
    <2>3. [inst |-> c.inst, config |-> c.config] \in Lab!Request
      BY <2>1 DEF Lab!Request, StartCall
    <2>4. Lab!Ask(k)
      BY <1>0, <1>2, <1>3, <2>2, <2>3, OthersRemembered DEF Lab!Ask, Same
    <2>5. QED
      BY <2>4 DEF ServiceStep, Lab!Next
  <1>5. CASE CallStop(k)
    <2>1. asked'[k] = None
      BY <1>0, <1>5 DEF CallStop, asked
    <2>2. asked' = asked
      <3>1. asked' = [asked EXCEPT ![k] = None]
        BY <1>0, <2>1, OthersRemembered
      <3>2. QED
        BY <1>2, <3>1 DEF asked
    <2>3. Lab!Forget(k)
      BY <1>2, <1>3, <2>2 DEF Lab!Forget, Same
    <2>4. QED
      BY <2>3 DEF ServiceStep, Lab!Next
  <1>6. QED
    BY <1>4, <1>5

(* A server that answered is handed out: it serves what was asked.         *)
LEMMA DeliverStep ==
  ASSUME ServiceInv, NEW k \in Kernels, WaitAnswered(k)
  PROVE  ServiceStep
  <1>0. TypeInv /\ call \in [Kernels -> StartCall \cup StopCall \cup {None}]
        /\ result \in [Kernels -> Outcomes] /\ pc \in [Kernels -> Labels] /\ Kernel(k)
        /\ StartInv /\ UniqueName
    BY DEF ServiceInv, StartInv, TypeInv, TypeOK, Outcomes, Kernel, Start
  <1>1. /\ cid[k] \in Ids /\ Running(cid[k]) /\ call[k] \in StartCall
        /\ pc[k] \in {"reuse_wait", "wait"}
    BY <1>0 DEF WaitAnswered, Answers, Probing, Waiting, TypeInv, Control, HoldLabels, StartLabels
  <1>2. Labelled(cid[k]) = Asked(k)
    BY <1>0, <1>1 DEF StartInv, Promise, HoldLabels, Exists, Running
  <1>3. box[cid[k]].name = call[k].inst /\ box[cid[k]].config = call[k].config
    BY <1>0, <1>1, <1>2 DEF StartInv, LabelsTellConfig, Labelled, Asked, Running
  <1>4. serving[call[k].inst] = call[k].config
    BY <1>0, <1>1, <1>3, ServingOf DEF StartCall
  <1>5. /\ UNCHANGED box /\ call'[k] = None /\ result'[k] \in {"running", "reused"}
    BY <1>0 DEF WaitAnswered, Return
  <1>6. Same /\ asked'[k] = None /\ reply'[k] = "served"
    BY <1>5, SameServers DEF Running, asked, reply
  <1>7. asked' = [asked EXCEPT ![k] = None] /\ reply' = [reply EXCEPT ![k] = "served"]
    BY <1>0, <1>6, OthersRemembered
  <1>8. Lab!Deliver(k)
    <2>1. asked[k] # None /\ asked[k] = [inst |-> call[k].inst, config |-> call[k].config]
      BY <1>1, AskedWhat
    <2>2. serving[asked[k].inst] = asked[k].config
      BY <1>4, <2>1
    <2>3. QED
      BY <1>6, <1>7, <2>1, <2>2 DEF Lab!Deliver, Same
  <1>9. QED
    BY <1>8 DEF ServiceStep, Lab!Next

LEMMA BootStep ==
  ASSUME ServiceInv, NEW k \in Kernels, Boot(k)
  PROVE  ServiceStep
  <1>1. UNCHANGED <<call, result>>
    BY DEF Boot, Goto, locals
  <1>2. CASE Same
    BY <1>1, <1>2, QuietStep
  <1>3. CASE ~Same
    <2>1. call[k] \in StartCall
      BY DEF ServiceInv, StartInv, TypeInv, Control, Boot, StartLabels
    <2>2. Lab!ComeUp(k)
      BY <1>1, <1>3, <2>1, BootComesUp, AskedWhat DEF Lab!ComeUp, asked, reply
    <2>3. QED
      BY <2>2 DEF ServiceStep, Lab!Next
  <1>4. QED
    BY <1>2, <1>3

LEMMA TouchStep ==
  ASSUME ServiceInv, NEW k \in Kernels, Touches(k)
  PROVE  ServiceStep
  <1>0. box \in [Ids -> Container]
    BY DEF ServiceInv, StartInv, TypeInv, TypeOK
  <1>1. CASE Boot(k)
    BY <1>1, BootStep
  <1>2. CASE Create(k)
    BY <1>0, <1>2, SameServers, QuietStep DEF Create, Goto, NewContainer, Running
  <1>3. CASE RemoveOld(k)
    <2>1. UNCHANGED <<call, result>>
      BY <1>3 DEF RemoveOld, Goto, locals
    <2>2. CASE UNCHANGED box
      BY <2>1, <2>2, SameServers, QuietStep DEF Running
    <2>3. CASE \E c \in Named(call[k].inst) : Remove(c)
      BY <2>1, <2>3, RemovedGoesDown, QuietStep, DownStep DEF Named, Known
    <2>4. QED
      BY <1>3, <2>2, <2>3 DEF RemoveOld
  <1>4. CASE StopRemove(k)
    <2>1. UNCHANGED <<call, result>> /\ cid[k] \in Ids
      BY <1>4 DEF StopRemove, Goto, ServiceInv, StartInv, TypeInv, Control, HoldLabels
    <2>2. QED
      BY <1>4, <2>1, RemovedGoesDown, QuietStep, DownStep DEF StopRemove
  <1>5. QED
    BY <1>1, <1>2, <1>3, <1>4 DEF Touches

(* All other steps leave the containers alone.                             *)
LEMMA KernelStep ==
  ASSUME ServiceInv, NEW k \in Kernels, Kernel(k), ~Touches(k)
  PROVE  ServiceStep
  <1>1. UNCHANGED box
    BY OthersLeaveBox
  <1>2. Same
    BY <1>1, SameServers DEF Running
  <1>3. ASSUME pc[k] # "idle", Raise(k) PROVE ServiceStep
    BY <1>2, <1>3, ReturnStep DEF Raise
  <1>4. CASE CallStart(k) \/ CallStop(k)
    BY <1>4, CallStep
  <1>5. CASE Regen(k)
    BY <1>2, <1>5, QuietStep DEF Regen, locals
  <1>6. CASE Crash(k)
    BY <1>2, <1>6, ReturnStep DEF Crash
  <1>7. CASE Start(k)
    <2>1. CASE WaitAnswered(k)
      BY <2>1, DeliverStep
    <2>2. CASE Render(k) \/ Confhash(k) \/ LookupReuse(k) \/ LookupRecreate(k)
               \/ WaitReadCa(k) \/ WaitRetry(k) \/ Image(k) \/ Connect(k)
      BY <1>2, <2>2, QuietStep DEF Render, Confhash, LookupReuse, LookupRecreate, WaitReadCa, WaitRetry, Image,
         Connect, Goto, locals
    <2>3. CASE WaitGone(k) \/ CreateConflict(k) \/ NewContainerGone(k) \/ StartRaises(k)
      BY <1>3, <2>3 DEF WaitGone, Waiting, CreateConflict, NewContainerGone, StartRaises
    <2>4. CASE WaitFailed(k)
      <3>1. CASE pc[k] = "wait"
        BY <1>3, <2>4, <3>1 DEF WaitFailed
      <3>2. CASE pc[k] # "wait"
        BY <1>2, <2>4, <3>2, QuietStep DEF WaitFailed, Goto
      <3>3. QED
        BY <3>1, <3>2
    <2>5. CASE Inspect(k)
      <3>1. CASE call[k].wait
        BY <1>2, <2>5, <3>1, QuietStep DEF Inspect, Goto
      <3>2. CASE ~call[k].wait
        BY <1>2, <2>5, <3>2, ReturnStep DEF Inspect
      <3>3. QED
        BY <3>1, <3>2
    <2>6. QED
      BY <1>7, <2>1, <2>2, <2>3, <2>4, <2>5 DEF Start, Touches
  <1>8. CASE Stop(k)
    <2>1. CASE Discover(k) \/ StopGet(k)
      BY <1>2, <2>1, QuietStep DEF Discover, StopGet, Goto
    <2>2. CASE DiscoverRaises(k) \/ StopRemoveGone(k)
      BY <1>3, <2>2 DEF DiscoverRaises, StopRemoveGone
    <2>3. CASE StopDone(k)
      BY <1>2, <2>3, ReturnStep DEF StopDone
    <2>4. QED
      BY <1>8, <2>1, <2>2, <2>3 DEF Stop, Touches
  <1>9. QED
    BY <1>4, <1>5, <1>6, <1>7, <1>8 DEF Kernel

LEMMA ServerStep ==
  ASSUME ServiceInv, NEW c \in Ids, Server(c)
  PROVE  ServiceStep
  <1>0. box \in [Ids -> Container] /\ UNCHANGED <<call, result>>
    BY ServerFrame DEF ServiceInv, StartInv, TypeInv, TypeOK, locals
  <1>1. CASE ServerReady(c) \/ ServerHangs(c)
    <2>1. /\ \A d \in Ids \ {c} : box'[d] = box[d]
          /\ box[c] \in Container
          /\ Running(c) /\ box'[c].status = "running"
          /\ box'[c].name = box[c].name /\ box'[c].config = box[c].config
      BY <1>0, <1>1 DEF ServerReady, ServerHangs, Health, Running, Container
    <2>2. QED
      BY <1>0, <2>1, SameServers, QuietStep DEF Running
  <1>2. CASE ServerExits(c)
    <2>1. PICK b : b.status # "running" /\ box' = [box EXCEPT ![c] = b]
      <3>1. [box[c] EXCEPT !.status = "exited"].status # "running"
        BY <1>0 DEF Container
      <3>2. box' = [box EXCEPT ![c] = [box[c] EXCEPT !.status = "exited"]]
        BY <1>2 DEF ServerExits
      <3>3. QED
        BY <3>1, <3>2
    <2>2. Exists(c)
      BY <1>2 DEF ServerExits, Running, Exists
    <2>3. QED
      BY <1>0, <2>1, <2>2, OneGoesDown, QuietStep, DownStep
  <1>3. QED
    BY <1>1, <1>2 DEF Server

LEMMA EveryStep ==
  ASSUME ServiceInv, [Next]_vars
  PROVE  ServiceStep
  <1>1. CASE UNCHANGED vars
    BY <1>1, SameServers, QuietStep DEF vars, locals, Running
  <1>2. CASE Next
    BY <1>2, TouchStep, KernelStep, ServerStep DEF Next
  <1>3. QED
    BY <1>1, <1>2

LEMMA FirstState == Init => Lab!Init
  <1> SUFFICES ASSUME Init PROVE Lab!Init
    OBVIOUS
  <1>1. \A i \in Instances : Up(i) = {}
    BY DEF Init, Up, Named, Known, Exists, Absent
  <1>2. QED
    BY <1>1 DEF Init, Lab!Init, serving, asked, reply

(* With one starter per instance, whatever the provider does with          *)
(* containers, files and labels, and whoever stops or crashes, a client    *)
(* sees the service that the docstring of start() promises.                *)
THEOREM ProviderImplementsService ==
  ASSUME OneStarter
  PROVE  Spec => ImplementsLabService
  <1>1. ServiceInv /\ [Next]_vars => [Lab!Next]_(Lab!vars)
    BY EveryStep DEF ServiceStep
  <1>2. QED
    BY <1>1, FirstState, ServiceInvariant, PTL DEF Spec, ImplementsLabService, Lab!Spec
=============================================================================
