-------------------------- MODULE Ec2Provider_proofs --------------------------
(***************************************************************************)
(* What holds of the EC2 provider for any number of names, instances,      *)
(* groups and addresses: types, and what a nuke leaves of what it found,   *)
(* whatever the kernels do at the same time, and with one kernel that no   *)
(* name is paid for twice.                                                 *)
(***************************************************************************)
EXTENDS Ec2Provider, TLAPS

Results == {"none", "ok", "reused", "running", "no_address", "unavailable", "error", "crashed"}

(* An instance that was launched has a name and a group.                   *)
Born == \A b \in Ids : box[b].state # "unborn" => box[b].name \in Names /\ box[b].sg \in Groups

(* Where a call goes on, it has at hand what it goes on with.              *)
AtHand(l, m) ==
    /\ l \in {"ingress", "role", "attach", "profile", "add_role", "run", "await_running"} =>
          m.sg \in Groups
    /\ l = "ingress" => m.via \in Addrs
    /\ l \in {"await_stopped", "resume", "await_resumed", "await_running"} => m.match \in Ids
    /\ l \in {"authorize", "reuse_wait", "wait", "delete_sg"} => m.cur \in Ref
    /\ l \in {"load", "save"} /\ m.ret \in {"wait", "delete_sg"} => m.cur \in Ref
    /\ l \in {"known", "describe"} => m.ret \in {"done", "reuse", "select"}

(* What was found was launched.                                            *)
Found(m) == \A r \in m.found : box[r.id].state # "unborn"

TypeInv == TypeOK /\ Born /\ \A k \in Kernels : AtHand(pc[k], mem[k]) /\ Found(mem[k])

-----------------------------------------------------------------------------
(* Types.                                                                  *)

LEMMA NoMemTypes ==
  /\ NoFile \in [Names -> Groups \cup {None}]
  /\ NoRef \in Ref \cup {NoRef}
  /\ NoMem \in Mem /\ NoMem.found = {} /\ NoMem.ret = "done"
  /\ NoCall \in Call
  BY DEF NoFile, NoMem, Mem, NoCall, Call, Ops

(* Instances that were launched stay so.                                   *)
Grows == \A b \in Ids : box[b].state # "unborn" => (box[b].state # "unborn")'

(* A step of kernel k keeps the types if it keeps those of its locals.     *)
LEMMA Frame ==
  ASSUME TypeInv, NEW k \in Kernels,
         pc' = [pc EXCEPT ![k] = pc'[k]], pc'[k] \in Labels,
         call' = [call EXCEPT ![k] = call'[k]], call'[k] \in Call,
         mem' = [mem EXCEPT ![k] = mem'[k]], mem'[k] \in Mem,
         result' = [result EXCEPT ![k] = result'[k]], result'[k] \in Results,
         box' \in [Ids -> Box], Born', Grows,
         group' \in [Groups -> Group], iam' \subseteq IamParts, addr' \in Addrs,
         file' \in [Names -> Groups \cup {None}],
         AtHand(pc'[k], mem'[k]), Found(mem[k])'
  PROVE  TypeInv'
  <1>1. TypeOK'
    BY DEF TypeInv, TypeOK, Results
  <1>2. ASSUME NEW j \in Kernels PROVE AtHand(pc[j], mem[j])' /\ Found(mem[j])'
    <2>1. CASE j = k
      BY <2>1 DEF AtHand
    <2>2. CASE j # k
      <3>1. pc'[j] = pc[j] /\ mem'[j] = mem[j]
        BY <2>2 DEF TypeInv, TypeOK
      <3>2. AtHand(pc[j], mem[j]) /\ \A r \in mem[j].found : box[r.id].state # "unborn" /\ r.id \in Ids
        BY DEF TypeInv, TypeOK, Found, Mem, Ref
      <3>3. QED
        BY <3>1, <3>2 DEF AtHand, Found, Grows
    <2>3. QED
      BY <2>1, <2>2
  <1>3. QED
    BY <1>1, <1>2 DEF TypeInv

(* Most steps leave AWS alone.                                             *)
LEMMA FrameLocal ==
  ASSUME TypeInv, NEW k \in Kernels, UNCHANGED <<aws, addr>>,
         file' \in [Names -> Groups \cup {None}],
         pc' = [pc EXCEPT ![k] = pc'[k]], pc'[k] \in Labels,
         call' = [call EXCEPT ![k] = call'[k]], call'[k] \in Call,
         mem' = [mem EXCEPT ![k] = mem'[k]], mem'[k] \in Mem,
         result' = [result EXCEPT ![k] = result'[k]], result'[k] \in Results,
         AtHand(pc'[k], mem'[k]),
         \A r \in mem'[k].found : box[r.id].state # "unborn"
  PROVE  TypeInv'
  <1>1. box' \in [Ids -> Box] /\ Born' /\ Grows /\ Found(mem[k])'
    BY DEF TypeInv, TypeOK, aws, Born, Grows, Found
  <1>2. group' \in [Groups -> Group] /\ iam' \subseteq IamParts /\ addr' \in Addrs
    BY DEF TypeInv, TypeOK, aws
  <1>3. QED
    BY <1>1, <1>2, Frame

(* The helpers of a call.                                                  *)
LEMMA GotoFrame ==
  ASSUME TypeInv, NEW k \in Kernels, NEW l, Goto(k, l)
  PROVE  /\ pc' = [pc EXCEPT ![k] = pc'[k]] /\ pc'[k] = l
         /\ call' = [call EXCEPT ![k] = call'[k]] /\ call'[k] = call[k] /\ call'[k] \in Call
         /\ result' = [result EXCEPT ![k] = result'[k]] /\ result'[k] \in Results
  BY DEF TypeInv, TypeOK, Goto, Results

LEMMA StepFrame ==
  ASSUME TypeInv, NEW k \in Kernels, NEW l \in Labels, Goto(k, l), UNCHANGED <<aws, addr>>,
         file' \in [Names -> Groups \cup {None}],
         mem' = [mem EXCEPT ![k] = mem'[k]], mem'[k] \in Mem, AtHand(l, mem'[k]),
         \A r \in mem'[k].found : box[r.id].state # "unborn"
  PROVE  TypeInv'
  BY GotoFrame, FrameLocal

(* The fields that steps change together.                                  *)
DescribedAs(n, m, refs, drop) == n = [m EXCEPT !.found = refs, !.put = refs, !.drop = drop]
ReadyAs(n, m, put)            == n = [m EXCEPT !.put = put, !.ret = "done"]
RunningAs(n, m, cur)          == n = [m EXCEPT !.cur = cur, !.put = {cur}, !.ret = "wait", !.match = None]
TerminatedAs(n, m, cur, refs, drop) ==
    n = [m EXCEPT !.cur = cur, !.found = refs, !.drop = drop, !.ret = "delete_sg"]

LEMMA MemDescribed ==
  ASSUME NEW m \in Mem, NEW refs \in SUBSET Ref, NEW drop \in SUBSET Names, NEW n, DescribedAs(n, m, refs, drop)
  PROVE  n \in Mem /\ n.found = refs /\ n.ret = m.ret
  <1>1. n \in Mem
    BY DEF Mem, DescribedAs
  <1>2. n.found = refs
    BY DEF Mem, DescribedAs
  <1>3. n.ret = m.ret
    BY DEF Mem, DescribedAs
  <1>4. QED
    BY <1>1, <1>2, <1>3

LEMMA MemReady ==
  ASSUME NEW m \in Mem, NEW put \in SUBSET Ref, NEW n, ReadyAs(n, m, put)
  PROVE  n \in Mem /\ n.found = m.found /\ n.ret = "done"
  <1>1. n \in Mem
    BY DEF Mem, ReadyAs
  <1>2. n.found = m.found
    BY DEF Mem, ReadyAs
  <1>3. n.ret = "done"
    BY DEF Mem, ReadyAs
  <1>4. QED
    BY <1>1, <1>2, <1>3

LEMMA MemRunning ==
  ASSUME NEW m \in Mem, NEW cur \in Ref, NEW n, RunningAs(n, m, cur)
  PROVE  n \in Mem /\ n.found = m.found /\ n.cur = cur
  <1>1. n \in Mem
    BY DEF Mem, RunningAs
  <1>2. n.found = m.found
    BY DEF Mem, RunningAs
  <1>3. n.cur = cur
    BY DEF Mem, RunningAs
  <1>4. QED
    BY <1>1, <1>2, <1>3

LEMMA MemTerminated ==
  ASSUME NEW m \in Mem, NEW cur \in Ref, NEW refs \in SUBSET Ref,
         NEW drop \in SUBSET Names, NEW n, TerminatedAs(n, m, cur, refs, drop)
  PROVE  n \in Mem /\ n.found = refs /\ n.cur = cur /\ n.ret = "delete_sg"
  <1>1. n \in Mem
    BY DEF Mem, TerminatedAs
  <1>2. n.found = refs
    BY DEF Mem, TerminatedAs
  <1>3. n.cur = cur
    BY DEF Mem, TerminatedAs
  <1>4. n.ret = "delete_sg"
    BY DEF Mem, TerminatedAs
  <1>5. QED
    BY <1>1, <1>2, <1>3, <1>4

LEMMA ReturnFrame ==
  ASSUME TypeInv, NEW k \in Kernels, NEW r \in Results, Return(k, r), UNCHANGED <<aws, addr>>,
         file' \in [Names -> Groups \cup {None}]
  PROVE  TypeInv'
  <1>1. /\ pc' = [pc EXCEPT ![k] = pc'[k]] /\ pc'[k] = "idle"
        /\ call' = [call EXCEPT ![k] = call'[k]] /\ call'[k] = NoCall
        /\ mem' = [mem EXCEPT ![k] = mem'[k]] /\ mem'[k] = NoMem
        /\ result' = [result EXCEPT ![k] = result'[k]] /\ result'[k] = r
    BY DEF TypeInv, TypeOK, Return
  <1>2. "idle" \in Labels /\ AtHand("idle", NoMem)
    BY DEF Labels, AtHand
  <1>3. QED
    BY <1>1, <1>2, NoMemTypes, FrameLocal

LEMMA EnterFrame ==
  ASSUME TypeInv, NEW k \in Kernels, NEW c \in Call, NEW l \in Labels, NEW m \in Mem, Enter(k, c, l, m),
         AtHand(l, m), \A r \in m.found : box[r.id].state # "unborn"
  PROVE  TypeInv'
  <1>1. /\ pc' = [pc EXCEPT ![k] = pc'[k]] /\ pc'[k] = l
        /\ call' = [call EXCEPT ![k] = call'[k]] /\ call'[k] = c
        /\ mem' = [mem EXCEPT ![k] = mem'[k]] /\ mem'[k] = m
        /\ result' = [result EXCEPT ![k] = result'[k]] /\ result'[k] = "none"
        /\ UNCHANGED <<aws, file, addr>>
    BY DEF TypeInv, TypeOK, Enter
  <1>2. file' \in [Names -> Groups \cup {None}] /\ "none" \in Results
    BY <1>1 DEF TypeInv, TypeOK, Results
  <1>3. QED
    BY <1>1, <1>2, FrameLocal

(* An active instance has a name and a group.                              *)
LEMMA ActiveRefs ==
  ASSUME TypeInv, NEW b \in Ids, Active(b)
  PROVE  /\ box[b].state # "unborn" /\ box[b].name \in Names
         /\ box[b].sg \in Groups /\ box[b].ip \in BOOLEAN
  <1>1. box[b] \in Box /\ box[b].state # "unborn"
    BY DEF TypeInv, TypeOK, Active, ActiveStates
  <1>2. QED
    BY <1>1 DEF TypeInv, Born, Box

LEMMA CallTypes ==
  ASSUME TypeInv, NEW k \in Kernels, CallStart(k) \/ CallStop(k) \/ CallStatus(k) \/ CallNuke(k)
  PROVE  TypeInv'
  <1>1. /\ [NoMem EXCEPT !.ret = "select"] \in Mem /\ [NoMem EXCEPT !.ret = "select"].found = {}
        /\ [NoMem EXCEPT !.ret = "select"].ret = "select"
    BY NoMemTypes DEF NoMem, Mem
  <1>2. \A l \in {"known", "match"}, m \in Mem :
          m.ret \in {"done", "select"} => l \in Labels /\ AtHand(l, m)
    BY DEF AtHand, Labels
  <1>3. CASE CallStart(k)
    <2>1. PICK n \in Names, c \in Confs, w \in BOOLEAN, f \in BOOLEAN :
            Enter(k, [op |-> "start", names |-> {n}, conf |-> c, wait |-> w, force |-> f],
                  IF f THEN "known" ELSE "match", [NoMem EXCEPT !.ret = "select"])
      BY <1>3 DEF CallStart
    <2>2. [op |-> "start", names |-> {n}, conf |-> c, wait |-> w, force |-> f] \in Call
      BY DEF Call, Ops
    <2>3. (IF f THEN "known" ELSE "match") \in {"known", "match"}
      OBVIOUS
    <2>4. QED
      BY <1>1, <1>2, <2>1, <2>2, <2>3, EnterFrame
  <1>4. CASE CallStop(k)
    <2>1. PICK ns \in SUBSET Names : Enter(k, [NoCall EXCEPT !.op = "stop", !.names = ns], "known",
                                           [NoMem EXCEPT !.ret = "select"])
      BY <1>4 DEF CallStop
    <2>2. [NoCall EXCEPT !.op = "stop", !.names = ns] \in Call
      BY DEF NoCall, Call, Ops
    <2>3. QED
      BY <1>1, <1>2, <2>1, <2>2, EnterFrame
  <1>5. CASE CallStatus(k)
    BY <1>2, <1>5, NoMemTypes, EnterFrame DEF CallStatus
  <1>6. CASE CallNuke(k)
    <2> DEFINE refs == {[id |-> b, sg |-> box[b].sg, ip |-> box[b].ip] : b \in {b \in Ids : Active(b)}}
               m    == [NoMem EXCEPT !.found = refs]
    <2>1. refs \subseteq Ref /\ \A r \in refs : box[r.id].state # "unborn"
      BY ActiveRefs DEF Ref
    <2>2. m \in Mem /\ m.found = refs
      BY <2>1, NoMemTypes DEF NoMem, Mem
    <2>3. [NoCall EXCEPT !.op = "nuke"] \in Call
      BY DEF NoCall, Call, Ops
    <2>4. "nuke_terminate" \in Labels /\ AtHand("nuke_terminate", m)
      BY DEF Labels, AtHand
    <2>5. Enter(k, [NoCall EXCEPT !.op = "nuke"], "nuke_terminate", m)
      BY <1>6 DEF CallNuke
    <2>6. QED
      BY <2>1, <2>2, <2>3, <2>4, <2>5, EnterFrame
  <1>7. QED
    BY <1>3, <1>4, <1>5, <1>6

LEMMA FileTypes ==
  ASSUME TypeInv, NEW k \in Kernels,
         LoadState(k) \/ SaveForget(k) \/ SaveRemember(k) \/ SaveDone(k) \/ LoadKnown(k)
  PROVE  TypeInv'
  <1> USE DEF Labels
  <1>0. /\ mem[k] \in Mem /\ AtHand(pc[k], mem[k]) /\ Found(mem[k])
        /\ file \in [Names -> Groups \cup {None}]
    BY DEF TypeInv, TypeOK
  <1>1. CASE LoadState(k) \/ LoadKnown(k)
    <2>1. PICK f \in Loads(k) : mem' = [mem EXCEPT ![k].st = f]
      BY <1>1 DEF LoadState, LoadKnown
    <2>2. f \in [Names -> Groups \cup {None}]
      BY <1>0, NoMemTypes DEF Loads
    <2>3. mem' = [mem EXCEPT ![k] = mem'[k]] /\ mem'[k] = [mem[k] EXCEPT !.st = f]
      BY <2>1 DEF TypeInv, TypeOK
    <2>4. mem'[k] \in Mem /\ mem'[k].ret = mem[k].ret /\ mem'[k].cur = mem[k].cur /\ mem'[k].found = mem[k].found
      BY <1>0, <2>2, <2>3 DEF Mem
    <2>5. CASE LoadState(k)
      <3>1. Goto(k, "save") /\ UNCHANGED <<aws, file, addr>> /\ pc[k] = "load"
        BY <2>5 DEF LoadState
      <3>2. AtHand("save", mem'[k])
        BY <1>0, <2>4, <3>1 DEF AtHand
      <3>3. QED
        BY <1>0, <2>3, <2>4, <3>1, <3>2, StepFrame DEF Found
    <2>6. CASE LoadKnown(k)
      <3>1. Goto(k, "describe") /\ UNCHANGED <<aws, file, addr>> /\ pc[k] = "known"
        BY <2>6 DEF LoadKnown
      <3>2. AtHand("describe", mem'[k])
        BY <1>0, <2>4, <3>1 DEF AtHand
      <3>3. QED
        BY <1>0, <2>3, <2>4, <3>1, <3>2, StepFrame DEF Found
    <2>7. QED
      BY <1>1, <2>5, <2>6
  <1>2. CASE SaveForget(k) \/ SaveRemember(k)
    <2>1. /\ Goto(k, "load") /\ UNCHANGED <<aws, addr>> /\ pc[k] = "save"
      BY <1>2 DEF SaveForget, SaveRemember
    <2>2. mem' = [mem EXCEPT ![k] = mem'[k]] /\ file' \in [Names -> Groups \cup {None}] /\ mem'[k] \in Mem
          /\ mem'[k].ret = mem[k].ret /\ mem'[k].cur = mem[k].cur /\ mem'[k].found = mem[k].found
      <3>1. CASE SaveForget(k)
        <4>1. mem' = [mem EXCEPT ![k].drop = {}]
              /\ file' = [n \in Names |-> IF n \in mem[k].drop THEN None ELSE mem[k].st[n]]
          BY <3>1 DEF SaveForget
        <4>2. mem' = [mem EXCEPT ![k] = mem'[k]] /\ mem'[k] = [mem[k] EXCEPT !.drop = {}]
          BY <4>1 DEF TypeInv, TypeOK
        <4>3. file' \in [Names -> Groups \cup {None}]
          BY <1>0, <4>1 DEF Mem
        <4>4. QED
          BY <1>0, <4>2, <4>3 DEF Mem
      <3>2. CASE SaveRemember(k)
        <4>1. PICK r \in mem[k].put : /\ file' = [mem[k].st EXCEPT ![box[r.id].name] = r.sg]
                                      /\ mem' = [mem EXCEPT ![k].put = @ \ {r}]
          BY <3>2 DEF SaveRemember
        <4>2. mem' = [mem EXCEPT ![k] = mem'[k]] /\ mem'[k] = [mem[k] EXCEPT !.put = @ \ {r}]
          BY <4>1 DEF TypeInv, TypeOK
        <4>3. r \in Ref /\ mem[k].st \in [Names -> Groups \cup {None}]
          BY <1>0 DEF Mem
        <4>4. r.sg \in Groups
          BY <4>3 DEF Ref
        <4>5. file' \in [Names -> Groups \cup {None}]
          BY <4>1, <4>3, <4>4
        <4>6. QED
          BY <1>0, <4>2, <4>5 DEF Mem
      <3>3. QED
        BY <1>2, <3>1, <3>2
    <2>3. AtHand("load", mem'[k])
      BY <1>0, <2>1, <2>2 DEF AtHand
    <2>4. QED
      BY <1>0, <2>1, <2>2, <2>3, StepFrame DEF Found
  <1>3. CASE SaveDone(k)
    <2>1. Goto(k, mem[k].ret) /\ UNCHANGED <<aws, file, addr, mem>> /\ pc[k] = "load"
      BY <1>3 DEF SaveDone
    <2>2. mem[k].ret \in {"done", "reuse", "select", "delete_sg", "wait"}
      BY <1>0 DEF Mem
    <2>3. AtHand(mem[k].ret, mem[k]) /\ mem[k].ret \in Labels
      BY <1>0, <2>1, <2>2 DEF AtHand
    <2>4. mem' = [mem EXCEPT ![k] = mem'[k]]
      BY <2>1 DEF TypeInv, TypeOK
    <2>5. QED
      BY <1>0, <2>1, <2>3, <2>4, StepFrame DEF Found
  <1>4. QED
    BY <1>1, <1>2, <1>3

(* discover(): what is described is active.                                *)
LEMMA DescribeTypes ==
  ASSUME TypeInv, NEW k \in Kernels, Describe(k)
  PROVE  TypeInv'
  <1> DEFINE refs == {[id |-> b, sg |-> SgOf(k, b), ip |-> box[b].ip] : b \in {b \in Ids : Active(b)}}
  <1>1. mem[k] \in Mem /\ mem[k].st \in [Names -> Groups \cup {None}]
    BY DEF TypeInv, TypeOK, Mem
  <1>2. ASSUME NEW b \in Ids, Active(b) PROVE SgOf(k, b) \in Groups
    BY <1>1, <1>2, ActiveRefs DEF SgOf
  <1>3. refs \subseteq Ref /\ \A r \in refs : box[r.id].state # "unborn"
    BY <1>2, ActiveRefs DEF Ref
  <1>4. Goto(k, "load") /\ UNCHANGED <<aws, file, addr>> /\ pc[k] = "describe"
        /\ mem' = [mem EXCEPT ![k].found = refs, ![k].put = refs, ![k].drop = Stale(k)]
    BY DEF Describe
  <1>5. mem' = [mem EXCEPT ![k] = mem'[k]]
        /\ mem'[k] = [mem[k] EXCEPT !.found = refs, !.put = refs, !.drop = Stale(k)]
    BY <1>4 DEF TypeInv, TypeOK
  <1>6. mem'[k] \in Mem /\ mem'[k].found = refs /\ mem'[k].ret = mem[k].ret
    <2>1. Stale(k) \in SUBSET Names /\ refs \in SUBSET Ref
      BY <1>3 DEF Stale
    <2>2. DescribedAs(mem'[k], mem[k], refs, Stale(k))
      BY <1>5 DEF DescribedAs
    <2>3. QED
      BY <1>1, <2>1, <2>2, MemDescribed
  <1>7. mem[k].ret \in {"done", "reuse", "select"}
    BY <1>4 DEF TypeInv, AtHand
  <1>8. QED
    BY <1>3, <1>4, <1>5, <1>6, <1>7, StepFrame DEF TypeInv, TypeOK, AtHand, Labels

LEMMA DiscoverFrame ==
  ASSUME TypeInv, NEW k \in Kernels, NEW l \in {"reuse", "select"}, Discover(k, l)
  PROVE  TypeInv'
  <1>1. /\ Goto(k, "known") /\ mem' = [mem EXCEPT ![k].ret = l] /\ UNCHANGED <<aws, file, addr>>
        /\ mem[k] \in Mem /\ Found(mem[k]) /\ file' \in [Names -> Groups \cup {None}]
    BY DEF Discover, TypeInv, TypeOK
  <1>2. mem' = [mem EXCEPT ![k] = mem'[k]] /\ mem'[k] = [mem[k] EXCEPT !.ret = l]
    BY <1>1 DEF TypeInv, TypeOK
  <1>3. mem'[k] \in Mem /\ mem'[k].ret = l /\ mem'[k].found = mem[k].found
    BY <1>1, <1>2 DEF Mem
  <1>4. "known" \in Labels /\ AtHand("known", mem'[k])
    BY <1>3 DEF Labels, AtHand
  <1>5. QED
    BY <1>1, <1>2, <1>3, <1>4, StepFrame DEF Found

(* start(): the steps that only look at AWS.                               *)
LEMMA LookTypes ==
  ASSUME TypeInv, NEW k \in Kernels,
         \/ Select(k) \/ MatchNone(k) \/ MatchFound(k) \/ AwaitStopped(k) \/ AwaitResumed(k)
         \/ Reuse(k) \/ ReuseVanished(k) \/ WaitReady(k) \/ AwaitRunning(k) \/ NukeAwait(k)
  PROVE  TypeInv'
  <1> USE DEF Labels
  <1>0. /\ mem[k] \in Mem /\ AtHand(pc[k], mem[k]) /\ Found(mem[k])
        /\ file \in [Names -> Groups \cup {None}]
    BY DEF TypeInv, TypeOK
  <1>1. CASE MatchNone(k) \/ AwaitResumed(k) \/ ReuseVanished(k)
    BY <1>1, DiscoverFrame DEF MatchNone, AwaitResumed, ReuseVanished
  <1>2. CASE Select(k)
    <2>1. /\ Goto(k, "stop") /\ UNCHANGED <<aws, file, addr>>
          /\ mem' = [mem EXCEPT ![k].found = {r \in @ : box[r.id].name \in call[k].names}]
      BY <1>2 DEF Select
    <2>2. /\ mem' = [mem EXCEPT ![k] = mem'[k]]
          /\ mem'[k] = [mem[k] EXCEPT !.found = {r \in mem[k].found : box[r.id].name \in call[k].names}]
      BY <2>1 DEF TypeInv, TypeOK
    <2>3. mem'[k] \in Mem /\ mem'[k].found \subseteq mem[k].found
      BY <1>0, <2>2 DEF Mem
    <2>4. AtHand("stop", mem'[k])
      BY DEF AtHand
    <2>5. QED
      BY <1>0, <2>1, <2>2, <2>3, <2>4, StepFrame DEF Found
  <1>3. CASE MatchFound(k)
    <2>1. PICK b \in Ids :
            /\ mem' = [mem EXCEPT ![k].match = b, ![k].ret = "reuse"]
            /\ Goto(k, CASE box[b].state = "stopping" -> "await_stopped"
                         [] box[b].state = "stopped"  -> "resume"
                         [] OTHER                     -> "known")
      BY <1>3 DEF MatchFound
    <2>2. /\ mem' = [mem EXCEPT ![k] = mem'[k]]
          /\ mem'[k] = [mem[k] EXCEPT !.match = b, !.ret = "reuse"]
      BY <2>1 DEF TypeInv, TypeOK
    <2>3. mem'[k] \in Mem /\ mem'[k].found = mem[k].found /\ mem'[k].match = b /\ mem'[k].ret = "reuse"
      BY <1>0, <2>2 DEF Mem
    <2>4. PICK l \in {"await_stopped", "resume", "known"} : Goto(k, l)
      BY <2>1
    <2>5. AtHand(l, mem'[k]) /\ l \in Labels
      BY <2>3 DEF AtHand
    <2>6. UNCHANGED <<aws, file, addr>>
      BY <1>3 DEF MatchFound
    <2>7. QED
      BY <1>0, <2>2, <2>3, <2>4, <2>5, <2>6, StepFrame DEF Found
  <1>4. CASE AwaitStopped(k)
    <2>1. Goto(k, "resume") /\ UNCHANGED <<aws, file, addr, mem>> /\ pc[k] = "await_stopped"
      BY <1>4 DEF AwaitStopped
    <2>2. AtHand("resume", mem[k]) /\ mem' = [mem EXCEPT ![k] = mem'[k]]
      BY <1>0, <2>1 DEF AtHand, TypeInv, TypeOK
    <2>3. QED
      BY <1>0, <2>1, <2>2, StepFrame DEF Found
  <1>5. CASE Reuse(k)
    <2>1. PICK r \in mem[k].found : mem' = [mem EXCEPT ![k].cur = r]
      BY <1>5 DEF Reuse
    <2>2. Goto(k, "authorize") /\ UNCHANGED <<aws, file, addr>>
      BY <1>5 DEF Reuse
    <2>3. mem' = [mem EXCEPT ![k] = mem'[k]] /\ mem'[k] = [mem[k] EXCEPT !.cur = r] /\ r \in Ref
      BY <1>0, <2>1 DEF TypeInv, TypeOK, Mem
    <2>4. mem'[k] \in Mem /\ mem'[k].found = mem[k].found /\ mem'[k].cur = r
      BY <1>0, <2>3 DEF Mem
    <2>5. AtHand("authorize", mem'[k])
      BY <2>3, <2>4 DEF AtHand
    <2>6. QED
      BY <1>0, <2>2, <2>3, <2>4, <2>5, StepFrame DEF Found
  <1>6. CASE WaitReady(k)
    <2>1. /\ Goto(k, "load") /\ UNCHANGED <<aws, file, addr>> /\ pc[k] \in {"reuse_wait", "wait"}
          /\ mem' = [mem EXCEPT ![k].put = {mem[k].cur}, ![k].ret = "done"]
      BY <1>6 DEF WaitReady, Waiting
    <2>2. mem[k].cur \in Ref
      BY <1>0, <2>1 DEF AtHand
    <2>3. /\ mem' = [mem EXCEPT ![k] = mem'[k]]
          /\ mem'[k] = [mem[k] EXCEPT !.put = {mem[k].cur}, !.ret = "done"]
      BY <2>1 DEF TypeInv, TypeOK
    <2>4. mem'[k] \in Mem /\ mem'[k].found = mem[k].found /\ mem'[k].ret = "done"
      <3>1. {mem[k].cur} \in SUBSET Ref
        BY <2>2
      <3>2. ReadyAs(mem'[k], mem[k], {mem[k].cur})
        BY <2>3 DEF ReadyAs
      <3>3. QED
        BY <1>0, <3>1, <3>2, MemReady
    <2>5. AtHand("load", mem'[k])
      BY <2>4 DEF AtHand
    <2>6. QED
      BY <1>0, <2>1, <2>3, <2>4, <2>5, StepFrame DEF Found
  <1>7. CASE AwaitRunning(k)
    <2> DEFINE inst == [id |-> mem[k].match, sg |-> mem[k].sg, ip |-> box[mem[k].match].ip]
    <2>1. /\ Goto(k, "load") /\ UNCHANGED <<aws, file, addr>> /\ pc[k] = "await_running"
          /\ mem' = [mem EXCEPT ![k].cur = inst, ![k].put = {inst}, ![k].ret = "wait", ![k].match = None]
      BY <1>7 DEF AwaitRunning
    <2>2. inst \in Ref
      BY <1>0, <2>1 DEF AtHand, Ref, TypeInv, TypeOK, Box
    <2>3. /\ mem' = [mem EXCEPT ![k] = mem'[k]]
          /\ mem'[k] = [mem[k] EXCEPT !.cur = inst, !.put = {inst}, !.ret = "wait", !.match = None]
      BY <2>1 DEF TypeInv, TypeOK
    <2>4. mem'[k] \in Mem /\ mem'[k].found = mem[k].found /\ mem'[k].cur = inst
      <3>1. RunningAs(mem'[k], mem[k], inst)
        BY <2>3 DEF RunningAs
      <3>2. HIDE DEF inst
      <3>3. QED
        BY <1>0, <2>2, <3>1, MemRunning
    <2>5. AtHand("load", mem'[k])
      BY <2>2, <2>4 DEF AtHand
    <2>6. QED
      BY <1>0, <2>1, <2>3, <2>4, <2>5, StepFrame DEF Found
  <1>8. CASE NukeAwait(k)
    <2>1. /\ Goto(k, "nuke_groups") /\ UNCHANGED <<aws, file, addr>>
          /\ mem' = [mem EXCEPT ![k].gone = {g \in Groups : group[g].exists}]
      BY <1>8 DEF NukeAwait
    <2>2. /\ mem' = [mem EXCEPT ![k] = mem'[k]]
          /\ mem'[k] = [mem[k] EXCEPT !.gone = {g \in Groups : group[g].exists}]
      BY <2>1 DEF TypeInv, TypeOK
    <2>3. mem'[k] \in Mem /\ mem'[k].found = mem[k].found
      BY <1>0, <2>2 DEF Mem
    <2>4. AtHand("nuke_groups", mem'[k])
      BY DEF AtHand
    <2>5. QED
      BY <1>0, <2>1, <2>2, <2>3, <2>4, StepFrame DEF Found
  <1>9. QED
    BY <1>1, <1>2, <1>3, <1>4, <1>5, <1>6, <1>7, <1>8

(* The ends of the calls.                                                  *)
LEMMA EndTypes ==
  ASSUME TypeInv, NEW k \in Kernels,
         \/ WaitNoAddress(k) \/ WaitTimeout(k) \/ StopDone(k) \/ Done(k) \/ NukeDone(k)
         \/ AwsFails(k) \/ DescribeFails(k) \/ Crash(k)
  PROVE  TypeInv'
  <1> USE DEF Results
  <1>0. file \in [Names -> Groups \cup {None}] /\ NoFile \in [Names -> Groups \cup {None}]
    BY NoMemTypes DEF TypeInv, TypeOK
  <1>1. CASE StopDone(k)
    <2>1. CASE call[k].op = "start"
      <3>1. Goto(k, "create_sg") /\ UNCHANGED <<aws, file, addr, mem>>
        BY <1>1, <2>1 DEF StopDone
      <3>2. /\ AtHand("create_sg", mem[k]) /\ "create_sg" \in Labels
            /\ mem' = [mem EXCEPT ![k] = mem'[k]] /\ mem[k] \in Mem /\ Found(mem[k])
        BY <3>1 DEF AtHand, Labels, TypeInv, TypeOK
      <3>3. QED
        BY <1>0, <3>1, <3>2, StepFrame DEF Found
    <2>2. CASE call[k].op # "start"
      BY <1>0, <1>1, <2>2, ReturnFrame DEF StopDone
    <2>3. QED
      BY <2>1, <2>2
  <1>2. CASE WaitNoAddress(k) \/ WaitTimeout(k) \/ AwsFails(k)
    BY <1>0, <1>2, ReturnFrame DEF WaitNoAddress, WaitTimeout, AwsFails, Raise
  <1>3. CASE Done(k) \/ DescribeFails(k)
    <2>1. PICK r \in Results : Return(k, r) /\ UNCHANGED <<aws, file, addr>>
      BY <1>3 DEF Done, DescribeFails
    <2>2. QED
      BY <1>0, <2>1, ReturnFrame
  <1>4. CASE NukeDone(k)
    BY <1>0, <1>4, ReturnFrame DEF NukeDone
  <1>5. CASE Crash(k)
    BY <1>0, <1>5, ReturnFrame DEF Crash
  <1>6. QED
    BY <1>1, <1>2, <1>3, <1>4, <1>5

(* start(): the steps that change AWS.                                     *)
LEMMA GroupTypes ==
  ASSUME TypeInv, NEW k \in Kernels, Authorize(k) \/ DeleteSg(k) \/ Ingress(k)
  PROVE  TypeInv'
  <1>0. /\ mem[k] \in Mem /\ AtHand(pc[k], mem[k]) /\ Found(mem[k])
        /\ file \in [Names -> Groups \cup {None}] /\ group \in [Groups -> Group]
        /\ box' = box => box' \in [Ids -> Box] /\ Born' /\ Grows
        /\ iam' = iam => iam' \subseteq IamParts
        /\ addr' = addr => addr' \in Addrs
        /\ addr \in Addrs
    BY DEF TypeInv, TypeOK, Born, Grows
  <1>1. PICK l \in {"reuse_wait", "stop", "role", "run"} :
          /\ Goto(k, l)
          /\ l = "reuse_wait" => pc[k] = "authorize"
          /\ l \in {"role", "run"} => pc[k] = "ingress"
    BY DEF Authorize, DeleteSg, Ingress
  <1>2. UNCHANGED <<box, iam, file, addr>>
    BY DEF Authorize, DeleteSg, Ingress
  <1>3. /\ mem' = [mem EXCEPT ![k] = mem'[k]] /\ mem'[k] \in Mem /\ mem'[k].found = mem[k].found
        /\ mem'[k].sg = mem[k].sg /\ mem'[k].cur = mem[k].cur
    <2>1. CASE Authorize(k)
      <3>1. /\ mem' = [mem EXCEPT ![k] = mem'[k]] /\ mem'[k] = [mem[k] EXCEPT !.via = addr]
        BY <2>1 DEF Authorize, TypeInv, TypeOK
      <3>2. QED
        BY <1>0, <3>1 DEF Mem
    <2>2. CASE UNCHANGED mem
      BY <2>2 DEF TypeInv, TypeOK
    <2>3. QED
      BY <2>1, <2>2 DEF DeleteSg, Ingress
  <1>4. group' \in [Groups -> Group]
    <2>1. Ingress(k) => mem[k].via \in Addrs
      BY <1>0 DEF Ingress, AtHand
    <2>2. CASE Authorize(k)
      <3>1. \A g \in Groups : [group[g] EXCEPT !.open = @ \cup {addr}] \in Group
        BY <1>0 DEF Group
      <3>2. group' = [group EXCEPT ![mem[k].cur.sg] = [group[mem[k].cur.sg] EXCEPT !.open = @ \cup {addr}]]
        BY <2>2 DEF Authorize
      <3>3. QED
        BY <1>0, <3>1, <3>2
    <2>3. CASE DeleteSg(k)
      BY <1>0, <2>3 DEF DeleteSg, NoGroup, Group
    <2>4. CASE Ingress(k)
      BY <1>0, <2>1, <2>4 DEF Ingress, Group
    <2>5. QED
      BY <2>2, <2>3, <2>4
  <1>5. AtHand(l, mem'[k]) /\ l \in Labels /\ Found(mem[k])'
    BY <1>0, <1>1, <1>2, <1>3 DEF AtHand, Labels, Found
  <1>6. QED
    BY <1>0, <1>1, <1>2, <1>3, <1>4, <1>5, GotoFrame, Frame

LEMMA PowerTypes ==
  ASSUME TypeInv, NEW k \in Kernels, Resume(k) \/ Terminate(k) \/ NukeTerminate(k)
  PROVE  TypeInv'
  <1>0. /\ mem[k] \in Mem /\ AtHand(pc[k], mem[k]) /\ Found(mem[k])
        /\ file \in [Names -> Groups \cup {None}] /\ box \in [Ids -> Box]
        /\ group' = group => group' \in [Groups -> Group]
        /\ iam' = iam => iam' \subseteq IamParts
        /\ addr' = addr => addr' \in Addrs
    BY DEF TypeInv, TypeOK
  <1>1. UNCHANGED <<group, iam, file, addr>>
    BY DEF Resume, Terminate, NukeTerminate
  <1>2. \A b \in Ids : Terminated(b) \in Box /\ Terminated(b).name = box[b].name
                       /\ Terminated(b).sg = box[b].sg
                       /\ (Terminated(b).state = "unborn" <=> box[b].state = "unborn")
    BY <1>0 DEF Terminated, Live, Box
  <1>3. /\ box' \in [Ids -> Box]
        /\ \A b \in Ids : /\ box'[b].name = box[b].name /\ box'[b].sg = box[b].sg
                          /\ (box'[b].state # "unborn") <=> (box[b].state # "unborn")
    <2>1. CASE Resume(k)
      <3>1. PICK b \in Ids : b = mem[k].match /\ box[b] \in Box
        BY <1>0, <2>1 DEF Resume, AtHand
      <3>2. box' = [box EXCEPT ![b] = [box[b] EXCEPT !.state = IF @ = "stopped" THEN "pending" ELSE @]]
        BY <2>1, <3>1 DEF Resume
      <3>3. PICK new : new = [box[b] EXCEPT !.state = IF @ = "stopped" THEN "pending" ELSE @]
        OBVIOUS
      <3>4. /\ new \in Box /\ new.name = box[b].name /\ new.sg = box[b].sg
            /\ new.state = "unborn" <=> box[b].state = "unborn"
        BY <3>1, <3>3 DEF Box
      <3>5. box' = [box EXCEPT ![b] = new]
        BY <3>2, <3>3
      <3>6. QED
        BY <1>0, <3>4, <3>5
    <2>2. CASE Terminate(k)
      <3>1. PICK r \in mem[k].found : box' = [box EXCEPT ![r.id] = Terminated(r.id)]
        BY <2>2 DEF Terminate
      <3>2. r.id \in Ids
        BY <1>0 DEF Mem, Ref
      <3>3. QED
        BY <1>0, <1>2, <3>1, <3>2
    <2>3. CASE NukeTerminate(k)
      <3>1. box' = [b \in Ids |-> IF \E r \in mem[k].found : r.id = b THEN Terminated(b) ELSE box[b]]
        BY <2>3 DEF NukeTerminate
      <3>2. QED
        BY <1>0, <1>2, <3>1
    <2>4. QED
      BY <2>1, <2>2, <2>3
  <1>4. Born' /\ Grows
    <2>1. \A b \in Ids : box[b].state # "unborn" => box[b].name \in Names /\ box[b].sg \in Groups
      BY DEF TypeInv, Born
    <2>2. QED
      BY <1>3, <2>1 DEF Born, Grows
  <1>5. PICK l \in Labels : Goto(k, l) /\ AtHand(l, mem'[k]) /\ mem'[k].found \subseteq mem[k].found
                            /\ mem' = [mem EXCEPT ![k] = mem'[k]] /\ mem'[k] \in Mem
    <2>1. CASE Resume(k)
      <3>1. Goto(k, "await_resumed") /\ mem' = mem /\ pc[k] = "resume"
        BY <2>1 DEF Resume
      <3>2. AtHand("await_resumed", mem[k]) /\ "await_resumed" \in Labels
        BY <1>0, <3>1 DEF AtHand, Labels
      <3>3. mem' = [mem EXCEPT ![k] = mem'[k]] /\ mem'[k] = mem[k]
        BY <3>1 DEF TypeInv, TypeOK
      <3>4. QED
        BY <1>0, <3>1, <3>2, <3>3
    <2>2. CASE Terminate(k)
      <3>1. PICK r \in mem[k].found :
              mem' = [mem EXCEPT ![k].cur = r, ![k].found = @ \ {r},
                                 ![k].drop = {box[r.id].name}, ![k].ret = "delete_sg"]
        BY <2>2 DEF Terminate
      <3>2. r \in Ref /\ r.id \in Ids /\ mem[k].found \in SUBSET Ref
        BY <1>0 DEF Mem, Ref
      <3>3. {box[r.id].name} \in SUBSET Names /\ mem[k].found \ {r} \in SUBSET Ref
        BY <1>0, <3>2 DEF TypeInv, Born, Found
      <3>4. /\ mem' = [mem EXCEPT ![k] = mem'[k]]
            /\ TerminatedAs(mem'[k], mem[k], r, mem[k].found \ {r}, {box[r.id].name})
        BY <3>1 DEF TypeInv, TypeOK, TerminatedAs
      <3>5. /\ mem'[k] \in Mem /\ mem'[k].found = mem[k].found \ {r}
            /\ mem'[k].cur = r /\ mem'[k].ret = "delete_sg"
        BY <1>0, <3>2, <3>3, <3>4, MemTerminated
      <3>6. AtHand("load", mem'[k]) /\ "load" \in Labels
        BY <3>2, <3>5 DEF AtHand, Labels
      <3>7. Goto(k, "load")
        BY <2>2 DEF Terminate
      <3>8. QED
        BY <3>4, <3>5, <3>6, <3>7
    <2>3. CASE NukeTerminate(k)
      <3>1. Goto(k, "nuke_await") /\ mem' = mem
        BY <2>3 DEF NukeTerminate
      <3>2. AtHand("nuke_await", mem[k]) /\ "nuke_await" \in Labels
        BY DEF AtHand, Labels
      <3>3. mem' = [mem EXCEPT ![k] = mem'[k]] /\ mem'[k] = mem[k]
        BY <3>1 DEF TypeInv, TypeOK
      <3>4. QED
        BY <1>0, <3>1, <3>2, <3>3
    <2>4. QED
      BY <2>1, <2>2, <2>3
  <1>6. Found(mem[k])'
    <2>1. \A r \in mem[k].found : r.id \in Ids /\ box[r.id].state # "unborn"
      BY <1>0 DEF Found, Mem, Ref
    <2>2. QED
      BY <1>3, <1>5, <2>1 DEF Found
  <1>7. QED
    BY <1>0, <1>1, <1>3, <1>4, <1>5, <1>6, GotoFrame, Frame

LEMMA LaunchTypes ==
  ASSUME TypeInv, NEW k \in Kernels,
         \/ CreateSg(k) \/ CreateRole(k) \/ AttachPolicy(k) \/ CreateProfile(k) \/ AddRole(k)
         \/ RunInstances(k) \/ RunRefused(k) \/ NukeGroup(k)
  PROVE  TypeInv'
  <1>0. /\ mem[k] \in Mem /\ AtHand(pc[k], mem[k]) /\ Found(mem[k])
        /\ file \in [Names -> Groups \cup {None}] /\ group \in [Groups -> Group]
        /\ iam \subseteq IamParts /\ addr \in Addrs /\ box \in [Ids -> Box] /\ call[k] \in Call
        /\ box' = box => box' \in [Ids -> Box] /\ Born' /\ Grows
        /\ iam' = iam => iam' \subseteq IamParts
        /\ addr' = addr => addr' \in Addrs
    BY DEF TypeInv, TypeOK, Born, Grows
  <1>1. CASE CreateSg(k)
    <2>1. PICK g \in Groups : /\ group' = [group EXCEPT ![g].exists = TRUE]
                              /\ mem' = [mem EXCEPT ![k].sg = g, ![k].via = addr]
      BY <1>1 DEF CreateSg
    <2>2. Goto(k, "ingress") /\ UNCHANGED <<box, iam, file, addr>>
      BY <1>1 DEF CreateSg
    <2>3. /\ mem' = [mem EXCEPT ![k] = mem'[k]]
          /\ mem'[k] = [mem[k] EXCEPT !.sg = g, !.via = addr]
      BY <2>1 DEF TypeInv, TypeOK
    <2>4. /\ mem'[k] \in Mem /\ mem'[k].found = mem[k].found
          /\ mem'[k].sg = g /\ mem'[k].via = addr
      BY <1>0, <2>3 DEF Mem
    <2>5. AtHand("ingress", mem'[k]) /\ "ingress" \in Labels /\ Found(mem[k])'
      BY <1>0, <2>2, <2>4 DEF AtHand, Labels, Found
    <2>6. group' \in [Groups -> Group]
      <3>1. [group[g] EXCEPT !.exists = TRUE] \in Group
        BY <1>0 DEF Group
      <3>2. group' = [group EXCEPT ![g] = [group[g] EXCEPT !.exists = TRUE]]
        BY <2>1
      <3>3. QED
        BY <1>0, <3>1, <3>2
    <2>7. QED
      BY <1>0, <2>2, <2>3, <2>4, <2>5, <2>6, GotoFrame, Frame
  <1>2. CASE CreateRole(k) \/ AttachPolicy(k) \/ CreateProfile(k) \/ AddRole(k)
    <2>1. PICK l \in {"attach", "profile", "add_role", "run"} : Goto(k, l)
      BY <1>2 DEF CreateRole, AttachPolicy, CreateProfile, AddRole, Ensure
    <2>2. /\ pc[k] \in {"role", "attach", "profile", "add_role"}
          /\ iam' \subseteq IamParts /\ UNCHANGED <<box, group, file, addr, mem>>
      BY <1>0, <1>2 DEF CreateRole, AttachPolicy, CreateProfile, AddRole, Ensure, IamParts
    <2>3. AtHand(l, mem[k]) /\ l \in Labels /\ Found(mem[k])'
      BY <1>0, <2>2 DEF AtHand, Labels, Found
    <2>4. mem' = [mem EXCEPT ![k] = mem'[k]] /\ mem'[k] = mem[k]
      BY <2>2 DEF TypeInv, TypeOK
    <2>5. QED
      BY <1>0, <2>1, <2>2, <2>3, <2>4, GotoFrame, Frame
  <1>3. CASE RunInstances(k)
    <2>1. PICK b \in Ids, n \in call[k].names :
            /\ box[b].state = "unborn"
            /\ box' = [box EXCEPT ![b] = [state |-> "pending", name |-> n, conf |-> call[k].conf,
                                          sg |-> mem[k].sg, ip |-> FALSE, up |-> FALSE]]
            /\ mem' = [mem EXCEPT ![k].match = b]
      BY <1>3 DEF RunInstances
    <2>2. Goto(k, "await_running") /\ UNCHANGED <<group, iam, file, addr>> /\ pc[k] = "run"
      BY <1>3 DEF RunInstances
    <2>3. mem' = [mem EXCEPT ![k] = mem'[k]] /\ mem'[k] = [mem[k] EXCEPT !.match = b]
      BY <2>1 DEF TypeInv, TypeOK
    <2>4. /\ mem'[k] \in Mem /\ mem'[k].found = mem[k].found
          /\ mem'[k].sg = mem[k].sg /\ mem'[k].match = b
      BY <1>0, <2>3 DEF Mem
    <2>5. AtHand("await_running", mem'[k]) /\ "await_running" \in Labels
      BY <1>0, <2>2, <2>4 DEF AtHand, Labels
    <2> DEFINE new == [state |-> "pending", name |-> n, conf |-> call[k].conf,
                       sg |-> mem[k].sg, ip |-> FALSE, up |-> FALSE]
    <2>6. mem[k].sg \in Groups /\ n \in Names /\ call[k].conf \in Confs \cup {None}
      BY <1>0, <2>2 DEF AtHand, Call
    <2>7. new \in Box /\ new.state # "unborn" /\ new.name \in Names /\ new.sg \in Groups
      BY <2>6 DEF Box
    <2>8. box' = [box EXCEPT ![b] = new]
      BY <2>1
    <2> HIDE DEF new
    <2>9. box' \in [Ids -> Box] /\ Born' /\ Grows
      BY <1>0, <2>7, <2>8 DEF TypeInv, Born, Grows
    <2>10. Found(mem[k])'
      <3>1. \A r \in mem[k].found : r.id \in Ids /\ box[r.id].state # "unborn"
        BY <1>0 DEF Found, Mem, Ref
      <3>2. QED
        BY <2>4, <2>9, <3>1 DEF Found, Grows
    <2>11. QED
      BY <1>0, <2>2, <2>3, <2>4, <2>5, <2>9, <2>10, GotoFrame, Frame
  <1>4. CASE RunRefused(k)
    <2>1. /\ Return(k, "error") /\ UNCHANGED <<box, iam, file, addr>>
          /\ group' = [group EXCEPT ![mem[k].sg] = NoGroup] \/ group' = group
      BY <1>4 DEF RunRefused
    <2>2. group' \in [Groups -> Group]
      <3>1. NoGroup \in Group
        BY DEF NoGroup, Group
      <3>2. QED
        BY <1>0, <2>1, <3>1
    <2>3. /\ pc' = [pc EXCEPT ![k] = pc'[k]] /\ pc'[k] = "idle"
          /\ call' = [call EXCEPT ![k] = call'[k]] /\ call'[k] = NoCall
          /\ mem' = [mem EXCEPT ![k] = mem'[k]] /\ mem'[k] = NoMem
          /\ result' = [result EXCEPT ![k] = result'[k]] /\ result'[k] = "error"
      BY <2>1 DEF TypeInv, TypeOK, Return
    <2>4. "idle" \in Labels /\ AtHand("idle", NoMem) /\ Found(NoMem)' /\ "error" \in Results
      BY NoMemTypes DEF Labels, AtHand, Found, Results
    <2>5. Found(mem[k])'
      BY <2>3, NoMemTypes DEF Found
    <2>6. QED
      BY <1>0, <2>1, <2>2, <2>3, <2>4, <2>5, NoMemTypes, Frame
  <1>5. CASE NukeGroup(k)
    <2>1. PICK g \in mem[k].gone : /\ group' = [group EXCEPT ![g] = NoGroup]
                                   /\ mem' = [mem EXCEPT ![k].gone = @ \ {g}]
      BY <1>5 DEF NukeGroup
    <2>2. UNCHANGED <<box, iam, file, addr, pc, call, result>> /\ pc[k] = "nuke_groups"
      BY <1>5 DEF NukeGroup
    <2>3. mem' = [mem EXCEPT ![k] = mem'[k]] /\ mem'[k] = [mem[k] EXCEPT !.gone = @ \ {g}]
      BY <2>1 DEF TypeInv, TypeOK
    <2>4. mem'[k] \in Mem /\ mem'[k].found = mem[k].found
      BY <1>0, <2>3 DEF Mem
    <2>5. group' \in [Groups -> Group]
      BY <1>0, <2>1 DEF NoGroup, Group
    <2>6. AtHand("nuke_groups", mem'[k]) /\ "nuke_groups" \in Labels /\ Found(mem[k])'
      BY <1>0, <2>2, <2>4 DEF AtHand, Labels, Found
    <2>7. /\ pc' = [pc EXCEPT ![k] = pc'[k]] /\ pc'[k] = "nuke_groups"
          /\ call' = [call EXCEPT ![k] = call'[k]] /\ call'[k] \in Call
          /\ result' = [result EXCEPT ![k] = result'[k]] /\ result'[k] \in Results
      BY <2>2 DEF TypeInv, TypeOK, Results
    <2>8. QED
      BY <1>0, <2>2, <2>3, <2>4, <2>5, <2>6, <2>7, Frame
  <1>6. QED
    BY <1>1, <1>2, <1>3, <1>4, <1>5

(* AWS, the users and the address of the lab.                              *)
LEMMA EnvironmentTypes ==
  ASSUME TypeInv, Environment
  PROVE  TypeInv'
  <1>1. UNCHANGED <<group, iam, file, pc, call, mem, result>>
    BY DEF Environment, Roam, GetsAddress, Boots, ComesUp, Pauses, Paused, Ends, Becomes, aws
  <1>2. addr' \in Addrs
    BY DEF Environment, Roam, GetsAddress, Boots, ComesUp, Pauses, Paused, Ends, Becomes,
           TypeInv, TypeOK
  <1>3. box' \in [Ids -> Box] /\ Born' /\ Grows
    <2>1. CASE Roam
      BY <2>1 DEF Roam, aws, TypeInv, TypeOK, Born, Grows
    <2>2. ASSUME NEW b \in Ids,
                 \/ GetsAddress(b) \/ Boots(b) \/ ComesUp(b) \/ Pauses(b) \/ Paused(b) \/ Ends(b)
          PROVE  box' \in [Ids -> Box] /\ Born' /\ Grows
      <3>1. box[b] \in Box /\ box \in [Ids -> Box]
        BY DEF TypeInv, TypeOK
      <3>2. PICK new : /\ box' = [box EXCEPT ![b] = new] /\ box[b].state # "unborn"
                       /\ \/ new = [box[b] EXCEPT !.ip = TRUE]
                          \/ new = [box[b] EXCEPT !.state = "running", !.ip = TRUE]
                          \/ new = [box[b] EXCEPT !.up = TRUE]
                          \/ new = [box[b] EXCEPT !.state = "stopping", !.up = FALSE]
                          \/ new = [box[b] EXCEPT !.state = "stopped", !.ip = FALSE]
                          \/ new = [box[b] EXCEPT !.state = "terminated", !.ip = FALSE]
        BY <2>2 DEF GetsAddress, Boots, ComesUp, Pauses, Paused, Ends, Becomes
      <3>3. new \in Box /\ new.name = box[b].name /\ new.sg = box[b].sg /\ new.state # "unborn"
        BY <3>1, <3>2 DEF Box
      <3>4. new.name \in Names /\ new.sg \in Groups
        BY <3>2, <3>3 DEF TypeInv, Born
      <3>5. box' = [box EXCEPT ![b] = new]
        BY <3>2
      <3>6. QED
        BY <3>1, <3>3, <3>4, <3>5 DEF TypeInv, Born, Grows
    <2>3. QED
      BY <2>1, <2>2 DEF Environment
  <1>4. TypeOK'
    BY <1>1, <1>2, <1>3 DEF TypeInv, TypeOK
  <1>5. ASSUME NEW j \in Kernels PROVE AtHand(pc[j], mem[j])' /\ Found(mem[j])'
    <2>1. AtHand(pc[j], mem[j]) /\ \A r \in mem[j].found : box[r.id].state # "unborn" /\ r.id \in Ids
      BY DEF TypeInv, TypeOK, Found, Mem, Ref
    <2>2. QED
      BY <1>1, <1>3, <2>1 DEF AtHand, Found, Grows
  <1>6. QED
    BY <1>3, <1>4, <1>5 DEF TypeInv

LEMMA InitTypes == Init => TypeInv
  <1> SUFFICES ASSUME Init PROVE TypeInv
    OBVIOUS
  <1>1. Unborn \in Box /\ NoGroup \in Group /\ "idle" \in Labels
    BY DEF Unborn, Box, NoGroup, Group, Labels
  <1>2. TypeOK
    BY <1>1, NoMemTypes DEF Init, TypeOK
  <1>3. Born
    BY DEF Init, Born, Unborn
  <1>4. \A k \in Kernels : AtHand(pc[k], mem[k]) /\ Found(mem[k])
    BY NoMemTypes DEF Init, AtHand, Found
  <1>5. QED
    BY <1>2, <1>3, <1>4 DEF TypeInv

LEMMA NextTypes == TypeInv /\ [Next]_vars => TypeInv'
  <1> SUFFICES ASSUME TypeInv, [Next]_vars PROVE TypeInv'
    OBVIOUS
  <1>1. CASE UNCHANGED vars
    BY <1>1 DEF vars, aws, TypeInv, TypeOK, Born, AtHand, Found
  <1>2. CASE Environment
    BY <1>2, EnvironmentTypes
  <1>3. ASSUME NEW k \in Kernels, Kernel(k) PROVE TypeInv'
    BY <1>3, CallTypes, FileTypes, DescribeTypes, LookTypes, EndTypes, GroupTypes, PowerTypes,
       LaunchTypes DEF Kernel
  <1>4. QED
    BY <1>1, <1>2, <1>3 DEF Next

(* What AWS and the file hold, the calls and their locals keep their       *)
(* types, for any number of kernels that call what they like at the same   *)
(* time, crash, and meet AWS requests that fail.                           *)
THEOREM ProviderTypes == Spec => []TypeOK
  <1>1. Init => TypeInv
    BY InitTypes
  <1>2. TypeInv /\ [Next]_vars => TypeInv'
    BY NextTypes
  <1>3. TypeInv => TypeOK
    BY DEF TypeInv
  <1>4. QED
    BY <1>1, <1>2, <1>3, PTL DEF Spec

-----------------------------------------------------------------------------
(* One kernel never pays twice for a name.                                 *)

Alone == \E k \in Kernels : Kernels = {k}

(* The live instances of the names a call is for.                          *)
LiveNamed(k, b) == Live(b) /\ box[b].name \in call[k].names

(* From its description on, through the state file, to the last            *)
(* termination: the call still has every one of them in hand ...           *)
Collecting(l, m) ==
    \/ l \in {"select", "stop", "delete_sg"}
    \/ l \in {"load", "save"} /\ m.ret \in {"select", "delete_sg"}

(* ... and from there to the launch there is none.                         *)
Clear(l) == l \in {"create_sg", "ingress", "role", "attach", "profile", "add_role", "run"}

Cover(k) ==
    /\ Collecting(pc[k], mem[k]) =>
          \A b \in Ids : LiveNamed(k, b) => \E r \in mem[k].found : r.id = b
    /\ Clear(pc[k]) => \A b \in Ids : ~LiveNamed(k, b)

PayInv == TypeInv /\ OneLivePerName /\ \A k \in Kernels : Cover(k)

(* Nothing but a launch makes an instance live.                            *)
NoNewLive == \A b \in Ids : Live(b)' => Live(b) /\ box'[b].name = box[b].name

LEMMA LiveKeeps == NoNewLive /\ OneLivePerName => OneLivePerName'
  BY DEF NoNewLive, OneLivePerName

LEMMA BoxSame == UNCHANGED box => NoNewLive
  BY DEF NoNewLive, Live

LEMMA EnvironmentKeepsLive ==
  ASSUME TypeInv, Environment
  PROVE  NoNewLive
  <1>1. CASE Roam
    BY <1>1, BoxSame DEF Roam, aws
  <1>2. ASSUME NEW b \in Ids,
               \/ GetsAddress(b) \/ Boots(b) \/ ComesUp(b) \/ Pauses(b) \/ Paused(b) \/ Ends(b)
        PROVE  NoNewLive
    <2>1. box[b] \in Box /\ box \in [Ids -> Box]
      BY DEF TypeInv, TypeOK
    <2>2. PICK new : /\ box' = [box EXCEPT ![b] = new]
                     /\ \/ Live(b) /\ \/ new = [box[b] EXCEPT !.ip = TRUE]
                                       \/ new = [box[b] EXCEPT !.state = "running", !.ip = TRUE]
                                       \/ new = [box[b] EXCEPT !.up = TRUE]
                                       \/ new = [box[b] EXCEPT !.state = "stopping", !.up = FALSE]
                                       \/ new = [box[b] EXCEPT !.state = "stopped", !.ip = FALSE]
                        \/ new = [box[b] EXCEPT !.state = "terminated", !.ip = FALSE]
      BY <1>2 DEF GetsAddress, Boots, ComesUp, Pauses, Paused, Ends, Becomes, Live
    <2>3. /\ new.name = box[b].name
          /\ Live(b) \/ new.state = "terminated"
      BY <2>1, <2>2 DEF Box
    <2>4. box' = [box EXCEPT ![b] = new]
      BY <2>2
    <2>5. QED
      BY <2>1, <2>3, <2>4 DEF NoNewLive, Live
  <1>3. QED
    BY <1>1, <1>2 DEF Environment

LEMMA PowerKeepsLive ==
  ASSUME TypeInv, NEW k \in Kernels, Resume(k) \/ Terminate(k) \/ NukeTerminate(k)
  PROVE  NoNewLive
  <1>0. /\ mem[k] \in Mem /\ AtHand(pc[k], mem[k]) /\ box \in [Ids -> Box]
    BY DEF TypeInv, TypeOK
  <1>1. \A b \in Ids : /\ Terminated(b).name = box[b].name
                       /\ Terminated(b).state \notin {"pending", "running", "stopping", "stopped"}
    BY <1>0 DEF Terminated, Live, Box
  <1>2. CASE Resume(k)
    <2>1. PICK b \in Ids : b = mem[k].match /\ box[b] \in Box
      BY <1>0, <1>2 DEF Resume, AtHand
    <2>2. /\ box' = [box EXCEPT ![b] = [box[b] EXCEPT !.state = IF @ = "stopped" THEN "pending" ELSE @]]
          /\ Live(b)
      BY <1>2, <2>1 DEF Resume, Live
    <2>3. PICK new : new = [box[b] EXCEPT !.state = IF @ = "stopped" THEN "pending" ELSE @]
      OBVIOUS
    <2>4. new.name = box[b].name
      BY <2>1, <2>3 DEF Box
    <2>5. box' = [box EXCEPT ![b] = new]
      BY <2>2, <2>3
    <2>6. QED
      BY <1>0, <2>2, <2>4, <2>5 DEF NoNewLive, Live
  <1>3. CASE Terminate(k)
    <2>1. PICK r \in mem[k].found : box' = [box EXCEPT ![r.id] = Terminated(r.id)]
      BY <1>3 DEF Terminate
    <2>2. r.id \in Ids
      BY <1>0 DEF Mem, Ref
    <2>3. QED
      BY <1>0, <1>1, <2>1, <2>2 DEF NoNewLive, Live
  <1>4. CASE NukeTerminate(k)
    <2>1. box' = [b \in Ids |-> IF \E r \in mem[k].found : r.id = b THEN Terminated(b) ELSE box[b]]
      BY <1>4 DEF NukeTerminate
    <2>2. QED
      BY <1>1, <2>1 DEF NoNewLive, Live
  <1>5. QED
    BY <1>2, <1>3, <1>4

(* A step that keeps the call, what it found and where it stands.          *)
LEMMA CoverKept ==
  ASSUME NEW k \in Kernels, Cover(k), NoNewLive, call'[k] = call[k], mem'[k].found = mem[k].found,
         Collecting(pc'[k], mem'[k]) => Collecting(pc[k], mem[k]),
         Clear(pc'[k]) => Clear(pc[k])
  PROVE  Cover(k)'
  BY DEF Cover, LiveNamed, NoNewLive

(* A step to where nothing is claimed.                                     *)
LEMMA CoverVoid ==
  ASSUME NEW k \in Kernels, ~Collecting(pc'[k], mem'[k]), ~Clear(pc'[k])
  PROVE  Cover(k)'
  BY DEF Cover

LEMMA QuietSteps ==
  ASSUME TypeInv, NEW k \in Kernels,
         \/ CallStart(k) \/ CallStop(k) \/ CallStatus(k) \/ CallNuke(k) \/ LoadKnown(k)
         \/ MatchNone(k) \/ MatchFound(k) \/ AwaitStopped(k) \/ Resume(k) \/ AwaitResumed(k)
         \/ Reuse(k) \/ ReuseVanished(k) \/ Authorize(k) \/ WaitNoAddress(k) \/ WaitTimeout(k)
         \/ RunInstances(k) \/ RunRefused(k) \/ Done(k)
         \/ NukeTerminate(k) \/ NukeAwait(k) \/ NukeGroup(k) \/ NukeDone(k)
         \/ AwsFails(k) \/ DescribeFails(k) \/ Crash(k)
  PROVE  Cover(k)'
  <1>1. pc' = [pc EXCEPT ![k] = pc'[k]]
        /\ pc'[k] \in {"idle", "known", "match", "describe", "await_stopped", "resume", "await_resumed",
                      "reuse", "authorize", "reuse_wait", "await_running", "nuke_terminate",
                      "nuke_await", "nuke_groups"}
    <2>0. pc \in [Kernels -> Labels]
      BY DEF TypeInv, TypeOK
    <2>1. CASE CallStart(k) \/ CallStop(k) \/ CallStatus(k) \/ CallNuke(k)
      <3>1. PICK l \in {"known", "match", "nuke_terminate"} : pc' = [pc EXCEPT ![k] = l]
        BY <2>1 DEF CallStart, CallStop, CallStatus, CallNuke, Enter
      <3>2. QED
        BY <2>0, <3>1
    <2>2. CASE LoadKnown(k) \/ MatchNone(k) \/ AwaitStopped(k) \/ Resume(k) \/ AwaitResumed(k)
               \/ Reuse(k) \/ ReuseVanished(k) \/ Authorize(k) \/ RunInstances(k)
               \/ NukeTerminate(k) \/ NukeAwait(k)
      BY <2>0, <2>2 DEF LoadKnown, MatchNone, AwaitStopped, Resume, AwaitResumed, Reuse, ReuseVanished,
                        Authorize, RunInstances, NukeTerminate, NukeAwait, Discover, Goto
    <2>3. CASE MatchFound(k)
      <3>1. PICK l \in {"await_stopped", "resume", "known"} : Goto(k, l)
        BY <2>3 DEF MatchFound
      <3>2. QED
        BY <2>0, <3>1 DEF Goto
    <2>4. CASE NukeGroup(k)
      BY <2>0, <2>4 DEF NukeGroup
    <2>5. CASE WaitNoAddress(k) \/ WaitTimeout(k) \/ RunRefused(k) \/ Done(k) \/ NukeDone(k)
               \/ AwsFails(k) \/ DescribeFails(k) \/ Crash(k)
      <3>1. PICK r : Return(k, r)
        BY <2>5 DEF WaitNoAddress, WaitTimeout, RunRefused, Done, NukeDone, AwsFails, DescribeFails,
                    Crash, Raise
      <3>2. QED
        BY <2>0, <3>1 DEF Return
    <2>6. QED
      BY <2>1, <2>2, <2>3, <2>4, <2>5
  <1>2. QED
    BY <1>1, CoverVoid DEF Collecting, Clear

(* The instance goes into the state file, and the call has nothing left.   *)
LEMMA RememberSteps ==
  ASSUME TypeInv, NEW k \in Kernels, WaitReady(k) \/ AwaitRunning(k)
  PROVE  Cover(k)'
  <1>0. mem \in [Kernels -> Mem] /\ mem[k] \in Mem /\ pc \in [Kernels -> Labels]
        /\ AtHand(pc[k], mem[k]) /\ box \in [Ids -> Box]
    BY DEF TypeInv, TypeOK
  <1>1. pc'[k] = "load"
    BY <1>0 DEF WaitReady, AwaitRunning, Goto
  <1>2. mem'[k].ret \in {"done", "wait"}
    <2>1. CASE WaitReady(k)
      <3>1. ReadyAs(mem'[k], mem[k], {mem[k].cur}) /\ {mem[k].cur} \in SUBSET Ref
        BY <1>0, <2>1 DEF WaitReady, Waiting, ReadyAs, AtHand
      <3>2. QED
        BY <1>0, <3>1, MemReady
    <2>2. CASE AwaitRunning(k)
      <3> DEFINE inst == [id |-> mem[k].match, sg |-> mem[k].sg, ip |-> box[mem[k].match].ip]
      <3>1. mem' = [mem EXCEPT ![k].cur = inst, ![k].put = {inst}, ![k].ret = "wait", ![k].match = None]
        BY <2>2 DEF AwaitRunning
      <3>2. PICK n : n = [mem[k] EXCEPT !.cur = inst, !.put = {inst}, !.ret = "wait", !.match = None]
        OBVIOUS
      <3>3. n.ret = "wait"
        BY <1>0, <3>2 DEF Mem
      <3>4. mem'[k] = n
        BY <1>0, <3>1, <3>2
      <3>5. QED
        BY <3>3, <3>4
    <2>3. QED
      BY <2>1, <2>2
  <1>3. QED
    BY <1>1, <1>2, CoverVoid DEF Collecting, Clear

(* Steps on the way that leave what was found alone.                       *)
LEMMA CarrySteps ==
  ASSUME TypeInv, NEW k \in Kernels, Cover(k),
         \/ LoadState(k) \/ SaveForget(k) \/ SaveRemember(k) \/ SaveDone(k) \/ DeleteSg(k)
         \/ CreateSg(k) \/ Ingress(k)
         \/ CreateRole(k) \/ AttachPolicy(k) \/ CreateProfile(k) \/ AddRole(k)
  PROVE  Cover(k)'
  <1>0. mem \in [Kernels -> Mem] /\ mem[k] \in Mem /\ pc \in [Kernels -> Labels]
        /\ mem[k].ret \in {"done", "reuse", "select", "delete_sg", "wait"}
    BY DEF TypeInv, TypeOK, Mem
  <1>1. NoNewLive
    <2>1. UNCHANGED box
      BY DEF LoadState, SaveForget, SaveRemember, SaveDone, DeleteSg, CreateSg, Ingress, CreateRole,
             AttachPolicy, CreateProfile, AddRole, Ensure, aws
    <2>2. QED
      BY <2>1, BoxSame
  <1>2. call'[k] = call[k]
    BY DEF LoadState, SaveForget, SaveRemember, SaveDone, DeleteSg, CreateSg, Ingress, CreateRole,
           AttachPolicy, CreateProfile, AddRole, Ensure, Goto
  <1>3. CASE LoadState(k) \/ SaveForget(k) \/ SaveRemember(k)
    <2>1. pc[k] \in {"load", "save"} /\ pc'[k] \in {"load", "save"}
      BY <1>0, <1>3 DEF LoadState, SaveForget, SaveRemember, Goto
    <2>2. mem'[k].found = mem[k].found /\ mem'[k].ret = mem[k].ret
      <3>1. PICK f, d, q : mem'[k] \in {[mem[k] EXCEPT !.st = f], [mem[k] EXCEPT !.drop = d],
                                         [mem[k] EXCEPT !.put = q]}
        BY <1>0, <1>3 DEF LoadState, SaveForget, SaveRemember
      <3>2. QED
        BY <1>0, <3>1 DEF Mem
    <2>3. QED
      BY <1>1, <1>2, <2>1, <2>2, CoverKept DEF Collecting, Clear
  <1>4. CASE SaveDone(k)
    <2>1. pc[k] = "load" /\ pc'[k] = mem[k].ret /\ mem' = mem
      BY <1>0, <1>4 DEF SaveDone, Goto
    <2>2. QED
      BY <1>0, <1>1, <1>2, <2>1, CoverKept DEF Collecting, Clear
  <1>5. CASE DeleteSg(k)
    <2>1. pc[k] = "delete_sg" /\ pc'[k] = "stop" /\ mem' = mem
      BY <1>0, <1>5 DEF DeleteSg, Goto
    <2>2. QED
      BY <1>1, <1>2, <2>1, CoverKept DEF Collecting, Clear
  <1>6. CASE CreateSg(k)
    <2>1. PICK g \in Groups : mem' = [mem EXCEPT ![k].sg = g, ![k].via = addr]
      BY <1>6 DEF CreateSg
    <2>2. PICK n : n = [mem[k] EXCEPT !.sg = g, !.via = addr]
      OBVIOUS
    <2>3. mem'[k] = n /\ n.found = mem[k].found
      BY <1>0, <2>1, <2>2 DEF Mem
    <2>4. pc[k] = "create_sg" /\ pc'[k] = "ingress"
      BY <1>0, <1>6 DEF CreateSg, Goto
    <2>5. QED
      BY <1>1, <1>2, <2>3, <2>4, CoverKept DEF Collecting, Clear
  <1>7. CASE Ingress(k) \/ CreateRole(k) \/ AttachPolicy(k) \/ CreateProfile(k) \/ AddRole(k)
    <2>1. /\ pc[k] \in {"ingress", "role", "attach", "profile", "add_role"} /\ mem' = mem
          /\ \E l \in {"role", "attach", "profile", "add_role", "run"} : Goto(k, l)
      BY <1>7 DEF Ingress, CreateRole, AttachPolicy, CreateProfile, AddRole, Ensure
    <2>2. pc'[k] \in {"role", "attach", "profile", "add_role", "run"}
      BY <1>0, <2>1 DEF Goto
    <2>3. QED
      BY <1>1, <1>2, <2>1, <2>2, CoverKept DEF Collecting, Clear
  <1>8. QED
    BY <1>3, <1>4, <1>5, <1>6, <1>7

(* The steps that find, select, terminate and conclude.                    *)
LEMMA CollectSteps ==
  ASSUME TypeInv, NEW k \in Kernels, Cover(k),
         Describe(k) \/ Select(k) \/ Terminate(k) \/ StopDone(k)
  PROVE  Cover(k)'
  <1>0. /\ mem \in [Kernels -> Mem] /\ mem[k] \in Mem /\ pc \in [Kernels -> Labels]
        /\ box \in [Ids -> Box] /\ mem[k].found \in SUBSET Ref /\ AtHand(pc[k], mem[k])
        /\ Found(mem[k])
    BY DEF TypeInv, TypeOK, Mem
  <1>1. CASE Describe(k)
    <2> DEFINE refs == {[id |-> b, sg |-> SgOf(k, b), ip |-> box[b].ip] : b \in {b \in Ids : Active(b)}}
    <2>1. pc'[k] = "load" /\ box' = box /\ call'[k] = call[k]
      BY <1>0, <1>1 DEF Describe, Goto, aws
    <2>2. mem'[k].found = refs
      <3>1. mem' = [mem EXCEPT ![k].found = refs, ![k].put = refs, ![k].drop = Stale(k)]
        BY <1>1 DEF Describe
      <3>2. PICK n : n = [mem[k] EXCEPT !.found = refs, !.put = refs, !.drop = Stale(k)]
        OBVIOUS
      <3>3. mem'[k] = n
        BY <1>0, <3>1, <3>2
      <3>4. n.found = refs
        BY <1>0, <3>2 DEF Mem
      <3>5. QED
        BY <3>3, <3>4
    <2>3. ASSUME NEW b \in Ids, Live(b) PROVE \E r \in refs : r.id = b
      <3>1. Active(b)
        BY <2>3 DEF Live, Active, ActiveStates
      <3>2. [id |-> b, sg |-> SgOf(k, b), ip |-> box[b].ip] \in refs
        BY <3>1
      <3>3. QED
        BY <3>2
    <2>4. ~Clear(pc'[k])
      BY <2>1 DEF Clear
    <2> HIDE DEF refs
    <2>5. QED
      BY <2>1, <2>2, <2>3, <2>4 DEF Cover, LiveNamed, Live
  <1>2. CASE Select(k)
    <2>1. pc[k] = "select" /\ pc'[k] = "stop" /\ box' = box /\ call'[k] = call[k]
      BY <1>0, <1>2 DEF Select, Goto, aws
    <2>2. mem'[k].found = {r \in mem[k].found : box[r.id].name \in call[k].names}
      BY <1>0, <1>2 DEF Select, Mem
    <2>3. QED
      BY <2>1, <2>2 DEF Cover, LiveNamed, Live, Collecting, Clear
  <1>3. CASE Terminate(k)
    <2>1. pc[k] = "stop" /\ pc'[k] = "load" /\ call'[k] = call[k]
      BY <1>0, <1>3 DEF Terminate, Goto
    <2>2. PICK r \in mem[k].found :
            /\ box' = [box EXCEPT ![r.id] = Terminated(r.id)]
            /\ mem' = [mem EXCEPT ![k].cur = r, ![k].found = @ \ {r},
                                  ![k].drop = {box[r.id].name}, ![k].ret = "delete_sg"]
      BY <1>3 DEF Terminate
    <2>3. r.id \in Ids /\ r \in Ref
      BY <1>0 DEF Ref
    <2>4. mem'[k].found = mem[k].found \ {r}
      <3>1. {box[r.id].name} \in SUBSET Names /\ mem[k].found \ {r} \in SUBSET Ref
        BY <1>0, <2>3 DEF TypeInv, Born, Found
      <3>2. TerminatedAs(mem'[k], mem[k], r, mem[k].found \ {r}, {box[r.id].name})
        BY <1>0, <2>2 DEF TerminatedAs
      <3>3. QED
        BY <1>0, <2>3, <3>1, <3>2, MemTerminated
    <2>5. NoNewLive
      BY <1>3, PowerKeepsLive
    <2>6. ~Live(r.id)'
      <3>1. /\ box[r.id] \in Box
            /\ Terminated(r.id).state \notin {"pending", "running", "stopping", "stopped"}
        BY <1>0, <2>3 DEF Terminated, Live, Box
      <3>2. QED
        BY <1>0, <2>2, <2>3, <3>1 DEF Live
    <2>7. ASSUME NEW b \in Ids, LiveNamed(k, b)' PROVE \E q \in mem'[k].found : q.id = b
      <3>1. LiveNamed(k, b) /\ b # r.id
        BY <2>1, <2>5, <2>6, <2>7 DEF LiveNamed, NoNewLive
      <3>2. PICK q \in mem[k].found : q.id = b
        BY <2>1, <3>1 DEF Cover, Collecting
      <3>3. QED
        BY <2>4, <3>1, <3>2
    <2>8. ~Clear(pc'[k])
      BY <2>1 DEF Clear
    <2>9. QED
      BY <2>7, <2>8 DEF Cover
  <1>4. CASE StopDone(k)
    <2>1. pc[k] = "stop" /\ mem[k].found = {} /\ box' = box
      BY <1>4 DEF StopDone, aws
    <2>2. \A b \in Ids : ~LiveNamed(k, b)
      BY <2>1 DEF Cover, Collecting
    <2>3. CASE call[k].op = "start"
      <3>1. pc'[k] = "create_sg" /\ call'[k] = call[k]
        BY <1>0, <1>4, <2>3 DEF StopDone, Goto
      <3>2. QED
        BY <2>1, <2>2, <3>1 DEF Cover, LiveNamed, Live, Collecting, Clear
    <2>4. CASE call[k].op # "start"
      <3>1. pc'[k] = "idle"
        BY <1>0, <1>4, <2>4 DEF StopDone, Return
      <3>2. QED
        BY <3>1, CoverVoid DEF Collecting, Clear
    <2>5. QED
      BY <2>3, <2>4
  <1>5. QED
    BY <1>1, <1>2, <1>3, <1>4

LEMMA LaunchPaysOnce ==
  ASSUME TypeInv, OneLivePerName, NEW k \in Kernels, Cover(k), RunInstances(k)
  PROVE  OneLivePerName'
  <1>1. box \in [Ids -> Box]
    BY DEF TypeInv, TypeOK
  <1>2. PICK b \in Ids, n \in call[k].names :
          box' = [box EXCEPT ![b] = [state |-> "pending", name |-> n, conf |-> call[k].conf,
                                     sg |-> mem[k].sg, ip |-> FALSE, up |-> FALSE]]
    BY DEF RunInstances
  <1> DEFINE new == [state |-> "pending", name |-> n, conf |-> call[k].conf,
                     sg |-> mem[k].sg, ip |-> FALSE, up |-> FALSE]
  <1>3. box' = [box EXCEPT ![b] = new] /\ new.name = n
    BY <1>2
  <1> HIDE DEF new
  <1>4. \A c \in Ids : Live(c) => box[c].name # n
    BY <1>2 DEF RunInstances, Cover, Clear, LiveNamed
  <1>5. QED
    BY <1>1, <1>3, <1>4 DEF OneLivePerName, Live

(* The instances change only where one is resumed, terminated or launched. *)
LEMMA QuietBox ==
  ASSUME NEW k \in Kernels, Kernel(k)
  PROVE  RunInstances(k) \/ Resume(k) \/ Terminate(k) \/ NukeTerminate(k) \/ UNCHANGED box
  BY DEF Kernel, CallStart, CallStop, CallStatus, CallNuke, Enter, LoadState, SaveForget,
     SaveRemember, SaveDone, LoadKnown, Describe, Select, MatchNone, MatchFound, AwaitStopped,
     AwaitResumed, Reuse, ReuseVanished, Authorize, WaitNoAddress, WaitReady, WaitTimeout,
     DeleteSg, StopDone, CreateSg, Ingress, CreateRole, AttachPolicy, CreateProfile, AddRole,
     Ensure, RunRefused, AwaitRunning, Done, NukeAwait, NukeGroup, NukeDone, AwsFails,
     DescribeFails, Crash, Raise, Discover, aws

LEMMA PayInit == Init => PayInv
  <1> SUFFICES ASSUME Init PROVE PayInv
    OBVIOUS
  <1>1. \A b \in Ids : ~Live(b)
    BY DEF Init, Live, Unborn
  <1>2. \A k \in Kernels : Cover(k)
    BY DEF Init, Cover, Collecting, Clear
  <1>3. QED
    BY <1>1, <1>2, InitTypes DEF PayInv, OneLivePerName

LEMMA PayNext ==
  ASSUME Alone, PayInv, [Next]_vars
  PROVE  PayInv'
  <1>0. TypeInv /\ OneLivePerName
    BY DEF PayInv
  <1>1. TypeInv'
    BY <1>0, NextTypes
  <1>2. CASE UNCHANGED vars
    <2>1. UNCHANGED <<box, pc, call, mem>>
      BY <1>2 DEF vars, aws
    <2>2. \A k \in Kernels : Cover(k)'
      BY <2>1, BoxSame, CoverKept DEF PayInv
    <2>3. QED
      BY <1>0, <1>1, <2>1, <2>2, BoxSame, LiveKeeps DEF PayInv
  <1>3. CASE Environment
    <2>1. NoNewLive
      BY <1>0, <1>3, EnvironmentKeepsLive
    <2>2. UNCHANGED <<pc, call, mem>>
      BY <1>3 DEF Environment, Roam, GetsAddress, Boots, ComesUp, Pauses, Paused, Ends, Becomes
    <2>3. \A k \in Kernels : Cover(k)'
      BY <2>1, <2>2, CoverKept DEF PayInv
    <2>4. QED
      BY <1>0, <1>1, <2>1, <2>3, LiveKeeps DEF PayInv
  <1>4. ASSUME NEW k \in Kernels, Kernel(k) PROVE PayInv'
    <2>1. Cover(k)
      BY DEF PayInv
    <2>2. Cover(k)'
      BY <1>0, <1>4, <2>1, QuietSteps, RememberSteps, CarrySteps, CollectSteps DEF Kernel
    <2>3. OneLivePerName'
      <3>1. CASE RunInstances(k)
        BY <1>0, <2>1, <3>1, LaunchPaysOnce
      <3>2. CASE Resume(k) \/ Terminate(k) \/ NukeTerminate(k)
        BY <1>0, <3>2, PowerKeepsLive, LiveKeeps
      <3>3. CASE UNCHANGED box
        BY <1>0, <3>3, BoxSame, LiveKeeps
      <3>4. RunInstances(k) \/ Resume(k) \/ Terminate(k) \/ NukeTerminate(k) \/ UNCHANGED box
        BY <1>4, QuietBox
      <3>5. QED
        BY <3>1, <3>2, <3>3, <3>4
    <2>4. \A j \in Kernels : j = k
      BY DEF Alone
    <2>5. QED
      BY <1>1, <2>2, <2>3, <2>4 DEF PayInv
  <1>5. QED
    BY <1>2, <1>3, <1>4 DEF Next

(* With one kernel there is never a second instance of a name, pending,    *)
(* running or paused: a start launches only after it has seen, and         *)
(* terminated, every one there was, however earlier calls ended, however   *)
(* many names, instances and groups there are.                             *)
THEOREM PaidOnce == ASSUME Alone PROVE Spec => []OneLivePerName
  <1>1. Init => PayInv
    BY PayInit
  <1>2. PayInv /\ [Next]_vars => PayInv'
    BY PayNext
  <1>3. PayInv => OneLivePerName
    BY DEF PayInv
  <1>4. QED
    BY <1>1, <1>2, <1>3, PTL DEF Spec

-----------------------------------------------------------------------------
(* What nuke() leaves of what it found, among the steps of kernels that    *)
(* launch, stop and nuke at the same time: calls and their results.        *)

(* A call that is not over has no result.                                  *)
Open == \A k \in Kernels : pc[k] # "idle" => result[k] = "none"

LEMMA OpenNext == ASSUME TypeInv, Open, [Next]_vars PROVE Open'
  <1>0. pc \in [Kernels -> Labels] /\ DOMAIN result = Kernels
    BY DEF TypeInv, TypeOK
  <1>1. ASSUME UNCHANGED <<pc, result>> PROVE Open'
    BY <1>1 DEF Open
  <1>2. CASE UNCHANGED vars
    BY <1>1, <1>2 DEF vars
  <1>3. CASE Environment
    BY <1>1, <1>3 DEF Environment, Roam, GetsAddress, Boots, ComesUp, Pauses, Paused, Ends, Becomes
  <1>4. ASSUME NEW k \in Kernels, Kernel(k) PROVE Open'
    <2>1. ASSUME NEW r, Return(k, r) PROVE Open'
      BY <1>0, <2>1 DEF Return, Open
    <2>2. ASSUME NEW l, Goto(k, l), pc[k] # "idle" PROVE Open'
      BY <1>0, <2>2 DEF Goto, Open
    <2>3. ASSUME NEW c, NEW l, NEW m, Enter(k, c, l, m) PROVE Open'
      BY <1>0, <2>3 DEF Enter, Open
    <2>4. CASE CallStart(k) \/ CallStop(k) \/ CallStatus(k) \/ CallNuke(k)
      BY <2>3, <2>4 DEF CallStart, CallStop, CallStatus, CallNuke
    <2>5. CASE \/ LoadState(k) \/ SaveForget(k) \/ SaveRemember(k) \/ SaveDone(k)
               \/ LoadKnown(k) \/ Describe(k) \/ Select(k)
      BY <2>2, <2>5 DEF LoadState, SaveForget, SaveRemember, SaveDone, LoadKnown, Describe, Select
    <2>6. CASE \/ MatchNone(k) \/ MatchFound(k) \/ AwaitStopped(k) \/ Resume(k) \/ AwaitResumed(k)
               \/ Reuse(k) \/ ReuseVanished(k) \/ Authorize(k) \/ WaitReady(k)
      BY <2>2, <2>6 DEF MatchNone, MatchFound, AwaitStopped, Resume, AwaitResumed, Reuse, ReuseVanished,
         Authorize, WaitReady, Waiting, Discover
    <2>7. CASE \/ Terminate(k) \/ DeleteSg(k) \/ StopDone(k) \/ CreateSg(k) \/ Ingress(k)
      BY <2>1, <2>2, <2>7 DEF Terminate, DeleteSg, StopDone, CreateSg, Ingress
    <2>8. CASE \/ CreateRole(k) \/ AttachPolicy(k) \/ CreateProfile(k) \/ AddRole(k)
               \/ RunInstances(k) \/ AwaitRunning(k) \/ NukeTerminate(k) \/ NukeAwait(k)
      BY <2>2, <2>8 DEF CreateRole, AttachPolicy, CreateProfile, AddRole, Ensure, RunInstances,
         AwaitRunning, NukeTerminate, NukeAwait
    <2>9. CASE \/ WaitNoAddress(k) \/ WaitTimeout(k) \/ RunRefused(k) \/ Done(k) \/ NukeDone(k)
               \/ AwsFails(k) \/ DescribeFails(k) \/ Crash(k)
      BY <2>1, <2>9 DEF WaitNoAddress, WaitTimeout, RunRefused, Done, NukeDone, AwsFails,
         DescribeFails, Crash, Raise
    <2>10. CASE NukeGroup(k)
      BY <1>1, <2>10 DEF NukeGroup
    <2>11. QED
      BY <1>4, <2>4, <2>5, <2>6, <2>7, <2>8, <2>9, <2>10 DEF Kernel
  <1>5. QED
    BY <1>2, <1>3, <1>4 DEF Next

-----------------------------------------------------------------------------
(* Instances that are terminated and groups that are deleted.              *)

(* A termination.                                                          *)
LEMMA TerminatedIs ==
  ASSUME TypeInv, NEW b \in Ids
  PROVE  /\ Terminated(b).name = box[b].name /\ Terminated(b).sg = box[b].sg
         /\ Terminated(b).conf = box[b].conf
         /\ Terminated(b).state = IF Live(b) THEN "shutting-down" ELSE box[b].state
  <1>1. box[b] \in Box
    BY DEF TypeInv, TypeOK
  <1>2. QED
    BY <1>1 DEF Terminated, Box

(* A terminated instance stays so, and keeps its group.                    *)
StaysOver ==
    \A b \in Ids : box[b].state = "terminated" => box'[b].state = "terminated" /\ box'[b].sg = box[b].sg

(* No group an instance had comes back.                                    *)
NotAgain == \A b \in Ids : box[b].sg \in Groups /\ group'[box[b].sg].exists => group[box[b].sg].exists

LEMMA OverStays == ASSUME TypeInv, [Next]_vars PROVE StaysOver
  <1>0. box \in [Ids -> Box]
    BY DEF TypeInv, TypeOK
  <1>1. ASSUME UNCHANGED box PROVE StaysOver
    BY <1>1 DEF StaysOver
  <1>2. CASE UNCHANGED vars
    BY <1>1, <1>2 DEF vars, aws
  <1>3. CASE Environment
    <2>1. CASE Roam
      BY <1>1, <2>1 DEF Roam, aws
    <2>2. ASSUME NEW b \in Ids,
                 \/ GetsAddress(b) \/ Boots(b) \/ ComesUp(b) \/ Pauses(b) \/ Paused(b) \/ Ends(b)
          PROVE  StaysOver
      <3>1. PICK new : box' = [box EXCEPT ![b] = new] /\ box[b].state # "terminated"
        BY <2>2 DEF GetsAddress, Boots, ComesUp, Pauses, Paused, Ends, Becomes
      <3>2. QED
        BY <1>0, <3>1 DEF StaysOver
    <2>3. QED
      BY <1>3, <2>1, <2>2 DEF Environment
  <1>4. ASSUME NEW k \in Kernels, Kernel(k) PROVE StaysOver
    <2>1. CASE Resume(k)
      <3>1. PICK new : box' = [box EXCEPT ![mem[k].match] = new] /\ box[mem[k].match].state # "terminated"
        BY <2>1 DEF Resume
      <3>2. QED
        BY <1>0, <3>1 DEF StaysOver
    <2>2. CASE Terminate(k)
      <3>1. PICK r \in mem[k].found : box' = [box EXCEPT ![r.id] = Terminated(r.id)]
        BY <2>2 DEF Terminate
      <3>2. QED
        BY <1>0, <3>1, TerminatedIs DEF StaysOver, Live
    <2>3. CASE NukeTerminate(k)
      <3>1. \A b \in Ids : box'[b] = box[b] \/ box'[b] = Terminated(b)
        BY <2>3 DEF NukeTerminate
      <3>2. QED
        BY <3>1, TerminatedIs DEF StaysOver, Live
    <2>4. CASE RunInstances(k)
      <3>1. PICK b \in Ids : (\E new : box' = [box EXCEPT ![b] = new]) /\ box[b].state = "unborn"
        BY <2>4 DEF RunInstances
      <3>2. QED
        BY <1>0, <3>1 DEF StaysOver
    <2>5. RunInstances(k) \/ Resume(k) \/ Terminate(k) \/ NukeTerminate(k) \/ UNCHANGED box
      BY <1>4, QuietBox
    <2>6. QED
      BY <1>1, <2>1, <2>2, <2>3, <2>4, <2>5
  <1>5. QED
    BY <1>2, <1>3, <1>4 DEF Next

LEMMA GroupsStayDeleted == ASSUME TypeInv, [Next]_vars PROVE NotAgain
  <1>0. group \in [Groups -> Group] /\ ~NoGroup.exists
    BY DEF TypeInv, TypeOK, NoGroup
  <1>1. ASSUME UNCHANGED group PROVE NotAgain
    BY <1>1 DEF NotAgain
  <1>2. CASE UNCHANGED vars
    BY <1>1, <1>2 DEF vars, aws
  <1>3. CASE Environment
    BY <1>1, <1>3 DEF Environment, Roam, GetsAddress, Boots, ComesUp, Pauses, Paused, Ends, Becomes, aws
  <1>4. ASSUME NEW k \in Kernels, Kernel(k) PROVE NotAgain
    <2>1. ASSUME NEW g, group' = [group EXCEPT ![g] = NoGroup] PROVE NotAgain
      BY <1>0, <2>1 DEF NotAgain
    <2>2. ASSUME NEW g, group[g].exists, NEW new, group' = [group EXCEPT ![g] = new] PROVE NotAgain
      BY <1>0, <2>2 DEF NotAgain
    <2>3. CASE Authorize(k)
      <3>1. PICK g : g = mem[k].cur.sg
        OBVIOUS
      <3>2. PICK new : new = [group[g] EXCEPT !.open = @ \cup {addr}]
        OBVIOUS
      <3>3. group[g].exists /\ group' = [group EXCEPT ![g] = new]
        BY <2>3, <3>1, <3>2 DEF Authorize
      <3>4. QED
        BY <2>2, <3>3
    <2>4. CASE Ingress(k)
      <3>1. PICK g : g = mem[k].sg
        OBVIOUS
      <3>2. PICK new : new = [group[g] EXCEPT !.open = {mem[k].via}]
        OBVIOUS
      <3>3. group[g].exists /\ group' = [group EXCEPT ![g] = new]
        BY <2>4, <3>1, <3>2 DEF Ingress
      <3>4. QED
        BY <2>2, <3>3
    <2>5. CASE CreateSg(k)
      <3>1. PICK g \in Groups : /\ \A b \in Ids : box[b].sg # g
                                /\ group' = [group EXCEPT ![g].exists = TRUE]
        BY <2>5 DEF CreateSg
      <3>2. QED
        BY <1>0, <3>1 DEF NotAgain
    <2>6. CASE DeleteSg(k) \/ RunRefused(k) \/ NukeGroup(k)
      BY <1>1, <2>1, <2>6 DEF DeleteSg, RunRefused, NukeGroup
    <2>7. \/ Authorize(k) \/ Ingress(k) \/ CreateSg(k) \/ DeleteSg(k) \/ RunRefused(k) \/ NukeGroup(k)
          \/ UNCHANGED group
      BY <1>4 DEF Kernel, CallStart, CallStop, CallStatus, CallNuke, Enter, LoadState, SaveForget,
         SaveRemember, SaveDone, LoadKnown, Describe, Select, MatchNone, MatchFound, AwaitStopped, Resume,
         AwaitResumed, Reuse, ReuseVanished, WaitNoAddress, WaitReady, WaitTimeout,
         Terminate, StopDone, CreateRole, AttachPolicy, CreateProfile, AddRole,
         Ensure, RunInstances, AwaitRunning, Done, NukeTerminate, NukeAwait, NukeDone, AwsFails,
         DescribeFails, Crash, Raise, Discover, aws
    <2>8. QED
      BY <1>1, <2>3, <2>4, <2>5, <2>6, <2>7
  <1>5. QED
    BY <1>2, <1>3, <1>4 DEF Next

-----------------------------------------------------------------------------
(* Whose steps they are.                                                   *)

(* A kernel moves no other.                                                *)
LEMMA OwnStep ==
  ASSUME TypeInv, [Next]_vars, NEW k \in Kernels
  PROVE  Kernel(k) \/ (pc'[k] = pc[k] /\ mem'[k] = mem[k] /\ result'[k] = result[k])
  <1>0. mem \in [Kernels -> Mem] /\ pc \in [Kernels -> Labels] /\ DOMAIN result = Kernels
    BY DEF TypeInv, TypeOK
  <1>1. CASE UNCHANGED vars
    BY <1>1 DEF vars
  <1>2. CASE Environment
    BY <1>2 DEF Environment, Roam, GetsAddress, Boots, ComesUp, Pauses, Paused, Ends, Becomes
  <1>3. ASSUME NEW j \in Kernels, Kernel(j), j # k
        PROVE  pc'[k] = pc[k] /\ mem'[k] = mem[k] /\ result'[k] = result[k]
    <2>1. ASSUME NEW r, Return(j, r) PROVE pc'[k] = pc[k] /\ mem'[k] = mem[k] /\ result'[k] = result[k]
      BY <1>0, <1>3, <2>1 DEF Return
    <2>2. ASSUME NEW l, Goto(j, l), mem'[k] = mem[k]
          PROVE  pc'[k] = pc[k] /\ mem'[k] = mem[k] /\ result'[k] = result[k]
      BY <1>0, <1>3, <2>2 DEF Goto
    <2>3. ASSUME NEW c, NEW l, NEW m, Enter(j, c, l, m)
          PROVE  pc'[k] = pc[k] /\ mem'[k] = mem[k] /\ result'[k] = result[k]
      BY <1>0, <1>3, <2>3 DEF Enter
    <2>4. CASE CallStart(j) \/ CallStop(j) \/ CallStatus(j) \/ CallNuke(j)
      BY <2>3, <2>4 DEF CallStart, CallStop, CallStatus, CallNuke
    <2>5. CASE \/ LoadState(j) \/ SaveForget(j) \/ SaveRemember(j) \/ SaveDone(j)
               \/ LoadKnown(j) \/ Describe(j) \/ Select(j)
      <3>1. mem'[k] = mem[k]
        BY <1>0, <1>3, <2>5 DEF LoadState, SaveForget, SaveRemember, SaveDone, LoadKnown, Describe, Select
      <3>2. QED
        BY <2>2, <2>5, <3>1 DEF LoadState, SaveForget, SaveRemember, SaveDone, LoadKnown, Describe, Select
    <2>6. CASE \/ MatchNone(j) \/ MatchFound(j) \/ AwaitStopped(j) \/ Resume(j) \/ AwaitResumed(j)
               \/ Reuse(j) \/ ReuseVanished(j) \/ Authorize(j) \/ WaitReady(j)
      <3>1. mem'[k] = mem[k]
        BY <1>0, <1>3, <2>6 DEF MatchNone, MatchFound, AwaitStopped, Resume, AwaitResumed, Reuse,
           ReuseVanished, Authorize, WaitReady, Discover
      <3>2. QED
        BY <2>2, <2>6, <3>1 DEF MatchNone, MatchFound, AwaitStopped, Resume, AwaitResumed, Reuse,
           ReuseVanished, Authorize, WaitReady, Discover
    <2>7. CASE Terminate(j) \/ DeleteSg(j) \/ CreateSg(j) \/ Ingress(j)
      <3>1. mem'[k] = mem[k]
        BY <1>0, <1>3, <2>7 DEF Terminate, DeleteSg, CreateSg, Ingress
      <3>2. QED
        BY <2>2, <2>7, <3>1 DEF Terminate, DeleteSg, CreateSg, Ingress
    <2>8. CASE \/ CreateRole(j) \/ AttachPolicy(j) \/ CreateProfile(j) \/ AddRole(j)
               \/ RunInstances(j) \/ AwaitRunning(j) \/ NukeTerminate(j) \/ NukeAwait(j)
      <3>1. mem'[k] = mem[k]
        BY <1>0, <1>3, <2>8 DEF CreateRole, AttachPolicy, CreateProfile, AddRole, Ensure, RunInstances,
           AwaitRunning, NukeTerminate, NukeAwait
      <3>2. QED
        BY <2>2, <2>8, <3>1 DEF CreateRole, AttachPolicy, CreateProfile, AddRole, Ensure, RunInstances,
           AwaitRunning, NukeTerminate, NukeAwait
    <2>9. CASE \/ WaitNoAddress(j) \/ WaitTimeout(j) \/ RunRefused(j) \/ Done(j) \/ NukeDone(j)
               \/ AwsFails(j) \/ DescribeFails(j) \/ Crash(j) \/ StopDone(j)
      BY <2>1, <2>2, <2>9 DEF WaitNoAddress, WaitTimeout, RunRefused, Done, NukeDone, AwsFails,
         DescribeFails, Crash, StopDone, Raise
    <2>10. CASE NukeGroup(j)
      BY <1>0, <1>3, <2>10 DEF NukeGroup
    <2>11. QED
      BY <1>3, <2>4, <2>5, <2>6, <2>7, <2>8, <2>9, <2>10 DEF Kernel
  <1>4. QED
    BY <1>1, <1>2, <1>3 DEF Next

(* nuke() ends by itself only where no group is left, ...                  *)
LEMMA LeavesGroups ==
  ASSUME TypeInv, NEW k \in Kernels, Kernel(k), pc[k] = "nuke_groups", result'[k] = "ok", result[k] # "ok"
  PROVE  NukeDone(k)
  <1>1. ~AwsFails(k) /\ ~Crash(k) /\ ~NukeGroup(k)
    BY DEF AwsFails, Crash, NukeGroup, Raise, Return, TypeInv, TypeOK
  <1>2. QED
    BY <1>1 DEF Kernel, CallStart, CallStop, CallStatus, CallNuke, Enter, LoadState, SaveForget,
       SaveRemember, SaveDone, LoadKnown, Describe, Select, MatchNone, MatchFound, AwaitStopped,
       Resume, AwaitResumed, Reuse, ReuseVanished, Authorize, WaitNoAddress, WaitReady, WaitTimeout,
       Waiting, Terminate, DeleteSg, StopDone, CreateSg, Ingress, CreateRole, AttachPolicy,
       CreateProfile, AddRole, Ensure, RunInstances, RunRefused, AwaitRunning, Done, NukeTerminate,
       NukeAwait, DescribeFails

(* ... and gets to the groups by waiting for the instances only.           *)
LEMMA ReachesGroups ==
  ASSUME TypeInv, NEW k \in Kernels, Kernel(k), pc'[k] = "nuke_groups"
  PROVE  NukeAwait(k) \/ NukeGroup(k)
  <1>0. pc \in [Kernels -> Labels] /\ mem[k].ret # "nuke_groups"
    BY DEF TypeInv, TypeOK, Mem
  <1>1. ~(CallStart(k) \/ CallStop(k) \/ CallStatus(k) \/ CallNuke(k))
    BY <1>0 DEF CallStart, CallStop, CallStatus, CallNuke, Enter
  <1>2. ~(\/ LoadState(k) \/ SaveForget(k) \/ SaveRemember(k) \/ SaveDone(k)
          \/ LoadKnown(k) \/ Describe(k) \/ Select(k))
    BY <1>0 DEF LoadState, SaveForget, SaveRemember, SaveDone, LoadKnown, Describe, Select, Goto
  <1>3. ~(\/ MatchNone(k) \/ MatchFound(k) \/ AwaitStopped(k) \/ Resume(k) \/ AwaitResumed(k)
          \/ Reuse(k) \/ ReuseVanished(k) \/ Authorize(k) \/ WaitReady(k))
    BY <1>0 DEF MatchNone, MatchFound, AwaitStopped, Resume, AwaitResumed, Reuse, ReuseVanished,
       Authorize, WaitReady, Discover, Goto
  <1>4. ~(\/ Terminate(k) \/ DeleteSg(k) \/ StopDone(k) \/ CreateSg(k) \/ Ingress(k))
    BY <1>0 DEF Terminate, DeleteSg, StopDone, CreateSg, Ingress, Goto, Return
  <1>5. ~(\/ CreateRole(k) \/ AttachPolicy(k) \/ CreateProfile(k) \/ AddRole(k)
          \/ RunInstances(k) \/ AwaitRunning(k) \/ NukeTerminate(k))
    BY <1>0 DEF CreateRole, AttachPolicy, CreateProfile, AddRole, Ensure, RunInstances, AwaitRunning,
       NukeTerminate, Goto
  <1>6. ~(\/ WaitNoAddress(k) \/ WaitTimeout(k) \/ RunRefused(k) \/ Done(k) \/ NukeDone(k)
          \/ AwsFails(k) \/ DescribeFails(k) \/ Crash(k))
    BY <1>0 DEF WaitNoAddress, WaitTimeout, RunRefused, Done, NukeDone, AwsFails, DescribeFails,
       Crash, Raise, Return
  <1>7. QED
    BY <1>1, <1>2, <1>3, <1>4, <1>5, <1>6 DEF Kernel

-----------------------------------------------------------------------------
(* The groups.                                                             *)

(* While it deletes groups: what it found is terminated, and its groups    *)
(* are deleted or still on the list.                                       *)
Clearing(k) ==
    pc[k] = "nuke_groups" => \A r \in mem[k].found :
        /\ box[r.id].state = "terminated"
        /\ group[box[r.id].sg].exists => box[r.id].sg \in mem[k].gone

NukeInv == TypeInv /\ Open /\ \A k \in Kernels : Clearing(k)

LEMMA ClearingNext ==
  ASSUME NukeInv, [Next]_vars, NEW k \in Kernels
  PROVE  Clearing(k)'
  <1> SUFFICES ASSUME pc'[k] = "nuke_groups", NEW r \in mem'[k].found
               PROVE  /\ box'[r.id].state = "terminated"
                      /\ group'[box'[r.id].sg].exists => box'[r.id].sg \in mem'[k].gone
    BY DEF Clearing
  <1>0. TypeInv /\ Clearing(k) /\ StaysOver /\ NotAgain
    BY OverStays, GroupsStayDeleted DEF NukeInv
  <1>1. ASSUME r \in mem[k].found, box[r.id].state = "terminated",
               group[box[r.id].sg].exists => box[r.id].sg \in mem[k].gone
        PROVE  /\ box'[r.id].state = "terminated" /\ box'[r.id].sg = box[r.id].sg
               /\ box[r.id].sg \in Groups
               /\ group'[box[r.id].sg].exists => box[r.id].sg \in mem[k].gone
    <2>1. r.id \in Ids
      BY <1>0, <1>1 DEF TypeInv, TypeOK, Mem, Ref
    <2>2. box[r.id].sg \in Groups
      BY <1>0, <1>1, <2>1 DEF TypeInv, Born
    <2>3. QED
      BY <1>0, <1>1, <2>1, <2>2 DEF StaysOver, NotAgain
  <1>2. CASE pc'[k] = pc[k] /\ mem'[k] = mem[k]
    BY <1>0, <1>1, <1>2 DEF Clearing
  <1>3. CASE NukeAwait(k)
    <2>1. mem' = [mem EXCEPT ![k].gone = {g \in Groups : group[g].exists}] /\ UNCHANGED <<box, group>>
      BY <1>3 DEF NukeAwait, aws
    <2>2. mem'[k].gone = {g \in Groups : group[g].exists} /\ mem'[k].found = mem[k].found
      BY <1>0, <2>1 DEF TypeInv, TypeOK, Mem
    <2>3. box[r.id].state = "terminated"
      BY <1>3, <2>2 DEF NukeAwait
    <2>4. box[r.id].sg \in Groups
      <3>1. r.id \in Ids
        BY <1>0, <2>2 DEF TypeInv, TypeOK, Mem, Ref
      <3>2. QED
        BY <1>0, <2>3, <3>1 DEF TypeInv, Born
    <2>5. QED
      BY <2>1, <2>2, <2>3, <2>4
  <1>4. CASE NukeGroup(k)
    <2>1. PICK g \in mem[k].gone : /\ group' = [group EXCEPT ![g] = NoGroup]
                                   /\ mem' = [mem EXCEPT ![k].gone = @ \ {g}]
      BY <1>4 DEF NukeGroup
    <2>2. mem'[k].gone = mem[k].gone \ {g} /\ mem'[k].found = mem[k].found
      BY <1>0, <2>1 DEF TypeInv, TypeOK, Mem
    <2>3. /\ box'[r.id].state = "terminated" /\ box'[r.id].sg = box[r.id].sg
          /\ box[r.id].sg \in Groups
          /\ group'[box[r.id].sg].exists => box[r.id].sg \in mem[k].gone
      BY <1>0, <1>1, <1>4, <2>2 DEF Clearing, NukeGroup
    <2>4. ~group'[g].exists
      <3>1. group \in [Groups -> Group] /\ g \in Groups
        BY <1>0, <2>1 DEF TypeInv, TypeOK, Mem
      <3>2. QED
        BY <2>1, <3>1 DEF NoGroup
    <2>5. QED
      BY <2>2, <2>3, <2>4
  <1>5. QED
    BY <1>0, <1>2, <1>3, <1>4, OwnStep, ReachesGroups

(* What nuke() found is terminated when it returns, and the groups of what *)
(* it found are deleted, for any number of kernels that start, stop, nuke  *)
(* and crash at the same time.                                             *)
THEOREM NukeClearsFound == Spec => NukeRemovesFound
  <1>1. Init => NukeInv
    BY InitTypes DEF Init, NukeInv, Open, Clearing
  <1>2. NukeInv /\ [Next]_vars => NukeInv'
    BY NextTypes, OpenNext, ClearingNext DEF NukeInv
  <1>3. ASSUME NukeInv, [Next]_vars, NEW k \in Kernels, Nuked(k), NEW r \in mem[k].found
        PROVE  box[r.id].state = "terminated" /\ ~group[box[r.id].sg].exists
    <2>1. /\ TypeInv /\ Clearing(k) /\ pc[k] = "nuke_groups"
          /\ result[k] = "none" /\ result'[k] = "ok"
      BY <1>3 DEF NukeInv, Nuked, Open
    <2>2. NukeDone(k)
      BY <1>3, <2>1, OwnStep, LeavesGroups
    <2>3. QED
      BY <2>1, <2>2 DEF NukeDone, Clearing
  <1>4. NukeInv /\ [Next]_vars =>
          [\A k \in Kernels : Nuked(k) =>
              \A r \in mem[k].found :
                 box[r.id].state = "terminated" /\ ~group[box[r.id].sg].exists]_vars
    BY <1>3
  <1>5. QED
    BY <1>1, <1>2, <1>4, PTL DEF Spec, NukeRemovesFound

=============================================================================
