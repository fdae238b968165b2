------------------------- MODULE Ec2OneKernel_proofs -------------------------
(***************************************************************************)
(* What one kernel can rely on in EC2, whatever failed, crashed or was     *)
(* paused before, for any number of names, instances, groups and           *)
(* addresses: what a start hands out, what it spares, what a stop and a    *)
(* nuke leave, and what a status writes.                                   *)
(***************************************************************************)
EXTENDS Ec2Provider_proofs

-----------------------------------------------------------------------------
(* The inductive invariant.                                                *)

Between(l) == l \in {"load", "save"}     \* in the state file
Looking(l) == l \in {"known", "describe"}

(* An instance that is paid for or on its way out is the only one of its   *)
(* name, and the state file names no other group than its own.             *)
OneActive == \A b, c \in Ids : Active(b) /\ Active(c) /\ box[b].name = box[c].name => b = c

FileTells ==
    \A b \in Ids : Active(b) /\ file[box[b].name] # None => file[box[b].name] = box[b].sg

(* What a call has in hand was launched and has the group that AWS says.   *)
Sound(r) == r \in Ref /\ box[r.id].state # "unborn" /\ r.sg = box[r.id].sg

Truth(k) ==
    /\ \A r \in mem[k].found \cup mem[k].put : Sound(r)
    /\ mem[k].cur # NoRef => Sound(mem[k].cur)

(* The state file as it was loaded; the writes that are left.              *)
Filing(k) ==
    /\ pc[k] \in {"save", "describe"} => mem[k].st = file
    /\ ~Between(pc[k]) => mem[k].put = {} /\ mem[k].drop = {}
    /\ \A r \in mem[k].put, b \in Ids : Active(b) /\ box[b].name = box[r.id].name => b = r.id

(* A start() that has found a match and is to find it again.               *)
Seeks(k) ==
    \/ pc[k] \in {"await_stopped", "resume", "await_resumed", "reuse"}
    \/ (Looking(pc[k]) \/ Between(pc[k])) /\ mem[k].ret = "reuse"

(* A status() goes through discover() and nothing else; a start() that     *)
(* looks for a match is for one name.                                      *)
Course(k) ==
    /\ call[k].op = "status" =>
          /\ pc[k] \in {"idle", "known", "describe", "load", "save", "done"}
          /\ mem[k].ret = "done"
    /\ Looking(pc[k]) /\ mem[k].ret = "done" => call[k].op = "status"
    /\ Seeks(k) \/ pc[k] = "match" => \E n \in Names : call[k].names = {n}

(* The instance at hand is being terminated.                               *)
InHand(k) == pc[k] = "delete_sg" \/ (Between(pc[k]) /\ mem[k].ret = "delete_sg")

Collects(k) == pc[k] \in {"select", "stop"} \/ InHand(k) \/ (Between(pc[k]) /\ mem[k].ret = "select")

Launches(k) == pc[k] \in {"create_sg", "ingress", "role", "attach", "profile", "add_role", "run"}

Named(k, b) == box[b].name \in call[k].names

(* Nothing of the names that are stopped, or replaced, is overlooked ...   *)
Covered(k) ==
    /\ Collects(k) => \A b \in Ids : Active(b) /\ Named(k, b) =>
          (\E r \in mem[k].found : r.id = b) \/ (InHand(k) /\ mem[k].cur.id = b)
    /\ Launches(k) => \A b \in Ids : ~(Active(b) /\ Named(k, b))

(* ... nor any entry of theirs in the state file.                          *)
Forgets(k) ==
    /\ Collects(k) =>
          /\ \A n \in call[k].names : file[n] # None =>
                n \in mem[k].drop \/ \E r \in mem[k].found : box[r.id].name = n
          /\ mem[k].put \subseteq mem[k].found
    /\ Launches(k) => \A n \in call[k].names : file[n] = None

(* What is terminated was asked to be, and no start() that is not forced   *)
(* gets as far as that with a match.                                       *)
Spares(k) ==
    /\ pc[k] = "stop" \/ InHand(k) => \A r \in mem[k].found : Named(k, r.id)
    /\ call[k].op = "start" /\ ~call[k].force /\ (Collects(k) \/ (Looking(pc[k]) /\ mem[k].ret = "select"))
          => \A b \in Ids : Live(b) /\ Named(k, b) => box[b].conf # call[k].conf

Asked(k, b) == b \in Ids /\ Live(b) /\ Named(k, b) /\ box[b].conf = call[k].conf

(* The match of the first search is what the second one finds.             *)
Matched(k) ==
    /\ Seeks(k) => Asked(k, mem[k].match)
    /\ pc[k] = "reuse" \/ (Between(pc[k]) /\ mem[k].ret = "reuse") =>
          /\ \E r \in mem[k].found : r.id = mem[k].match
          /\ \A r \in mem[k].found : Named(k, r.id) => r.id = mem[k].match
    /\ pc[k] = "await_running" => Asked(k, mem[k].match) /\ box[mem[k].match].sg = mem[k].sg

(* An instance is about to be handed out, or is.                           *)
HandsOut(k) ==
    /\ call[k].op # "status"
    /\ pc[k] \in {"reuse_wait", "wait", "done"} \/ (Between(pc[k]) /\ mem[k].ret \in {"wait", "done"})

Handed(k) == pc[k] = "authorize" \/ HandsOut(k) => mem[k].cur \in Ref /\ Asked(k, mem[k].cur.id)

LetIn(k) ==
    /\ pc[k] \in {"role", "attach", "profile", "add_role", "run", "await_running"} =>
          mem[k].via \in group[mem[k].sg].open
    /\ HandsOut(k) => mem[k].via \in group[mem[k].cur.sg].open

(* What is left for nuke() to do.                                          *)
Nuking(k) ==
    /\ pc[k] \in {"nuke_terminate", "nuke_await"} =>
          \A b \in Ids : Active(b) => \E r \in mem[k].found : r.id = b
    /\ pc[k] = "nuke_groups" =>
          /\ \A b \in Ids : ~Active(b)
          /\ \A g \in Groups : group[g].exists => g \in mem[k].gone

(* What a status() has still to write, and what it has written.            *)
Recorded(k) ==
    call[k].op = "status" /\ (Between(pc[k]) \/ pc[k] = "done") =>
        /\ \A n \in Names : file[n] # None =>
              n \in mem[k].drop \/ \E r \in mem[k].found : box[r.id].name = n
        /\ \A r \in mem[k].found :
              \/ r \in mem[k].put
              \/ \E q \in mem[k].found : box[q.id].name = box[r.id].name /\ file[box[r.id].name] = q.sg
        /\ mem[k].put \subseteq mem[k].found
        /\ mem[k].drop # {} => mem[k].put = mem[k].found

Local(k) ==
    /\ Truth(k) /\ Filing(k) /\ Course(k)
    /\ Covered(k) /\ Forgets(k) /\ Spares(k)
    /\ Matched(k) /\ Handed(k) /\ LetIn(k)
    /\ Nuking(k) /\ Recorded(k)

SoleInv == TypeInv /\ Open /\ OneActive /\ FileTells /\ \A k \in Kernels : Local(k)

-----------------------------------------------------------------------------
(* Steps by what they do to the instances.                                 *)

(* Who an instance is does not change; only a launch makes one active, and *)
(* only a termination ends one that is live.                               *)
Kept ==
    \A b \in Ids : box[b].state # "unborn" =>
        /\ box'[b].state # "unborn" /\ box'[b].name = box[b].name
        /\ box'[b].sg = box[b].sg /\ box'[b].conf = box[b].conf

Calm == Kept /\ \A b \in Ids : (Active(b)' => Active(b)) /\ (Live(b)' <=> Live(b))

LEMMA Alive == \A b \in Ids : Live(b) => Active(b) /\ box[b].state # "unborn"
  BY DEF Live, Active, ActiveStates

LEMMA Launched == \A b \in Ids : Active(b) => box[b].state # "unborn"
  BY DEF Active, ActiveStates

LEMMA BoxCalm == UNCHANGED box => Calm
  BY DEF Calm, Kept, Active, Live

LEMMA EnvironmentCalm ==
  ASSUME TypeInv, Environment
  PROVE  Calm /\ UNCHANGED <<group, file, pc, call, mem>>
  <1>1. CASE Roam
    BY <1>1, BoxCalm DEF Roam, aws
  <1>2. ASSUME NEW b \in Ids,
               \/ GetsAddress(b) \/ Boots(b) \/ ComesUp(b) \/ Pauses(b) \/ Paused(b) \/ Ends(b)
        PROVE  Calm /\ UNCHANGED <<group, file, pc, call, mem>>
    <2>1. box[b] \in Box /\ box \in [Ids -> Box]
      BY DEF TypeInv, TypeOK
    <2>2. PICK new : /\ box' = [box EXCEPT ![b] = new]
                     /\ \/ Live(b) /\ \/ new = [box[b] EXCEPT !.ip = TRUE]
                                       \/ new = [box[b] EXCEPT !.state = "running", !.ip = TRUE]
                                       \/ new = [box[b] EXCEPT !.up = TRUE]
                                       \/ new = [box[b] EXCEPT !.state = "stopping", !.up = FALSE]
                                       \/ new = [box[b] EXCEPT !.state = "stopped", !.ip = FALSE]
                        \/ /\ box[b].state = "shutting-down"
                           /\ new = [box[b] EXCEPT !.state = "terminated", !.ip = FALSE]
      BY <1>2 DEF GetsAddress, Boots, ComesUp, Pauses, Paused, Ends, Becomes, Live
    <2>3. new.name = box[b].name /\ new.sg = box[b].sg /\ new.conf = box[b].conf
      BY <2>1, <2>2 DEF Box
    <2>4. \/ Live(b) /\ new.state \in {"pending", "running", "stopping", "stopped"}
          \/ box[b].state = "shutting-down" /\ new.state = "terminated"
      BY <2>1, <2>2 DEF Box, Live
    <2>5. box' = [box EXCEPT ![b] = new]
      BY <2>2
    <2>6. Kept
      BY <2>1, <2>3, <2>4, <2>5 DEF Kept, Live
    <2>7. \A c \in Ids : (Active(c)' => Active(c)) /\ (Live(c)' <=> Live(c))
      BY <2>1, <2>4, <2>5 DEF Active, ActiveStates, Live
    <2>8. UNCHANGED <<group, file, pc, call, mem>>
      BY <1>2 DEF GetsAddress, Boots, ComesUp, Pauses, Paused, Ends, Becomes
    <2>9. QED
      BY <2>6, <2>7, <2>8 DEF Calm
  <1>3. QED
    BY <1>1, <1>2 DEF Environment

LEMMA ResumeCalm ==
  ASSUME TypeInv, NEW k \in Kernels, Resume(k)
  PROVE  Calm
  <1>1. box \in [Ids -> Box] /\ AtHand(pc[k], mem[k])
    BY DEF TypeInv, TypeOK
  <1>2. PICK b \in Ids : b = mem[k].match /\ box[b] \in Box
    BY <1>1 DEF Resume, AtHand
  <1>3. PICK new : new = [box[b] EXCEPT !.state = IF @ = "stopped" THEN "pending" ELSE @]
    OBVIOUS
  <1>4. box' = [box EXCEPT ![b] = new] /\ box[b].state \in {"stopped", "pending", "running"}
    BY <1>2, <1>3 DEF Resume
  <1>5. /\ new.name = box[b].name /\ new.sg = box[b].sg /\ new.conf = box[b].conf
        /\ new.state \in {"pending", "running"}
    BY <1>2, <1>3, <1>4 DEF Box
  <1>6. QED
    BY <1>1, <1>4, <1>5 DEF Calm, Kept, Active, ActiveStates, Live

(* A termination.                                                          *)
LEMMA Terminates ==
  ASSUME TypeInv, NEW S \in SUBSET Ids,
         box' = [b \in Ids |-> IF b \in S THEN Terminated(b) ELSE box[b]]
  PROVE  Kept /\ \A b \in Ids : /\ Active(b)' => Active(b)
                                /\ Live(b)' <=> Live(b) /\ b \notin S
  BY TerminatedIs DEF Kept, Active, ActiveStates, Live

(* What is true of the calm is kept by it.                                 *)
LEMMA CalmState ==
  ASSUME TypeInv, Kept, \A b \in Ids : Active(b)' => Active(b), UNCHANGED file
  PROVE  (OneActive => OneActive') /\ (FileTells => FileTells')
  BY Launched DEF Kept, OneActive, FileTells

LEMMA SoundKept == ASSUME Kept, NEW r, Sound(r) PROVE Sound(r)'
  BY DEF Kept, Sound, Ref

LEMMA AskedKept ==
  ASSUME Calm, NEW k \in Kernels, NEW b, Asked(k, b), call'[k] = call[k]
  PROVE  Asked(k, b)'
  BY Alive DEF Calm, Kept, Asked, Named

-----------------------------------------------------------------------------
(* The locals.                                                             *)

LEMMA LocalKept ==
  ASSUME NEW k \in Kernels, Local(k), Calm, UNCHANGED <<group, file>>,
         pc'[k] = pc[k], call'[k] = call[k], mem'[k] = mem[k]
  PROVE  Local(k)'
  <1> USE DEF Local
  <1>0. Kept /\ \A b \in Ids : (Active(b)' => Active(b)) /\ (Live(b)' <=> Live(b))
    BY DEF Calm
  <1>1. Truth(k)' /\ \A r \in mem[k].found \cup mem[k].put : box'[r.id].name = box[r.id].name
    <2>1. Truth(k)'
      BY <1>0, SoundKept DEF Truth
    <2>2. QED
      BY <1>0, <2>1 DEF Truth, Sound, Ref, Kept
  <1>2. Filing(k)' /\ Course(k)'
    <2>1. Filing(k)'
      BY <1>0, <1>1, Launched DEF Filing, Kept
    <2>2. QED
      BY <2>1 DEF Course, Seeks
  <1>3. Covered(k)' /\ Forgets(k)'
    <2>1. Covered(k)'
      BY <1>0, Launched DEF Covered, Collects, InHand, Launches, Named, Kept
    <2>2. Forgets(k)'
      BY <1>0, <1>1 DEF Forgets, Collects, InHand, Launches
    <2>3. QED
      BY <2>1, <2>2
  <1>4. Spares(k)'
    BY <1>0, <1>1, Alive DEF Spares, Collects, InHand, Named, Kept
  <1>5. Matched(k)' /\ Handed(k)'
    <2>1. \A b : Asked(k, b) => Asked(k, b)'
      BY AskedKept
    <2>2. \A b : Asked(k, b) => box'[b].sg = box[b].sg
      BY <1>0, Alive DEF Asked, Kept
    <2>3. Matched(k)'
      BY <1>1, <2>1, <2>2 DEF Matched, Seeks, Named
    <2>4. QED
      BY <2>1, <2>3 DEF Handed, HandsOut
  <1>6. LetIn(k)' /\ Nuking(k)'
    BY <1>0 DEF LetIn, HandsOut, Nuking
  <1>7. Recorded(k)'
    BY <1>0, <1>1 DEF Recorded
  <1>8. QED
    BY <1>1, <1>2, <1>3, <1>4, <1>5, <1>6, <1>7

(* A call that is over has nothing at hand.                                *)
LEMMA LocalOver ==
  ASSUME NEW k \in Kernels, pc'[k] = "idle", call'[k] = NoCall, mem'[k] = NoMem
  PROVE  Local(k)'
  <1> USE DEF NoCall, NoMem
  <1>1. Truth(k)' /\ Filing(k)' /\ Course(k)'
    BY DEF Truth, Filing, Course, Seeks, Looking, Between
  <1>2. Covered(k)' /\ Forgets(k)' /\ Spares(k)'
    BY DEF Covered, Forgets, Spares, Collects, InHand, Launches, Looking, Between
  <1>3. Matched(k)' /\ Handed(k)' /\ LetIn(k)' /\ Nuking(k)' /\ Recorded(k)'
    BY DEF Matched, Seeks, Handed, HandsOut, LetIn, Nuking, Recorded, Looking, Between
  <1>4. QED
    BY <1>1, <1>2, <1>3 DEF Local

(* The steps that end a call.                                              *)
LEMMA ReturnSteps ==
  ASSUME TypeInv, OneActive, FileTells, NEW k \in Kernels, NEW r, Return(k, r), UNCHANGED box,
         file' \in {file, NoFile}
  PROVE  Local(k)' /\ OneActive' /\ FileTells'
  <1>1. pc'[k] = "idle" /\ call'[k] = NoCall /\ mem'[k] = NoMem
    BY DEF Return, TypeInv, TypeOK
  <1>2. OneActive'
    BY DEF OneActive, Active
  <1>3. FileTells'
    <2>1. CASE file' = file
      BY <2>1 DEF FileTells, Active
    <2>2. CASE file' = NoFile
      <3>1. \A b \in Ids : Active(b)' => box'[b].name \in Names
        BY DEF TypeInv, Born, Active, ActiveStates
      <3>2. QED
        BY <2>2, <3>1 DEF FileTells, NoFile
    <2>3. QED
      BY <2>1, <2>2
  <1>4. QED
    BY <1>1, <1>2, <1>3, LocalOver

(* The steps that begin one.                                               *)
LEMMA EnterSteps ==
  ASSUME TypeInv, NEW k \in Kernels, CallStart(k) \/ CallStop(k) \/ CallStatus(k) \/ CallNuke(k)
  PROVE  Local(k)'
  <1>0. pc \in [Kernels -> Labels] /\ call \in [Kernels -> Call] /\ mem \in [Kernels -> Mem]
    BY DEF TypeInv, TypeOK
  <1>1. CASE CallStart(k)
    <2>1. PICK n \in Names, c \in Confs, w \in BOOLEAN, f \in BOOLEAN :
            Enter(k, [op |-> "start", names |-> {n}, conf |-> c, wait |-> w, force |-> f],
                  IF f THEN "known" ELSE "match", [NoMem EXCEPT !.ret = "select"])
      BY <1>1 DEF CallStart
    <2>2. /\ call'[k].op = "start" /\ call'[k].names = {n} /\ call'[k].force = f
          /\ pc'[k] = (IF f THEN "known" ELSE "match")
          /\ mem'[k] = [NoMem EXCEPT !.ret = "select"]
      BY <1>0, <2>1 DEF Enter
    <2>3. mem'[k].found = {} /\ mem'[k].put = {} /\ mem'[k].drop = {} /\ mem'[k].ret = "select" /\ mem'[k].cur = NoRef
      BY <2>2 DEF NoMem
    <2>4. Truth(k)' /\ Filing(k)' /\ Course(k)'
      BY <2>2, <2>3 DEF Truth, Filing, Course, Seeks, Looking, Between
    <2>5. Covered(k)' /\ Forgets(k)' /\ Spares(k)'
      BY <2>2, <2>3 DEF Covered, Forgets, Spares, Collects, InHand, Launches, Looking, Between
    <2>6. Matched(k)' /\ Handed(k)' /\ LetIn(k)' /\ Nuking(k)' /\ Recorded(k)'
      BY <2>2, <2>3 DEF Matched, Seeks, Handed, HandsOut, LetIn, Nuking, Recorded, Looking, Between
    <2>7. QED
      BY <2>4, <2>5, <2>6 DEF Local
  <1>2. CASE CallStop(k)
    <2>1. PICK ns \in SUBSET Names \ {{}} :
            Enter(k, [NoCall EXCEPT !.op = "stop", !.names = ns], "known", [NoMem EXCEPT !.ret = "select"])
      BY <1>2 DEF CallStop
    <2>2. /\ call'[k].op = "stop" /\ pc'[k] = "known"
          /\ mem'[k] = [NoMem EXCEPT !.ret = "select"]
      <3>1. /\ call'[k] = [NoCall EXCEPT !.op = "stop", !.names = ns] /\ pc'[k] = "known"
            /\ mem'[k] = [NoMem EXCEPT !.ret = "select"]
        BY <1>0, <2>1 DEF Enter
      <3>2. QED
        BY <3>1 DEF NoCall
    <2>3. mem'[k].found = {} /\ mem'[k].put = {} /\ mem'[k].drop = {} /\ mem'[k].ret = "select" /\ mem'[k].cur = NoRef
      BY <2>2 DEF NoMem
    <2>4. Truth(k)' /\ Filing(k)' /\ Course(k)'
      BY <2>2, <2>3 DEF Truth, Filing, Course, Seeks, Looking, Between
    <2>5. Covered(k)' /\ Forgets(k)' /\ Spares(k)'
      BY <2>2, <2>3 DEF Covered, Forgets, Spares, Collects, InHand, Launches, Looking, Between
    <2>6. Matched(k)' /\ Handed(k)' /\ LetIn(k)' /\ Nuking(k)' /\ Recorded(k)'
      BY <2>2, <2>3 DEF Matched, Seeks, Handed, HandsOut, LetIn, Nuking, Recorded, Looking, Between
    <2>7. QED
      BY <2>4, <2>5, <2>6 DEF Local
  <1>3. CASE CallStatus(k)
    <2>1. call'[k].op = "status" /\ pc'[k] = "known" /\ mem'[k] = NoMem
      BY <1>0, <1>3 DEF CallStatus, Enter, NoCall
    <2>2. mem'[k].found = {} /\ mem'[k].put = {} /\ mem'[k].drop = {} /\ mem'[k].ret = "done" /\ mem'[k].cur = NoRef
      BY <2>1 DEF NoMem
    <2>3. Truth(k)' /\ Filing(k)' /\ Course(k)'
      BY <2>1, <2>2 DEF Truth, Filing, Course, Seeks, Looking, Between
    <2>4. Covered(k)' /\ Forgets(k)' /\ Spares(k)'
      BY <2>1, <2>2 DEF Covered, Forgets, Spares, Collects, InHand, Launches, Looking, Between
    <2>5. Matched(k)' /\ Handed(k)' /\ LetIn(k)' /\ Nuking(k)' /\ Recorded(k)'
      BY <2>1, <2>2 DEF Matched, Seeks, Handed, HandsOut, LetIn, Nuking, Recorded, Looking, Between
    <2>6. QED
      BY <2>3, <2>4, <2>5 DEF Local
  <1>4. CASE CallNuke(k)
    <2> DEFINE refs == {[id |-> b, sg |-> box[b].sg, ip |-> box[b].ip] : b \in {b \in Ids : Active(b)}}
    <2>1. /\ call'[k] = [NoCall EXCEPT !.op = "nuke"] /\ pc'[k] = "nuke_terminate"
          /\ mem'[k] = [NoMem EXCEPT !.found = refs] /\ UNCHANGED box
      BY <1>0, <1>4 DEF CallNuke, Enter, aws
    <2>2. call'[k].op = "nuke"
      BY <2>1 DEF NoCall
    <2>3. mem'[k].found = refs /\ mem'[k].put = {} /\ mem'[k].drop = {} /\ mem'[k].cur = NoRef
      BY <2>1 DEF NoMem
    <2>4. \A r \in refs : Sound(r)'
      BY <2>1, ActiveRefs DEF Sound, Ref
    <2>5. \A b \in Ids : Active(b)' => \E r \in refs : r.id = b
      <3>1. SUFFICES ASSUME NEW b \in Ids, Active(b) PROVE \E r \in refs : r.id = b
        BY <2>1 DEF Active
      <3>2. [id |-> b, sg |-> box[b].sg, ip |-> box[b].ip] \in refs
        BY <3>1
      <3>3. QED
        BY <3>2
    <2> HIDE DEF refs
    <2>6. Truth(k)' /\ Filing(k)' /\ Course(k)' /\ Nuking(k)'
      BY <2>1, <2>2, <2>3, <2>4, <2>5 DEF Truth, Filing, Course, Nuking, Seeks, Looking, Between
    <2>7. Covered(k)' /\ Forgets(k)' /\ Spares(k)'
      BY <2>1, <2>2 DEF Covered, Forgets, Spares, Collects, InHand, Launches, Looking, Between
    <2>8. Matched(k)' /\ Handed(k)' /\ LetIn(k)' /\ Recorded(k)'
      BY <2>1, <2>2 DEF Matched, Seeks, Handed, HandsOut, LetIn, Recorded, Looking, Between
    <2>9. QED
      BY <2>6, <2>7, <2>8 DEF Local
  <1>5. QED
    BY <1>1, <1>2, <1>3, <1>4

-----------------------------------------------------------------------------
(* The steps of start() that look for a match, resume it and take it.      *)

LEMMA SoleLoads == ASSUME Alone, NEW k \in Kernels PROVE Loads(k) = {file}
  BY DEF Alone, Loads

(* Where a step only moves on, the locals being those of before.           *)
LEMMA SameLocals ==
  ASSUME TypeInv, NEW k \in Kernels, NEW l, Goto(k, l), UNCHANGED mem
  PROVE  pc'[k] = l /\ call'[k] = call[k] /\ mem'[k] = mem[k]
  BY DEF Goto, TypeInv, TypeOK

(* A discover() begins.                                                    *)
LEMMA DiscoverLocals ==
  ASSUME TypeInv, NEW k \in Kernels, NEW l \in {"reuse", "select"}, Discover(k, l)
  PROVE  /\ pc'[k] = "known" /\ call'[k] = call[k] /\ UNCHANGED <<box, group, file>>
         /\ mem'[k].ret = l /\ mem'[k].found = mem[k].found /\ mem'[k].put = mem[k].put
         /\ mem'[k].drop = mem[k].drop /\ mem'[k].cur = mem[k].cur /\ mem'[k].match = mem[k].match
  BY DEF Discover, Goto, TypeInv, TypeOK, Mem, aws

LEMMA DiscoverLocal ==
  ASSUME TypeInv, NEW k \in Kernels, Local(k), NEW l \in {"reuse", "select"}, Discover(k, l),
         ~Between(pc[k]), call[k].op # "status",
         l = "reuse" => Asked(k, mem[k].match) /\ \E n \in Names : call[k].names = {n},
         l = "select" => \A b \in Ids : Live(b) /\ Named(k, b) => box[b].conf # call[k].conf
  PROVE  Local(k)'
  <1>1. /\ pc'[k] = "known" /\ call'[k] = call[k] /\ UNCHANGED <<box, group, file>>
        /\ mem'[k].ret = l /\ mem'[k].found = mem[k].found /\ mem'[k].put = mem[k].put
        /\ mem'[k].drop = mem[k].drop /\ mem'[k].cur = mem[k].cur /\ mem'[k].match = mem[k].match
    BY DiscoverLocals
  <1>2. Truth(k)' /\ Filing(k)'
    BY <1>1 DEF Local, Truth, Sound, Filing, Active, Between
  <1>3. Course(k)'
    BY <1>1 DEF Course, Seeks, Looking, Between
  <1>4. Covered(k)' /\ Forgets(k)'
    BY <1>1 DEF Covered, Forgets, Collects, InHand, Launches, Between
  <1>5. Spares(k)'
    BY <1>1 DEF Spares, Collects, InHand, Between, Looking, Live, Named
  <1>6. Matched(k)'
    BY <1>1 DEF Matched, Seeks, Looking, Between, Asked, Live, Named
  <1>7. Handed(k)' /\ LetIn(k)' /\ Nuking(k)' /\ Recorded(k)'
    BY <1>1 DEF Handed, LetIn, HandsOut, Nuking, Recorded, Looking, Between
  <1>8. QED
    BY <1>2, <1>3, <1>4, <1>5, <1>6, <1>7 DEF Local

(* The first search.                                                       *)
LEMMA MatchSteps ==
  ASSUME TypeInv, OneActive, NEW k \in Kernels, Local(k), MatchNone(k) \/ MatchFound(k)
  PROVE  Local(k)'
  <1>0. pc[k] = "match" /\ ~Between(pc[k]) /\ call[k].op # "status"
    BY DEF MatchNone, MatchFound, Local, Course, Between
  <1>1. PICK n \in Names : call[k].names = {n}
    BY <1>0 DEF Local, Course
  <1>2. CASE MatchNone(k)
    <2>1. Discover(k, "select")
      BY <1>2 DEF MatchNone
    <2>2. \A b \in Ids : Live(b) /\ Named(k, b) => box[b].conf # call[k].conf
      BY <1>1, <1>2, Alive DEF MatchNone, Candidate, Matches, MatchStates, Live, Named, OneActive
    <2>3. QED
      BY <1>0, <2>1, <2>2, DiscoverLocal
  <1>3. CASE MatchFound(k)
    <2>0. mem \in [Kernels -> Mem] /\ pc \in [Kernels -> Labels]
      BY DEF TypeInv, TypeOK
    <2>1. PICK b \in Ids, l \in {"await_stopped", "resume", "known"} :
            /\ Matches(k, b) /\ Goto(k, l) /\ UNCHANGED <<box, group, file>>
            /\ mem' = [mem EXCEPT ![k].match = b, ![k].ret = "reuse"]
      BY <1>3 DEF MatchFound, aws
    <2>2. PICK new : new = [mem[k] EXCEPT !.match = b, !.ret = "reuse"]
      OBVIOUS
    <2>3. mem'[k] = new
      BY <2>0, <2>1, <2>2
    <2>4. /\ new.ret = "reuse" /\ new.match = b /\ new.found = mem[k].found /\ new.put = mem[k].put
          /\ new.drop = mem[k].drop /\ new.cur = mem[k].cur
      BY <2>0, <2>2 DEF Mem
    <2>5. pc'[k] = l /\ call'[k] = call[k]
      BY <2>0, <2>1 DEF Goto
    <2>6. Asked(k, b)'
      BY <2>1, <2>5 DEF Asked, Matches, Candidate, MatchStates, Live, Named
    <2>7. Truth(k)' /\ Filing(k)'
      BY <1>0, <2>1, <2>3, <2>4, <2>5 DEF Local, Truth, Sound, Filing, Active, Between
    <2>8. Course(k)'
      BY <1>0, <1>1, <2>3, <2>4, <2>5 DEF Course, Seeks, Looking, Between
    <2>9. Covered(k)' /\ Forgets(k)' /\ Spares(k)'
      BY <2>3, <2>4, <2>5 DEF Covered, Forgets, Spares, Collects, InHand, Launches, Between, Looking
    <2>10. Matched(k)'
      BY <2>3, <2>4, <2>5, <2>6 DEF Matched, Seeks, Looking, Between
    <2>11. Handed(k)' /\ LetIn(k)' /\ Nuking(k)' /\ Recorded(k)'
      BY <2>3, <2>4, <2>5 DEF Handed, LetIn, HandsOut, Nuking, Recorded, Looking, Between
    <2>12. QED
      BY <2>7, <2>8, <2>9, <2>10, <2>11 DEF Local
  <1>4. QED
    BY <1>2, <1>3

LEMMA ResumeSteps ==
  ASSUME TypeInv, NEW k \in Kernels, Local(k), AwaitStopped(k) \/ Resume(k) \/ AwaitResumed(k)
  PROVE  Local(k)'
  <1>0. /\ pc[k] \in {"await_stopped", "resume", "await_resumed"}
        /\ Asked(k, mem[k].match) /\ \E n \in Names : call[k].names = {n}
        /\ ~Between(pc[k]) /\ call[k].op # "status"
    BY DEF AwaitStopped, Resume, AwaitResumed, Local, Matched, Course, Seeks, Between
  <1>1. CASE AwaitResumed(k)
    BY <1>0, <1>1, DiscoverLocal DEF AwaitResumed
  <1>2. CASE AwaitStopped(k) \/ Resume(k)
    <2>1. PICK l \in {"resume", "await_resumed"} : Goto(k, l) /\ UNCHANGED <<group, file, mem>>
      BY <1>2 DEF AwaitStopped, Resume, aws
    <2>2. pc'[k] = l /\ call'[k] = call[k] /\ mem'[k] = mem[k]
      BY <2>1, SameLocals
    <2>3. Calm
      BY <1>2, ResumeCalm, BoxCalm DEF AwaitStopped, aws
    <2>4. mem[k].put = {} /\ mem[k].drop = {}
      BY <1>0 DEF Local, Filing
    <2>5. Truth(k)' /\ Filing(k)'
      BY <2>2, <2>3, <2>4, SoundKept DEF Local, Truth, Filing, Calm
    <2>6. Course(k)'
      BY <1>0, <2>2 DEF Local, Course, Seeks, Looking, Between
    <2>7. Covered(k)' /\ Forgets(k)' /\ Spares(k)'
      BY <2>2 DEF Covered, Forgets, Spares, Collects, InHand, Launches, Between, Looking
    <2>8. Matched(k)'
      <3>1. Asked(k, mem[k].match)'
        <4>1. PICK b : b = mem[k].match
          OBVIOUS
        <4>2. Asked(k, b)'
          BY <1>0, <2>2, <2>3, <4>1, AskedKept
        <4>3. QED
          BY <2>2, <4>1, <4>2 DEF Asked, Live, Named
      <3>2. QED
        BY <2>2, <3>1 DEF Matched, Seeks, Looking, Between
    <2>9. Handed(k)' /\ LetIn(k)' /\ Nuking(k)' /\ Recorded(k)'
      BY <2>2 DEF Handed, LetIn, HandsOut, Nuking, Recorded, Looking, Between
    <2>10. QED
      BY <2>5, <2>6, <2>7, <2>8, <2>9 DEF Local
  <1>3. QED
    BY <1>1, <1>2

(* The second search: what it finds under the name is the match.           *)
LEMMA ReuseSteps ==
  ASSUME TypeInv, NEW k \in Kernels, Local(k), Reuse(k) \/ ReuseVanished(k)
  PROVE  Local(k)'
  <1>0. /\ pc[k] = "reuse" /\ ~Between(pc[k]) /\ call[k].op # "status"
        /\ Asked(k, mem[k].match)
        /\ \E r \in mem[k].found : r.id = mem[k].match
        /\ \A r \in mem[k].found : Named(k, r.id) => r.id = mem[k].match
    BY DEF Reuse, ReuseVanished, Local, Matched, Course, Seeks, Between
  <1>1. ~ReuseVanished(k)
    BY <1>0 DEF ReuseVanished, Asked, Named
  <1>2. PICK r \in mem[k].found : Named(k, r.id) /\ mem' = [mem EXCEPT ![k].cur = r]
    BY <1>1 DEF Reuse, Named
  <1>3. /\ mem'[k].cur = r /\ mem'[k].found = mem[k].found /\ mem'[k].put = mem[k].put
        /\ mem'[k].drop = mem[k].drop
    BY <1>2 DEF TypeInv, TypeOK, Mem
  <1>4. pc'[k] = "authorize" /\ call'[k] = call[k] /\ UNCHANGED <<box, group, file>>
    BY <1>1 DEF Reuse, Goto, TypeInv, TypeOK, aws
  <1>5. Truth(k)' /\ Filing(k)'
    BY <1>0, <1>2, <1>3, <1>4 DEF Local, Truth, Sound, Filing, Active, Between
  <1>6. Course(k)'
    BY <1>0, <1>4 DEF Course, Seeks, Looking, Between
  <1>7. Covered(k)' /\ Forgets(k)' /\ Spares(k)'
    BY <1>4 DEF Covered, Forgets, Spares, Collects, InHand, Launches, Between, Looking
  <1>8. Matched(k)' /\ LetIn(k)' /\ Nuking(k)' /\ Recorded(k)'
    BY <1>4 DEF Matched, Seeks, LetIn, HandsOut, Nuking, Recorded, Looking, Between
  <1>9. Handed(k)'
    <2>1. r \in Ref /\ r.id = mem[k].match
      BY <1>0, <1>2 DEF Local, Truth, Sound
    <2>2. QED
      BY <1>0, <1>3, <1>4, <2>1 DEF Handed, Asked, Live, Named
  <1>10. QED
    BY <1>5, <1>6, <1>7, <1>8, <1>9 DEF Local

LEMMA AuthorizeStep ==
  ASSUME TypeInv, NEW k \in Kernels, Local(k), Authorize(k)
  PROVE  Local(k)'
  <1>0. /\ pc[k] = "authorize" /\ ~Between(pc[k]) /\ call[k].op # "status"
        /\ mem[k].cur \in Ref /\ Asked(k, mem[k].cur.id)
    BY DEF Authorize, Local, Handed, Course, Between
  <1>1. pc'[k] = "reuse_wait" /\ call'[k] = call[k] /\ UNCHANGED <<box, file>>
    BY DEF Authorize, Goto, TypeInv, TypeOK
  <1>2. PICK g \in Groups : g = mem[k].cur.sg
    BY <1>0 DEF Ref
  <1>3. group' = [group EXCEPT ![g].open = @ \cup {addr}] /\ mem' = [mem EXCEPT ![k].via = addr]
    BY <1>2 DEF Authorize
  <1>4. addr \in group'[g].open
    <2>1. group \in [Groups -> Group] /\ group[g] \in Group
      BY DEF TypeInv, TypeOK
    <2>2. QED
      BY <1>3, <2>1 DEF Group
  <1>5. /\ mem'[k].via = addr /\ mem'[k].cur = mem[k].cur /\ mem'[k].found = mem[k].found
        /\ mem'[k].put = mem[k].put /\ mem'[k].drop = mem[k].drop
    BY <1>3 DEF TypeInv, TypeOK, Mem
  <1>6. Truth(k)' /\ Filing(k)'
    BY <1>0, <1>1, <1>5 DEF Local, Truth, Sound, Filing, Active, Between
  <1>7. Course(k)' /\ Covered(k)' /\ Forgets(k)' /\ Spares(k)'
    BY <1>0, <1>1 DEF Course, Seeks, Covered, Forgets, Spares, Collects, InHand, Launches, Between, Looking
  <1>8. Matched(k)' /\ Nuking(k)' /\ Recorded(k)'
    BY <1>1 DEF Matched, Seeks, Nuking, Recorded, Looking, Between
  <1>9. Handed(k)' /\ LetIn(k)'
    BY <1>0, <1>1, <1>2, <1>4, <1>5 DEF Handed, LetIn, Asked, Live, Named
  <1>10. QED
    BY <1>6, <1>7, <1>8, <1>9 DEF Local

-----------------------------------------------------------------------------
(* The steps of discover() and of the state file.                          *)

LEMMA LoadSteps ==
  ASSUME Alone, TypeInv, NEW k \in Kernels, Local(k), LoadState(k) \/ LoadKnown(k)
  PROVE  Local(k)'
  <1>1. PICK l \in {"save", "describe"} :
          /\ Goto(k, l) /\ mem' = [mem EXCEPT ![k].st = file] /\ UNCHANGED <<box, group, file>>
          /\ l = "save" => pc[k] = "load"
          /\ l = "describe" => pc[k] = "known"
    <2>1. Loads(k) = {file}
      BY SoleLoads
    <2>2. QED
      BY <2>1 DEF LoadState, LoadKnown, aws
  <1>2. pc'[k] = l /\ call'[k] = call[k]
    BY <1>1 DEF Goto, TypeInv, TypeOK
  <1>3. mem'[k].st = file
    BY <1>1 DEF TypeInv, TypeOK, Mem
  <1>4. /\ mem'[k].found = mem[k].found /\ mem'[k].put = mem[k].put /\ mem'[k].drop = mem[k].drop
        /\ mem'[k].ret = mem[k].ret /\ mem'[k].cur = mem[k].cur /\ mem'[k].match = mem[k].match
        /\ mem'[k].sg = mem[k].sg /\ mem'[k].via = mem[k].via
    BY <1>1 DEF TypeInv, TypeOK, Mem
  <1>5. (Between(pc'[k]) <=> Between(pc[k])) /\ (Looking(pc'[k]) <=> Looking(pc[k]))
    BY <1>1, <1>2 DEF Between, Looking
  <1>6. Truth(k)' /\ Filing(k)'
    BY <1>1, <1>2, <1>3, <1>4, <1>5 DEF Local, Truth, Sound, Filing, Active
  <1>7. Course(k)'
    BY <1>1, <1>2, <1>4, <1>5 DEF Local, Course, Seeks
  <1>8. Covered(k)' /\ Forgets(k)'
    BY <1>1, <1>2, <1>4, <1>5 DEF Local, Covered, Forgets, Collects, InHand, Launches, Active, Named
  <1>9. Spares(k)'
    BY <1>1, <1>2, <1>4, <1>5 DEF Local, Spares, Collects, InHand, Live, Named
  <1>10. Matched(k)' /\ Handed(k)'
    BY <1>1, <1>2, <1>4, <1>5 DEF Local, Matched, Handed, Seeks, HandsOut, Asked, Live, Named
  <1>11. LetIn(k)' /\ Nuking(k)' /\ Recorded(k)'
    BY <1>1, <1>2, <1>4, <1>5 DEF Local, LetIn, HandsOut, Nuking, Recorded
  <1>12. QED
    BY <1>6, <1>7, <1>8, <1>9, <1>10, <1>11 DEF Local

(* An instance that still has to be remembered is the only active one of   *)
(* its name, so its group is the one the file must name.                   *)
LEMMA ForgetStep ==
  ASSUME TypeInv, FileTells, NEW k \in Kernels, Local(k), SaveForget(k)
  PROVE  Local(k)' /\ FileTells'
  <1>1. /\ pc[k] = "save" /\ Goto(k, "load") /\ UNCHANGED <<box, group>> /\ mem[k].st = file
        /\ mem' = [mem EXCEPT ![k].drop = {}] /\ mem[k].drop # {}
        /\ file' = [n \in Names |-> IF n \in mem[k].drop THEN None ELSE file[n]]
    BY DEF SaveForget, Local, Filing, aws
  <1>2. pc'[k] = "load" /\ call'[k] = call[k]
    BY <1>1 DEF Goto, TypeInv, TypeOK
  <1>3. mem'[k].drop = {} /\ mem'[k].found = mem[k].found /\ mem'[k].put = mem[k].put
    BY <1>1 DEF TypeInv, TypeOK, Mem
  <1>4. /\ mem'[k].ret = mem[k].ret /\ mem'[k].cur = mem[k].cur /\ mem'[k].match = mem[k].match
        /\ mem'[k].sg = mem[k].sg /\ mem'[k].via = mem[k].via
    BY <1>1 DEF TypeInv, TypeOK, Mem
  <1>5. Between(pc[k]) /\ Between(pc'[k]) /\ ~Looking(pc[k]) /\ ~Looking(pc'[k])
    BY <1>1, <1>2 DEF Between, Looking
  <1>6. FileTells'
    <2>1. \A b \in Ids : Active(b) => box[b].name \in Names
      BY ActiveRefs
    <2>2. QED
      BY <1>1, <2>1 DEF FileTells, Active
  <1>7. Truth(k)' /\ Filing(k)'
    BY <1>1, <1>2, <1>3, <1>4, <1>5 DEF Local, Truth, Sound, Filing, Active
  <1>8. Course(k)'
    BY <1>1, <1>2, <1>4, <1>5 DEF Local, Course, Seeks
  <1>9. Covered(k)'
    BY <1>1, <1>2, <1>3, <1>4, <1>5 DEF Local, Covered, Collects, InHand, Launches, Active, Named
  <1>10. Forgets(k)'
    <2>1. call[k].names \subseteq Names
      BY DEF TypeInv, TypeOK, Call
    <2>2. Collects(k)' => Collects(k)
      BY <1>1, <1>2, <1>4, <1>5 DEF Collects, InHand
    <2>3. ~Launches(k)'
      BY <1>2 DEF Launches
    <2>4. QED
      BY <1>1, <1>2, <1>3, <2>1, <2>2, <2>3 DEF Local, Forgets
  <1>11. Spares(k)'
    BY <1>1, <1>2, <1>3, <1>4, <1>5 DEF Local, Spares, Collects, InHand, Live, Named
  <1>12. Matched(k)' /\ Handed(k)'
    BY <1>1, <1>2, <1>3, <1>4, <1>5 DEF Local, Matched, Handed, Seeks, HandsOut, Asked, Live, Named
  <1>13. LetIn(k)' /\ Nuking(k)'
    BY <1>1, <1>2, <1>4, <1>5 DEF Local, LetIn, HandsOut, Nuking
  <1>14. Recorded(k)'
    <2> SUFFICES ASSUME call[k].op = "status" PROVE Recorded(k)'
      BY <1>2 DEF Recorded
    <2>1. mem[k].put = mem[k].found /\ Between(pc[k])
      BY <1>1, <1>5 DEF Local, Recorded
    <2>2. \A n \in Names : file[n] # None => n \in mem[k].drop \/ \E r \in mem[k].found : box[r.id].name = n
      BY <1>5 DEF Local, Recorded
    <2>3. QED
      BY <1>1, <1>2, <1>3, <2>1, <2>2 DEF Recorded
  <1>15. QED
    BY <1>6, <1>7, <1>8, <1>9, <1>10, <1>11, <1>12, <1>13, <1>14 DEF Local

LEMMA RememberStep ==
  ASSUME TypeInv, FileTells, NEW k \in Kernels, Local(k), SaveRemember(k)
  PROVE  Local(k)' /\ FileTells'
  <1>1. /\ pc[k] = "save" /\ Goto(k, "load") /\ UNCHANGED <<box, group>> /\ mem[k].st = file
        /\ mem[k].drop = {}
    BY DEF SaveRemember, Local, Filing, aws
  <1>2. PICK r \in mem[k].put :
          /\ file' = [file EXCEPT ![box[r.id].name] = r.sg]
          /\ mem' = [mem EXCEPT ![k].put = @ \ {r}]
    BY <1>1 DEF SaveRemember
  <1>3. pc'[k] = "load" /\ call'[k] = call[k]
    BY <1>1 DEF Goto, TypeInv, TypeOK
  <1>4. mem'[k].drop = mem[k].drop /\ mem'[k].found = mem[k].found /\ mem'[k].put = mem[k].put \ {r}
    BY <1>2 DEF TypeInv, TypeOK, Mem
  <1>5. /\ mem'[k].ret = mem[k].ret /\ mem'[k].cur = mem[k].cur /\ mem'[k].match = mem[k].match
        /\ mem'[k].sg = mem[k].sg /\ mem'[k].via = mem[k].via
    BY <1>2 DEF TypeInv, TypeOK, Mem
  <1>6. Between(pc[k]) /\ Between(pc'[k]) /\ ~Looking(pc[k]) /\ ~Looking(pc'[k])
    BY <1>1, <1>3 DEF Between, Looking
  <1>7. /\ r.id \in Ids /\ box[r.id].name \in Names /\ r.sg = box[r.id].sg
        /\ file \in [Names -> Groups \cup {None}]
    BY DEF Local, Truth, Sound, Ref, TypeInv, Born, TypeOK
  <1>8. FileTells'
    <2>1. \A b \in Ids : Active(b) /\ box[b].name = box[r.id].name => b = r.id
      BY DEF Local, Filing
    <2>2. \A b \in Ids : Active(b) => box[b].name \in Names
      BY ActiveRefs
    <2>3. QED
      BY <1>1, <1>2, <1>7, <2>1, <2>2 DEF FileTells, Active
  <1>9. Truth(k)' /\ Filing(k)'
    BY <1>1, <1>3, <1>4, <1>5, <1>6 DEF Local, Truth, Sound, Filing, Active
  <1>10. Course(k)'
    BY <1>1, <1>3, <1>5, <1>6 DEF Local, Course, Seeks
  <1>11. Covered(k)'
    BY <1>1, <1>3, <1>4, <1>5, <1>6 DEF Local, Covered, Collects, InHand, Launches, Active, Named
  <1>12. Forgets(k)'
    <2>1. call[k].names \subseteq Names
      BY DEF TypeInv, TypeOK, Call
    <2>2. Collects(k)' => Collects(k)
      BY <1>1, <1>3, <1>5, <1>6 DEF Collects, InHand
    <2>3. ~Launches(k)'
      BY <1>3 DEF Launches
    <2>4. \A n \in Names : file'[n] = file[n] \/ n = box[r.id].name
      BY <1>2, <1>7
    <2>5. QED
      BY <1>1, <1>3, <1>4, <2>1, <2>2, <2>3, <2>4 DEF Local, Forgets
  <1>13. Spares(k)'
    BY <1>1, <1>3, <1>4, <1>5, <1>6 DEF Local, Spares, Collects, InHand, Live, Named
  <1>14. Matched(k)' /\ Handed(k)'
    BY <1>1, <1>3, <1>4, <1>5, <1>6 DEF Local, Matched, Handed, Seeks, HandsOut, Asked, Live, Named
  <1>15. LetIn(k)' /\ Nuking(k)'
    BY <1>1, <1>3, <1>5, <1>6 DEF Local, LetIn, HandsOut, Nuking
  <1>16. Recorded(k)'
    <2> SUFFICES ASSUME call[k].op = "status" PROVE Recorded(k)'
      BY <1>3 DEF Recorded
    <2>1. /\ mem[k].put \subseteq mem[k].found
          /\ \A n \in Names : file[n] # None => n \in mem[k].drop \/ \E q \in mem[k].found : box[q.id].name = n
          /\ \A p \in mem[k].found :
                \/ p \in mem[k].put
                \/ \E q \in mem[k].found : box[q.id].name = box[p.id].name /\ file[box[p.id].name] = q.sg
      BY <1>6 DEF Local, Recorded
    <2>2. file'[box[r.id].name] = r.sg /\ \A n \in Names : file'[n] = file[n] \/ n = box[r.id].name
      BY <1>2, <1>7
    <2>3. \A p \in mem[k].found : box[p.id].name \in Names
      BY DEF Local, Truth, Sound, Ref, TypeInv, Born
    <2>4. \A p \in mem[k].found :
             \/ p \in mem'[k].put
             \/ \E q \in mem[k].found : box[q.id].name = box[p.id].name /\ file'[box[p.id].name] = q.sg
      <3> SUFFICES ASSUME NEW p \in mem[k].found
                   PROVE  \/ p \in mem'[k].put
                          \/ \E q \in mem[k].found : box[q.id].name = box[p.id].name /\ file'[box[p.id].name] = q.sg
        OBVIOUS
      <3>1. CASE box[p.id].name = box[r.id].name
        BY <2>1, <2>2, <3>1
      <3>2. CASE box[p.id].name # box[r.id].name
        BY <1>4, <2>1, <2>2, <2>3, <3>2
      <3>3. QED
        BY <3>1, <3>2
    <2>5. \A n \in Names : file'[n] # None => n \in mem[k].drop \/ \E q \in mem[k].found : box[q.id].name = n
      BY <2>1, <2>2
    <2>6. QED
      BY <1>1, <1>3, <1>4, <2>1, <2>4, <2>5 DEF Recorded
  <1>17. QED
    BY <1>8, <1>9, <1>10, <1>11, <1>12, <1>13, <1>14, <1>15, <1>16 DEF Local

(* All is written, and the call goes on.                                   *)
LEMMA SavedStep ==
  ASSUME TypeInv, NEW k \in Kernels, Local(k), SaveDone(k)
  PROVE  Local(k)'
  <1>1. /\ pc[k] = "load" /\ mem[k].drop = {} /\ mem[k].put = {} /\ Goto(k, mem[k].ret)
        /\ UNCHANGED <<box, group, file, mem>>
    BY DEF SaveDone, aws
  <1>2. pc'[k] = mem[k].ret /\ call'[k] = call[k] /\ mem'[k] = mem[k]
    BY <1>1, SameLocals
  <1>3. mem[k].ret \in {"done", "reuse", "select", "delete_sg", "wait"} /\ Between(pc[k])
    BY <1>1 DEF TypeInv, TypeOK, Mem, Between
  <1>4. Truth(k)' /\ Filing(k)'
    BY <1>1, <1>2, <1>3 DEF Local, Truth, Sound, Filing, Active
  <1>5. Course(k)'
    BY <1>1, <1>2, <1>3 DEF Local, Course, Seeks, Looking, Between
  <1>6. Covered(k)' /\ Forgets(k)'
    BY <1>1, <1>2, <1>3 DEF Local, Covered, Forgets, Collects, InHand, Launches, Between, Active, Named
  <1>7. Spares(k)'
    BY <1>1, <1>2, <1>3 DEF Local, Spares, Collects, InHand, Looking, Between, Live, Named
  <1>8. Matched(k)'
    BY <1>1, <1>2, <1>3 DEF Local, Matched, Seeks, Asked, Looking, Between, Live, Named
  <1>9. Handed(k)' /\ LetIn(k)'
    BY <1>1, <1>2, <1>3 DEF Local, Handed, LetIn, HandsOut, Between, Asked, Live, Named
  <1>10. Nuking(k)' /\ Recorded(k)'
    BY <1>1, <1>2, <1>3 DEF Local, Nuking, Recorded, Between
  <1>11. QED
    BY <1>4, <1>5, <1>6, <1>7, <1>8, <1>9, <1>10 DEF Local

(* The search: everything active, each with its own group.                 *)
LEMMA DescribeStep ==
  ASSUME TypeInv, OneActive, FileTells, NEW k \in Kernels, Local(k), Describe(k)
  PROVE  Local(k)'
  <1> DEFINE refs == {[id |-> b, sg |-> SgOf(k, b), ip |-> box[b].ip] : b \in {b \in Ids : Active(b)}}
             drop == Stale(k)
  <1>0. /\ pc[k] = "describe" /\ mem[k].st = file
        /\ mem[k].ret \in {"done", "reuse", "select"} /\ mem[k] \in Mem
    BY DEF Describe, Local, Filing, TypeInv, TypeOK, AtHand
  <1>1. \A r \in refs : Sound(r) /\ r.id \in Ids /\ Active(r.id) /\ box[r.id].name \in Names
    <2>1. \A b \in Ids : Active(b) => SgOf(k, b) = box[b].sg
      BY <1>0, ActiveRefs DEF FileTells, SgOf
    <2>2. QED
      BY <2>1, ActiveRefs DEF Sound, Ref
  <1>2. \A b \in Ids : Active(b) => \E r \in refs : r.id = b
    <2>1. SUFFICES ASSUME NEW b \in Ids, Active(b) PROVE \E r \in refs : r.id = b
      OBVIOUS
    <2>2. [id |-> b, sg |-> SgOf(k, b), ip |-> box[b].ip] \in refs
      BY <2>1
    <2>3. QED
      BY <2>2
  <1>3. \A n \in Names : file[n] # None => n \in drop \/ \E r \in refs : box[r.id].name = n
    <2>1. SUFFICES ASSUME NEW n \in Names, file[n] # None, NEW b \in Ids, Active(b), box[b].name = n
                   PROVE  \E r \in refs : box[r.id].name = n
      BY <1>0 DEF Stale
    <2>2. PICK r \in refs : r.id = b
      BY <1>2, <2>1
    <2>3. QED
      BY <2>1, <2>2
  <1>4. refs \in SUBSET Ref /\ drop \in SUBSET Names
    BY <1>1 DEF Sound, Stale
  <1>5. mem' = [mem EXCEPT ![k].found = refs, ![k].put = refs, ![k].drop = drop]
    BY DEF Describe
  <1>6. Goto(k, "load") /\ UNCHANGED <<box, group, file>>
    BY DEF Describe, aws
  <1> HIDE DEF refs, drop
  <1>7. PICK new : new = [mem[k] EXCEPT !.found = refs, !.put = refs, !.drop = drop]
    OBVIOUS
  <1>8. mem'[k] = new
    BY <1>5, <1>7 DEF TypeInv, TypeOK
  <1>9. /\ mem'[k].found = refs /\ mem'[k].put = refs /\ mem'[k].drop = drop
        /\ mem'[k].ret = mem[k].ret /\ mem'[k].cur = mem[k].cur /\ mem'[k].match = mem[k].match
    BY <1>0, <1>7, <1>8 DEF Mem
  <1>10. pc'[k] = "load" /\ call'[k] = call[k] /\ ~(mem[k].ret = "done" /\ call[k].op # "status")
    BY <1>0, <1>6 DEF Goto, TypeInv, TypeOK, Local, Course, Looking
  <1>11. Truth(k)' /\ Filing(k)'
    <2>1. Truth(k)'
      BY <1>1, <1>6, <1>9 DEF Local, Truth, Sound
    <2>2. Filing(k)'
      BY <1>1, <1>6, <1>9, <1>10 DEF Filing, Between, OneActive, Active
    <2>3. QED
      BY <2>1, <2>2
  <1>12. Course(k)'
    BY <1>0, <1>9, <1>10 DEF Local, Course, Seeks, Looking, Between
  <1>13. Covered(k)' /\ Forgets(k)'
    <2>1. call[k].names \subseteq Names
      BY DEF TypeInv, TypeOK, Call
    <2>2. Covered(k)'
      BY <1>0, <1>2, <1>6, <1>9, <1>10 DEF Covered, Collects, InHand, Launches, Active, Named
    <2>3. Forgets(k)'
      BY <1>3, <1>6, <1>9, <1>10, <2>1 DEF Forgets, Launches
    <2>4. QED
      BY <2>2, <2>3
  <1>14. Spares(k)'
    BY <1>0, <1>6, <1>9, <1>10 DEF Local, Spares, Collects, InHand, Looking, Between, Live, Named
  <1>15. Matched(k)'
    <2>1. CASE mem[k].ret = "reuse"
      <3>1. Asked(k, mem[k].match) /\ \E n \in Names : call[k].names = {n}
        BY <1>0, <2>1 DEF Local, Matched, Course, Seeks, Looking
      <3>2. \E r \in refs : r.id = mem[k].match
        BY <1>2, <3>1, Alive DEF Asked
      <3>3. \A r \in refs : Named(k, r.id) => r.id = mem[k].match
        BY <1>1, <3>1, Alive DEF Asked, OneActive, Named
      <3>4. QED
        BY <1>6, <1>9, <1>10, <3>1, <3>2, <3>3 DEF Matched, Asked, Live, Named
    <2>2. CASE mem[k].ret # "reuse"
      BY <1>9, <1>10, <2>2 DEF Matched, Seeks, Looking
    <2>3. QED
      BY <2>1, <2>2
  <1>16. Handed(k)' /\ LetIn(k)' /\ Nuking(k)'
    BY <1>0, <1>9, <1>10 DEF Handed, LetIn, HandsOut, Nuking, Between
  <1>17. Recorded(k)'
    BY <1>3, <1>6, <1>9 DEF Recorded
  <1>18. QED
    BY <1>11, <1>12, <1>13, <1>14, <1>15, <1>16, <1>17 DEF Local

LEMMA SelectStep ==
  ASSUME TypeInv, NEW k \in Kernels, Local(k), Select(k)
  PROVE  Local(k)'
  <1>1. /\ pc[k] = "select" /\ Goto(k, "stop") /\ UNCHANGED <<box, group, file>>
        /\ mem' = [mem EXCEPT ![k].found = {r \in mem[k].found : box[r.id].name \in call[k].names}]
    BY DEF Select, TypeInv, TypeOK, Mem, aws
  <1>2. pc'[k] = "stop" /\ call'[k] = call[k]
    BY <1>1 DEF Goto, TypeInv, TypeOK
  <1>3. /\ mem'[k].found = {r \in mem[k].found : Named(k, r.id)} /\ mem'[k].put = mem[k].put
        /\ mem'[k].drop = mem[k].drop /\ mem'[k].cur = mem[k].cur
    BY <1>1 DEF TypeInv, TypeOK, Mem, Named
  <1>4. mem[k].put = {} /\ mem[k].drop = {} /\ call[k].op # "status"
    BY <1>1 DEF Local, Filing, Course, Between
  <1>5. Truth(k)' /\ Filing(k)'
    BY <1>1, <1>2, <1>3, <1>4 DEF Local, Truth, Sound, Filing
  <1>6. Course(k)'
    BY <1>2, <1>4 DEF Course, Seeks, Looking, Between
  <1>7. Covered(k)' /\ Forgets(k)'
    BY <1>1, <1>2, <1>3, <1>4 DEF Local, Covered, Forgets, Collects, InHand, Launches, Between, Active, Named
  <1>8. Spares(k)'
    BY <1>1, <1>2, <1>3 DEF Local, Spares, Collects, InHand, Looking, Between, Live, Named
  <1>9. Matched(k)' /\ Handed(k)' /\ LetIn(k)' /\ Nuking(k)' /\ Recorded(k)'
    BY <1>2 DEF Matched, Seeks, Handed, HandsOut, LetIn, Nuking, Recorded, Looking, Between
  <1>10. QED
    BY <1>5, <1>6, <1>7, <1>8, <1>9 DEF Local

-----------------------------------------------------------------------------
(* The steps that hand an instance out.                                    *)

LEMMA NotNoRef == NoRef \notin Ref
  BY Ec2Assumption DEF NoRef, Ref

LEMMA WaitReadyStep ==
  ASSUME TypeInv, OneActive, NEW k \in Kernels, Local(k), WaitReady(k)
  PROVE  Local(k)'
  <1>1. /\ pc[k] \in {"reuse_wait", "wait"} /\ Goto(k, "load") /\ UNCHANGED <<box, group, file>>
        /\ mem' = [mem EXCEPT ![k].put = {mem[k].cur}, ![k].ret = "done"]
    BY DEF WaitReady, Waiting, aws
  <1>2. /\ call[k].op # "status" /\ mem[k].drop = {}
        /\ mem[k].cur \in Ref /\ Asked(k, mem[k].cur.id) /\ Sound(mem[k].cur)
        /\ mem[k].via \in group[mem[k].cur.sg].open
    <2>1. call[k].op # "status" /\ mem[k].drop = {}
      BY <1>1 DEF Local, Course, Filing, Between
    <2>2. HandsOut(k)
      BY <1>1, <2>1 DEF HandsOut
    <2>3. QED
      BY <2>1, <2>2, NotNoRef DEF Local, Handed, LetIn, Truth
  <1>3. PICK new : new = [mem[k] EXCEPT !.put = {mem[k].cur}, !.ret = "done"]
    OBVIOUS
  <1>4. mem'[k] = new
    BY <1>1, <1>3 DEF TypeInv, TypeOK
  <1>5. /\ mem'[k].put = {mem[k].cur} /\ mem'[k].ret = "done" /\ mem'[k].found = mem[k].found
        /\ mem'[k].drop = {} /\ mem'[k].cur = mem[k].cur /\ mem'[k].via = mem[k].via
    BY <1>2, <1>3, <1>4 DEF TypeInv, TypeOK, Mem
  <1>6. pc'[k] = "load" /\ call'[k] = call[k]
    BY <1>1 DEF Goto, TypeInv, TypeOK
  <1>7. Truth(k)'
    BY <1>1, <1>2, <1>5 DEF Local, Truth, Sound
  <1>8. Filing(k)'
    BY <1>1, <1>2, <1>5, <1>6, Alive DEF Filing, Between, OneActive, Active, Asked
  <1>9. Course(k)'
    BY <1>2, <1>5, <1>6 DEF Course, Seeks, Looking, Between
  <1>10. Covered(k)' /\ Forgets(k)' /\ Spares(k)'
    BY <1>5, <1>6 DEF Covered, Forgets, Spares, Collects, InHand, Launches, Looking, Between
  <1>11. Handed(k)' /\ LetIn(k)'
    BY <1>1, <1>2, <1>5, <1>6 DEF Handed, LetIn, Asked, Live, Named
  <1>12. Matched(k)' /\ Nuking(k)' /\ Recorded(k)'
    BY <1>2, <1>5, <1>6 DEF Matched, Seeks, Nuking, Recorded, Looking, Between
  <1>13. QED
    BY <1>7, <1>8, <1>9, <1>10, <1>11, <1>12 DEF Local

LEMMA AwaitRunningStep ==
  ASSUME TypeInv, OneActive, NEW k \in Kernels, Local(k), AwaitRunning(k)
  PROVE  Local(k)'
  <1> DEFINE inst == [id |-> mem[k].match, sg |-> mem[k].sg, ip |-> box[mem[k].match].ip]
  <1>1. /\ pc[k] = "await_running" /\ Goto(k, "load") /\ UNCHANGED <<box, group, file>>
        /\ mem' = [mem EXCEPT ![k].cur = inst, ![k].put = {inst}, ![k].ret = "wait", ![k].match = None]
    BY DEF AwaitRunning, aws
  <1>2. /\ call[k].op # "status" /\ mem[k].drop = {}
        /\ Asked(k, mem[k].match) /\ box[mem[k].match].sg = mem[k].sg
        /\ mem[k].via \in group[mem[k].sg].open
    BY <1>1 DEF Local, Course, Filing, Matched, LetIn, Between
  <1>3. inst \in Ref /\ Sound(inst) /\ inst.id = mem[k].match /\ inst.sg = mem[k].sg
    <2>1. Active(mem[k].match) /\ mem[k].match \in Ids
      BY <1>2, Alive DEF Asked
    <2>2. QED
      BY <1>2, <2>1, ActiveRefs DEF Sound, Ref
  <1> HIDE DEF inst
  <1>4. PICK new : RunningAs(new, mem[k], inst)
    BY DEF RunningAs
  <1>5. mem'[k] = new
    BY <1>1, <1>4 DEF TypeInv, TypeOK, RunningAs
  <1>6. /\ mem'[k].cur = inst /\ mem'[k].put = {inst} /\ mem'[k].ret = "wait"
        /\ mem'[k].found = mem[k].found /\ mem'[k].drop = {} /\ mem'[k].via = mem[k].via
    BY <1>2, <1>4, <1>5 DEF TypeInv, TypeOK, Mem, RunningAs
  <1>7. pc'[k] = "load" /\ call'[k] = call[k]
    BY <1>1 DEF Goto, TypeInv, TypeOK
  <1>8. Truth(k)'
    BY <1>1, <1>3, <1>6 DEF Local, Truth, Sound
  <1>9. Filing(k)'
    BY <1>1, <1>2, <1>3, <1>6, <1>7, Alive DEF Filing, Between, OneActive, Active, Asked
  <1>10. Course(k)'
    BY <1>2, <1>6, <1>7 DEF Course, Seeks, Looking, Between
  <1>11. Covered(k)' /\ Forgets(k)' /\ Spares(k)'
    BY <1>6, <1>7 DEF Covered, Forgets, Spares, Collects, InHand, Launches, Looking, Between
  <1>12. Handed(k)' /\ LetIn(k)'
    BY <1>1, <1>2, <1>3, <1>6, <1>7 DEF Handed, LetIn, Asked, Live, Named
  <1>13. Matched(k)' /\ Nuking(k)' /\ Recorded(k)'
    BY <1>2, <1>6, <1>7 DEF Matched, Seeks, Nuking, Recorded, Looking, Between
  <1>14. QED
    BY <1>8, <1>9, <1>10, <1>11, <1>12, <1>13 DEF Local

-----------------------------------------------------------------------------
(* The steps of stop(), which start() takes to replace an instance.        *)

LEMMA TerminateBox ==
  ASSUME TypeInv, NEW k \in Kernels, Terminate(k)
  PROVE  Kept /\ \A b \in Ids : (Active(b)' => Active(b)) /\ (Live(b)' => Live(b))
  <1>0. \A r \in mem[k].found : r.id \in Ids
    BY DEF TypeInv, TypeOK, Mem, Ref
  <1>1. PICK r \in mem[k].found : r.id \in Ids /\ box' = [box EXCEPT ![r.id] = Terminated(r.id)]
    BY <1>0 DEF Terminate
  <1>2. box' = [b \in Ids |-> IF b \in {r.id} THEN Terminated(b) ELSE box[b]]
    BY <1>1 DEF TypeInv, TypeOK
  <1>3. QED
    BY <1>1, <1>2, Terminates

LEMMA TerminateStep ==
  ASSUME TypeInv, NEW k \in Kernels, Local(k), Terminate(k)
  PROVE  Local(k)'
  <1>0. /\ pc[k] = "stop" /\ Goto(k, "load") /\ UNCHANGED <<group, file>>
        /\ mem[k].put = {} /\ mem[k].drop = {} /\ call[k].op # "status" /\ mem[k] \in Mem
    BY DEF Terminate, Local, Filing, Course, Between, TypeInv, TypeOK
  <1>1. PICK r \in mem[k].found :
          /\ box' = [box EXCEPT ![r.id] = Terminated(r.id)]
          /\ mem' = [mem EXCEPT ![k].cur = r, ![k].found = @ \ {r},
                                ![k].drop = {box[r.id].name}, ![k].ret = "delete_sg"]
    BY DEF Terminate
  <1>2. PICK new : TerminatedAs(new, mem[k], r, mem[k].found \ {r}, {box[r.id].name})
    BY DEF TerminatedAs
  <1>3. mem'[k] = new
    BY <1>1, <1>2 DEF TypeInv, TypeOK, TerminatedAs
  <1>4. /\ mem'[k].cur = r /\ mem'[k].found = mem[k].found \ {r}
        /\ mem'[k].drop = {box[r.id].name} /\ mem'[k].ret = "delete_sg" /\ mem'[k].put = {}
    BY <1>0, <1>2, <1>3 DEF Mem, TerminatedAs
  <1>5. pc'[k] = "load" /\ call'[k] = call[k]
    BY <1>0 DEF Goto, TypeInv, TypeOK
  <1>6. Kept /\ \A b \in Ids : (Active(b)' => Active(b)) /\ (Live(b)' => Live(b))
    BY TerminateBox
  <1>7. \A q \in mem[k].found : Sound(q) /\ Sound(q)' /\ box'[q.id].name = box[q.id].name
    <2>1. \A q \in mem[k].found : Sound(q)
      BY DEF Local, Truth
    <2>2. QED
      BY <1>6, <2>1, SoundKept DEF Sound, Ref, Kept
  <1>8. Truth(k)' /\ Filing(k)'
    BY <1>4, <1>5, <1>7 DEF Truth, Filing, Between
  <1>9. Course(k)'
    BY <1>0, <1>4, <1>5 DEF Course, Seeks, Looking, Between
  <1>10. Covered(k)'
    <2>1. \A b \in Ids : Active(b) /\ Named(k, b) => \E q \in mem[k].found : q.id = b
      BY <1>0 DEF Local, Covered, Collects, InHand, Between
    <2>2. \A b \in Ids : Active(b)' /\ Named(k, b)' => Active(b) /\ Named(k, b)
      BY <1>5, <1>6, Launched DEF Named, Kept
    <2>3. \A b \in Ids : Active(b) /\ Named(k, b) => (\E q \in mem'[k].found : q.id = b) \/ mem'[k].cur.id = b
      BY <1>4, <2>1
    <2>4. QED
      BY <1>4, <1>5, <2>2, <2>3 DEF Covered, InHand, Launches, Between
  <1>11. Forgets(k)'
    <2>1. \A n \in call[k].names : file[n] # None => \E q \in mem[k].found : box[q.id].name = n
      BY <1>0 DEF Local, Forgets, Collects
    <2>2. \A n \in call[k].names : file[n] # None =>
             n \in mem'[k].drop \/ \E q \in mem'[k].found : box'[q.id].name = n
      BY <1>4, <1>7, <2>1
    <2>3. QED
      BY <1>0, <1>4, <1>5, <2>2 DEF Forgets, Launches
  <1>12. Spares(k)'
    <2>1. \A q \in mem'[k].found : Named(k, q.id)'
      BY <1>0, <1>4, <1>5, <1>7 DEF Local, Spares, Named
    <2>2. call[k].op = "start" /\ ~call[k].force =>
             \A b \in Ids : Live(b) /\ Named(k, b) => box[b].conf # call[k].conf
      BY <1>0 DEF Local, Spares, Collects
    <2>3. call[k].op = "start" /\ ~call[k].force =>
             \A b \in Ids : Live(b)' /\ Named(k, b)' => box'[b].conf # call[k].conf
      BY <1>5, <1>6, <2>2, Alive DEF Named, Kept
    <2>4. QED
      BY <1>5, <2>1, <2>3 DEF Spares
  <1>13. Matched(k)' /\ Handed(k)' /\ LetIn(k)' /\ Nuking(k)' /\ Recorded(k)'
    BY <1>0, <1>4, <1>5 DEF Matched, Seeks, Handed, HandsOut, LetIn, Nuking, Recorded, Looking, Between
  <1>14. QED
    BY <1>8, <1>9, <1>10, <1>11, <1>12, <1>13 DEF Local

(* A group that can be deleted has no active instance.                     *)
LEMMA DeletedIsOver ==
  ASSUME TypeInv, NEW k \in Kernels, Local(k), DeleteSg(k)
  PROVE  /\ mem[k].cur \in Ref /\ Sound(mem[k].cur)
         /\ box[mem[k].cur.id].state = "terminated"
  <1>1. mem[k].cur \in Ref /\ ~InUse(mem[k].cur.sg)
    BY DEF DeleteSg, TypeInv, AtHand
  <1>2. Sound(mem[k].cur)
    BY <1>1, NotNoRef DEF Local, Truth
  <1>3. QED
    BY <1>1, <1>2 DEF InUse, Sound, Ref

LEMMA DeleteSgStep ==
  ASSUME TypeInv, NEW k \in Kernels, Local(k), DeleteSg(k)
  PROVE  Local(k)'
  <1>1. pc[k] = "delete_sg" /\ Goto(k, "stop") /\ UNCHANGED <<box, file, mem>>
    BY DEF DeleteSg
  <1>2. pc'[k] = "stop" /\ call'[k] = call[k] /\ mem'[k] = mem[k]
    BY <1>1, SameLocals
  <1>3. mem[k].put = {} /\ mem[k].drop = {} /\ call[k].op # "status"
    BY <1>1 DEF Local, Filing, Course, Between
  <1>4. ~Active(mem[k].cur.id)
    BY DeletedIsOver DEF Active, ActiveStates
  <1>5. Truth(k)' /\ Filing(k)'
    BY <1>1, <1>2, <1>3 DEF Local, Truth, Sound, Filing
  <1>6. Course(k)'
    BY <1>2, <1>3 DEF Course, Seeks, Looking, Between
  <1>7. Covered(k)' /\ Forgets(k)'
    BY <1>1, <1>2, <1>4 DEF Local, Covered, Forgets, Collects, InHand, Launches, Between, Active, Named
  <1>8. Spares(k)'
    BY <1>1, <1>2 DEF Local, Spares, Collects, InHand, Looking, Between, Live, Named
  <1>9. Matched(k)' /\ Handed(k)' /\ LetIn(k)' /\ Nuking(k)' /\ Recorded(k)'
    BY <1>2 DEF Matched, Seeks, Handed, HandsOut, LetIn, Nuking, Recorded, Looking, Between
  <1>10. QED
    BY <1>5, <1>6, <1>7, <1>8, <1>9 DEF Local

LEMMA StopDoneStep ==
  ASSUME TypeInv, OneActive, FileTells, NEW k \in Kernels, Local(k), StopDone(k)
  PROVE  Local(k)'
  <1>0. pc[k] = "stop" /\ mem[k].found = {} /\ UNCHANGED <<box, group, file>>
    BY DEF StopDone, aws
  <1>1. CASE call[k].op = "start"
    <2>1. Goto(k, "create_sg") /\ UNCHANGED mem
      BY <1>1 DEF StopDone
    <2>2. pc'[k] = "create_sg" /\ call'[k] = call[k] /\ mem'[k] = mem[k]
      BY <2>1, SameLocals
    <2>3. mem[k].put = {} /\ mem[k].drop = {}
      BY <1>0 DEF Local, Filing, Between
    <2>4. Truth(k)' /\ Filing(k)'
      BY <1>0, <2>2, <2>3 DEF Local, Truth, Sound, Filing
    <2>5. Course(k)'
      BY <1>1, <2>2 DEF Course, Seeks, Looking, Between
    <2>6. Covered(k)' /\ Forgets(k)'
      BY <1>0, <2>2, <2>3 DEF Local, Covered, Forgets, Collects, InHand, Launches, Between, Active, Named
    <2>7. Spares(k)'
      BY <2>2 DEF Spares, Collects, InHand, Looking, Between
    <2>8. Matched(k)' /\ Handed(k)' /\ LetIn(k)' /\ Nuking(k)' /\ Recorded(k)'
      BY <2>2 DEF Matched, Seeks, Handed, HandsOut, LetIn, Nuking, Recorded, Looking, Between
    <2>9. QED
      BY <2>4, <2>5, <2>6, <2>7, <2>8 DEF Local
  <1>2. CASE call[k].op # "start"
    BY <1>0, <1>2, ReturnSteps DEF StopDone
  <1>3. QED
    BY <1>1, <1>2

-----------------------------------------------------------------------------
(* The launch.                                                             *)

(* Where only the group, its rules and the profile are made.               *)
LEMMA LaunchesOn ==
  ASSUME TypeInv, NEW k \in Kernels, Local(k), UNCHANGED <<box, file>>, call'[k] = call[k],
         pc[k] = "create_sg" \/ Launches(k),
         pc'[k] \in {"create_sg", "ingress", "role", "attach", "profile", "add_role", "run"},
         mem'[k].found = mem[k].found, mem'[k].put = mem[k].put, mem'[k].drop = mem[k].drop,
         mem'[k].cur = mem[k].cur,
         pc'[k] # "ingress" => mem'[k].via \in group'[mem'[k].sg].open
  PROVE  Local(k)'
  <1>1. mem[k].put = {} /\ mem[k].drop = {} /\ Launches(k)
    BY DEF Local, Filing, Launches, Between
  <1>2. call[k].op # "status"
    BY DEF Local, Course, Launches
  <1>3. Truth(k)' /\ Filing(k)'
    BY <1>1 DEF Local, Truth, Sound, Filing
  <1>4. Course(k)'
    BY <1>2 DEF Course, Seeks, Looking, Between
  <1>5. Covered(k)' /\ Forgets(k)'
    BY <1>1 DEF Local, Covered, Forgets, Collects, InHand, Launches, Between, Active, Named
  <1>6. Spares(k)'
    BY DEF Spares, Collects, InHand, Looking, Between
  <1>7. LetIn(k)'
    BY DEF LetIn, HandsOut, Between
  <1>8. Matched(k)' /\ Handed(k)' /\ Nuking(k)' /\ Recorded(k)'
    BY DEF Matched, Seeks, Handed, HandsOut, Nuking, Recorded, Looking, Between
  <1>9. QED
    BY <1>3, <1>4, <1>5, <1>6, <1>7, <1>8 DEF Local

LEMMA PrepareSteps ==
  ASSUME TypeInv, NEW k \in Kernels, Local(k),
         \/ CreateSg(k) \/ Ingress(k)
         \/ CreateRole(k) \/ AttachPolicy(k) \/ CreateProfile(k) \/ AddRole(k)
  PROVE  Local(k)'
  <1>0. mem \in [Kernels -> Mem] /\ mem[k] \in Mem /\ pc \in [Kernels -> Labels]
    BY DEF TypeInv, TypeOK
  <1>1. CASE CreateSg(k)
    <2>1. PICK g : mem' = [mem EXCEPT ![k].sg = g, ![k].via = addr]
      BY <1>1 DEF CreateSg
    <2>2. PICK new : new = [mem[k] EXCEPT !.sg = g, !.via = addr]
      OBVIOUS
    <2>3. mem'[k] = new
      BY <1>0, <2>1, <2>2
    <2>4. new.found = mem[k].found /\ new.put = mem[k].put /\ new.drop = mem[k].drop /\ new.cur = mem[k].cur
      BY <1>0, <2>2 DEF Mem
    <2>5. pc[k] = "create_sg" /\ pc'[k] = "ingress" /\ call'[k] = call[k] /\ UNCHANGED <<box, file>>
      BY <1>0, <1>1 DEF CreateSg, Goto
    <2>6. QED
      BY <2>3, <2>4, <2>5, LaunchesOn
  <1>2. CASE Ingress(k)
    <2>1. pc[k] = "ingress" /\ mem[k].sg \in Groups
      BY <1>2 DEF Ingress, TypeInv, AtHand
    <2>2. PICK g \in Groups : g = mem[k].sg
      BY <2>1
    <2>3. group' = [group EXCEPT ![g].open = {mem[k].via}] /\ UNCHANGED <<box, file, mem>>
      BY <1>2, <2>2 DEF Ingress
    <2>4. mem[k].via \in group'[g].open
      <3>1. group \in [Groups -> Group] /\ group[g] \in Group
        BY DEF TypeInv, TypeOK
      <3>2. QED
        BY <2>3, <3>1 DEF Group
    <2>5. pc'[k] \in {"role", "run"} /\ call'[k] = call[k]
      BY <1>0, <1>2 DEF Ingress, Goto
    <2>6. QED
      BY <2>1, <2>2, <2>3, <2>4, <2>5, LaunchesOn DEF Launches
  <1>3. CASE CreateRole(k) \/ AttachPolicy(k) \/ CreateProfile(k) \/ AddRole(k)
    <2>1. /\ pc[k] \in {"role", "attach", "profile", "add_role"}
          /\ pc'[k] \in {"attach", "profile", "add_role", "run"} /\ call'[k] = call[k]
          /\ UNCHANGED <<box, group, file, mem>>
      BY <1>0, <1>3 DEF CreateRole, AttachPolicy, CreateProfile, AddRole, Ensure, Goto
    <2>2. mem[k].via \in group[mem[k].sg].open
      BY <2>1 DEF Local, LetIn
    <2>3. QED
      BY <2>1, <2>2, LaunchesOn DEF Launches
  <1>4. QED
    BY <1>1, <1>2, <1>3

(* There was nothing active of the name, and no entry for it.              *)
LEMMA RunStep ==
  ASSUME TypeInv, OneActive, FileTells, NEW k \in Kernels, Local(k), RunInstances(k)
  PROVE  Local(k)' /\ OneActive' /\ FileTells'
  <1>0. /\ pc[k] = "run" /\ call[k].op # "status" /\ mem[k].put = {} /\ mem[k].drop = {}
        /\ mem[k].via \in group[mem[k].sg].open
        /\ \A b \in Ids : ~(Active(b) /\ Named(k, b))
        /\ \A n \in call[k].names : file[n] = None
    BY DEF RunInstances, Local, Course, Filing, LetIn, Covered, Forgets, Launches, Between
  <1>1. PICK b \in Ids, n \in call[k].names :
          /\ box[b].state = "unborn"
          /\ box' = [box EXCEPT ![b] = [state |-> "pending", name |-> n, conf |-> call[k].conf,
                                        sg |-> mem[k].sg, ip |-> FALSE, up |-> FALSE]]
          /\ mem' = [mem EXCEPT ![k].match = b]
    BY DEF RunInstances
  <1> DEFINE new == [state |-> "pending", name |-> n, conf |-> call[k].conf,
                     sg |-> mem[k].sg, ip |-> FALSE, up |-> FALSE]
  <1>2. /\ box' = [box EXCEPT ![b] = new] /\ new.state = "pending" /\ new.name = n
        /\ new.conf = call[k].conf /\ new.sg = mem[k].sg
    BY <1>1
  <1> HIDE DEF new
  <1>3. /\ box'[b] = new /\ \A c \in Ids \ {b} : box'[c] = box[c]
        /\ UNCHANGED <<group, file>> /\ pc'[k] = "await_running" /\ call'[k] = call[k]
    BY <1>2 DEF RunInstances, Goto, TypeInv, TypeOK
  <1>4. /\ mem'[k].match = b /\ mem'[k].found = mem[k].found /\ mem'[k].put = {} /\ mem'[k].drop = {}
        /\ mem'[k].cur = mem[k].cur /\ mem'[k].sg = mem[k].sg /\ mem'[k].via = mem[k].via
    BY <1>0, <1>1 DEF TypeInv, TypeOK, Mem
  <1>5. Kept
    BY <1>1, <1>3 DEF Kept
  <1>6. \A c \in Ids : Active(c)' /\ c # b => Active(c) /\ box'[c].name = box[c].name /\ box[c].name # n
    BY <1>0, <1>3 DEF Active, Named
  <1>7. OneActive'
    BY <1>2, <1>3, <1>6 DEF OneActive
  <1>8. FileTells'
    BY <1>0, <1>2, <1>3, <1>6 DEF FileTells
  <1>9. Truth(k)' /\ Filing(k)'
    BY <1>3, <1>4, <1>5, SoundKept DEF Local, Truth, Filing
  <1>10. Course(k)'
    BY <1>0, <1>3 DEF Course, Seeks, Looking, Between
  <1>11. Covered(k)' /\ Forgets(k)' /\ Spares(k)'
    BY <1>3 DEF Covered, Forgets, Spares, Collects, InHand, Launches, Looking, Between
  <1>12. Matched(k)'
    <2>1. Asked(k, b)' /\ box'[b].sg = mem'[k].sg
      BY <1>2, <1>3, <1>4 DEF Asked, Live, Named
    <2>2. QED
      BY <1>3, <1>4, <2>1 DEF Matched, Seeks, Looking, Between
  <1>13. LetIn(k)'
    BY <1>0, <1>3, <1>4 DEF LetIn, HandsOut, Between
  <1>14. Handed(k)' /\ Nuking(k)' /\ Recorded(k)'
    BY <1>3 DEF Handed, HandsOut, Nuking, Recorded, Between
  <1>15. QED
    BY <1>7, <1>8, <1>9, <1>10, <1>11, <1>12, <1>13, <1>14 DEF Local

-----------------------------------------------------------------------------
(* The steps of nuke().                                                    *)

LEMMA NukeTerminateBox ==
  ASSUME TypeInv, NEW k \in Kernels, NukeTerminate(k)
  PROVE  Kept /\ \A b \in Ids : (Active(b)' => Active(b)) /\ (Live(b)' => Live(b))
  <1>1. PICK S \in SUBSET Ids : S = {b \in Ids : \E r \in mem[k].found : r.id = b}
    OBVIOUS
  <1>2. box' = [b \in Ids |-> IF b \in S THEN Terminated(b) ELSE box[b]]
    BY <1>1 DEF NukeTerminate
  <1>3. QED
    BY <1>2, Terminates

(* What nuke() goes through, whatever it is that is left.                  *)
LEMMA NukesOn ==
  ASSUME NEW k \in Kernels, Local(k), Kept, call'[k] = call[k],
         pc[k] \in {"nuke_terminate", "nuke_await", "nuke_groups"},
         pc'[k] \in {"nuke_await", "nuke_groups"},
         mem'[k].found = mem[k].found, mem'[k].put = mem[k].put, mem'[k].drop = mem[k].drop,
         mem'[k].cur = mem[k].cur, Nuking(k)'
  PROVE  Local(k)'
  <1>1. mem[k].put = {} /\ mem[k].drop = {} /\ call[k].op # "status"
    BY DEF Local, Filing, Course, Between
  <1>2. Truth(k)' /\ Filing(k)'
    BY <1>1, SoundKept DEF Local, Truth, Filing
  <1>3. Course(k)'
    BY <1>1 DEF Course, Seeks, Looking, Between
  <1>4. Covered(k)' /\ Forgets(k)' /\ Spares(k)'
    BY DEF Covered, Forgets, Spares, Collects, InHand, Launches, Looking, Between
  <1>5. Matched(k)' /\ Handed(k)' /\ LetIn(k)' /\ Recorded(k)'
    BY DEF Matched, Seeks, Handed, HandsOut, LetIn, Recorded, Looking, Between
  <1>6. QED
    BY <1>2, <1>3, <1>4, <1>5 DEF Local

LEMMA NukeSteps ==
  ASSUME TypeInv, NEW k \in Kernels, Local(k), NukeTerminate(k) \/ NukeAwait(k) \/ NukeGroup(k)
  PROVE  Local(k)'
  <1>0. mem \in [Kernels -> Mem] /\ mem[k] \in Mem /\ pc \in [Kernels -> Labels]
    BY DEF TypeInv, TypeOK
  <1>1. CASE NukeTerminate(k)
    <2>1. pc[k] = "nuke_terminate" /\ pc'[k] = "nuke_await" /\ call'[k] = call[k] /\ mem'[k] = mem[k]
      BY <1>0, <1>1 DEF NukeTerminate, Goto
    <2>2. Nuking(k)'
      BY <1>1, <2>1, NukeTerminateBox DEF Local, Nuking
    <2>3. QED
      BY <1>1, <2>1, <2>2, NukeTerminateBox, NukesOn
  <1>2. CASE NukeAwait(k)
    <2>1. /\ pc[k] = "nuke_await" /\ pc'[k] = "nuke_groups" /\ call'[k] = call[k]
          /\ UNCHANGED <<box, group>>
          /\ mem' = [mem EXCEPT ![k].gone = {g \in Groups : group[g].exists}]
      BY <1>0, <1>2 DEF NukeAwait, Goto, aws
    <2>2. /\ mem'[k].gone = {g \in Groups : group[g].exists}
          /\ mem'[k].found = mem[k].found /\ mem'[k].put = mem[k].put /\ mem'[k].drop = mem[k].drop
          /\ mem'[k].cur = mem[k].cur
      BY <1>0, <2>1 DEF Mem
    <2>3. \A b \in Ids : ~Active(b)
      BY <1>2, <2>1 DEF NukeAwait, Local, Nuking, Active, ActiveStates
    <2>4. Nuking(k)'
      BY <2>1, <2>2, <2>3 DEF Nuking, Active
    <2>5. QED
      BY <2>1, <2>2, <2>4, BoxCalm, NukesOn DEF Calm
  <1>3. CASE NukeGroup(k)
    <2>1. PICK g \in mem[k].gone :
            /\ group' = [group EXCEPT ![g] = NoGroup]
            /\ mem' = [mem EXCEPT ![k].gone = @ \ {g}]
      BY <1>3 DEF NukeGroup
    <2>2. pc[k] = "nuke_groups" /\ UNCHANGED <<box, pc, call>>
      BY <1>3 DEF NukeGroup
    <2>3. /\ mem'[k].gone = mem[k].gone \ {g}
          /\ mem'[k].found = mem[k].found /\ mem'[k].put = mem[k].put /\ mem'[k].drop = mem[k].drop
          /\ mem'[k].cur = mem[k].cur
      BY <1>0, <2>1 DEF Mem
    <2>4. \A h \in Groups : group'[h].exists => group[h].exists /\ h # g
      <3>1. group \in [Groups -> Group] /\ g \in Groups /\ ~NoGroup.exists
        BY <1>0 DEF TypeInv, TypeOK, Mem, NoGroup
      <3>2. QED
        BY <2>1, <3>1
    <2>5. Nuking(k)'
      BY <2>2, <2>3, <2>4 DEF Local, Nuking, Active
    <2>6. QED
      BY <2>2, <2>3, <2>5, BoxCalm, NukesOn DEF Calm
  <1>4. QED
    BY <1>1, <1>2, <1>3

-----------------------------------------------------------------------------
(* All of them together.                                                   *)

LEMMA EndSteps ==
  ASSUME TypeInv, OneActive, FileTells, NEW k \in Kernels,
         \/ WaitNoAddress(k) \/ WaitTimeout(k) \/ RunRefused(k) \/ Done(k) \/ NukeDone(k)
         \/ AwsFails(k) \/ DescribeFails(k) \/ Crash(k)
  PROVE  Local(k)' /\ OneActive' /\ FileTells'
  <1>1. PICK r : Return(k, r)
    BY DEF WaitNoAddress, WaitTimeout, RunRefused, Done, NukeDone, AwsFails, DescribeFails, Crash, Raise
  <1>2. UNCHANGED box /\ file' \in {file, NoFile}
    BY DEF WaitNoAddress, WaitTimeout, RunRefused, Done, NukeDone, AwsFails, DescribeFails, Crash, Raise, aws
  <1>3. QED
    BY <1>1, <1>2, ReturnSteps

LEMMA SoleInit == Init => SoleInv
  <1> SUFFICES ASSUME Init PROVE SoleInv
    OBVIOUS
  <1>1. \A b \in Ids : ~Active(b)
    BY DEF Init, Active, ActiveStates, Unborn
  <1>2. OneActive /\ FileTells /\ Open
    BY <1>1 DEF Init, OneActive, FileTells, Open
  <1>3. ASSUME NEW k \in Kernels PROVE Local(k)
    <2>1. pc[k] = "idle" /\ call[k].op = "status" /\ mem[k] = NoMem
      BY DEF Init, NoCall
    <2>2. /\ mem[k].found = {} /\ mem[k].put = {} /\ mem[k].drop = {} /\ mem[k].ret = "done"
          /\ mem[k].cur = NoRef
      BY <2>1 DEF NoMem
    <2>3. Truth(k) /\ Filing(k) /\ Course(k)
      BY <2>1, <2>2 DEF Truth, Filing, Course, Seeks, Looking, Between
    <2>4. Covered(k) /\ Forgets(k) /\ Spares(k)
      BY <2>1 DEF Covered, Forgets, Spares, Collects, InHand, Launches, Looking, Between
    <2>5. Matched(k) /\ Handed(k) /\ LetIn(k) /\ Nuking(k) /\ Recorded(k)
      BY <2>1 DEF Matched, Seeks, Handed, HandsOut, LetIn, Nuking, Recorded, Looking, Between
    <2>6. QED
      BY <2>3, <2>4, <2>5 DEF Local
  <1>4. QED
    BY <1>2, <1>3, InitTypes DEF SoleInv

LEMMA SoleNext ==
  ASSUME Alone, SoleInv, [Next]_vars
  PROVE  SoleInv'
  <1>0. TypeInv /\ Open /\ OneActive /\ FileTells /\ \A k \in Kernels : Local(k)
    BY DEF SoleInv
  <1>1. TypeInv' /\ Open'
    BY <1>0, NextTypes, OpenNext
  <1>2. ASSUME Calm, UNCHANGED <<group, file, pc, call, mem>> PROVE SoleInv'
    <2>1. OneActive' /\ FileTells'
      BY <1>0, <1>2, CalmState DEF Calm
    <2>2. \A k \in Kernels : Local(k)'
      BY <1>0, <1>2, LocalKept
    <2>3. QED
      BY <1>1, <2>1, <2>2 DEF SoleInv
  <1>3. CASE UNCHANGED vars
    BY <1>2, <1>3, BoxCalm DEF vars, aws
  <1>4. CASE Environment
    BY <1>0, <1>2, <1>4, EnvironmentCalm
  <1>5. ASSUME NEW k \in Kernels, Kernel(k) PROVE SoleInv'
    <2>0. Local(k) /\ \A j \in Kernels : j = k
      BY <1>0 DEF Alone
    <2>1. SUFFICES Local(k)' /\ OneActive' /\ FileTells'
      BY <1>1, <2>0 DEF SoleInv
    <2>2. ASSUME UNCHANGED <<box, file>> PROVE OneActive' /\ FileTells'
      BY <1>0, <2>2, BoxCalm, CalmState DEF Calm
    <2>3. CASE CallStart(k) \/ CallStop(k) \/ CallStatus(k) \/ CallNuke(k)
      <3>1. UNCHANGED <<box, file>>
        BY <2>3 DEF CallStart, CallStop, CallStatus, CallNuke, Enter, aws
      <3>2. QED
        BY <1>0, <2>2, <2>3, <3>1, EnterSteps
    <2>4. CASE LoadState(k) \/ LoadKnown(k) \/ SaveDone(k) \/ Describe(k) \/ Select(k)
      <3>1. UNCHANGED <<box, file>>
        BY <2>4 DEF LoadState, LoadKnown, SaveDone, Describe, Select, aws
      <3>2. QED
        BY <1>0, <2>0, <2>2, <2>4, <3>1, LoadSteps, SavedStep, DescribeStep, SelectStep
    <2>5. CASE SaveForget(k) \/ SaveRemember(k)
      <3>1. UNCHANGED box
        BY <2>5 DEF SaveForget, SaveRemember, aws
      <3>2. OneActive'
        BY <1>0, <3>1 DEF OneActive, Active
      <3>3. QED
        BY <1>0, <2>0, <2>5, <3>2, ForgetStep, RememberStep
    <2>6. CASE MatchNone(k) \/ MatchFound(k) \/ AwaitStopped(k) \/ AwaitResumed(k)
      <3>1. UNCHANGED <<box, file>>
        BY <2>6 DEF MatchNone, MatchFound, AwaitStopped, AwaitResumed, Discover, aws
      <3>2. QED
        BY <1>0, <2>0, <2>2, <2>6, <3>1, MatchSteps, ResumeSteps
    <2>7. CASE Resume(k)
      <3>1. Calm /\ UNCHANGED file
        BY <1>0, <2>7, ResumeCalm DEF Resume
      <3>2. QED
        BY <1>0, <2>0, <2>7, <3>1, ResumeSteps, CalmState DEF Calm
    <2>8. CASE Reuse(k) \/ ReuseVanished(k) \/ Authorize(k) \/ WaitReady(k) \/ AwaitRunning(k)
      <3>1. UNCHANGED <<box, file>>
        BY <2>8 DEF Reuse, ReuseVanished, Authorize, WaitReady, AwaitRunning, Discover, aws
      <3>2. QED
        BY <1>0, <2>0, <2>2, <2>8, <3>1, ReuseSteps, AuthorizeStep, WaitReadyStep, AwaitRunningStep
    <2>9. CASE Terminate(k) \/ NukeTerminate(k)
      <3>1. Kept /\ (\A b \in Ids : Active(b)' => Active(b)) /\ UNCHANGED file
        BY <1>0, <2>9, TerminateBox, NukeTerminateBox DEF Terminate, NukeTerminate
      <3>2. QED
        BY <1>0, <2>0, <2>9, <3>1, CalmState, TerminateStep, NukeSteps
    <2>10. CASE DeleteSg(k) \/ StopDone(k) \/ NukeAwait(k) \/ NukeGroup(k)
      <3>1. UNCHANGED <<box, file>>
        BY <2>10 DEF DeleteSg, StopDone, NukeAwait, NukeGroup, aws
      <3>2. QED
        BY <1>0, <2>0, <2>2, <2>10, <3>1, DeleteSgStep, StopDoneStep, NukeSteps
    <2>11. CASE \/ CreateSg(k) \/ Ingress(k)
                \/ CreateRole(k) \/ AttachPolicy(k) \/ CreateProfile(k) \/ AddRole(k)
      <3>1. UNCHANGED <<box, file>>
        BY <2>11 DEF CreateSg, Ingress, CreateRole, AttachPolicy, CreateProfile, AddRole, Ensure
      <3>2. QED
        BY <1>0, <2>0, <2>2, <2>11, <3>1, PrepareSteps
    <2>12. CASE RunInstances(k)
      BY <1>0, <2>0, <2>12, RunStep
    <2>13. CASE \/ WaitNoAddress(k) \/ WaitTimeout(k) \/ RunRefused(k) \/ Done(k) \/ NukeDone(k)
                \/ AwsFails(k) \/ DescribeFails(k) \/ Crash(k)
      BY <1>0, <2>13, EndSteps
    <2>14. QED
      BY <1>5, <2>3, <2>4, <2>5, <2>6, <2>7, <2>8, <2>9, <2>10, <2>11, <2>12, <2>13 DEF Kernel
  <1>6. QED
    BY <1>3, <1>4, <1>5 DEF Next

LEMMA SoleAlways == ASSUME Alone PROVE Spec => []SoleInv
  <1>1. Init => SoleInv
    BY SoleInit
  <1>2. SoleInv /\ [Next]_vars => SoleInv'
    BY SoleNext
  <1>3. QED
    BY <1>1, <1>2, PTL DEF Spec

-----------------------------------------------------------------------------
(* What follows.                                                           *)

LEMMA LeavesDone ==
  ASSUME TypeInv, NEW k \in Kernels, Kernel(k), pc[k] = "done", result'[k] # "crashed"
  PROVE  Done(k)
  <1>1. ~Crash(k)
    BY DEF Crash, Return, TypeInv, TypeOK
  <1>2. QED
    BY <1>1 DEF Kernel, CallStart, CallStop, CallStatus, CallNuke, Enter, LoadState, SaveForget,
       SaveRemember, SaveDone, LoadKnown, Describe, Select, MatchNone, MatchFound, AwaitStopped,
       Resume, AwaitResumed, Reuse, ReuseVanished, Authorize, WaitNoAddress, WaitReady, WaitTimeout,
       Waiting, Terminate, DeleteSg, StopDone, CreateSg, Ingress, CreateRole, AttachPolicy,
       CreateProfile, AddRole, Ensure, RunInstances, RunRefused, AwaitRunning, NukeTerminate,
       NukeAwait, NukeGroup, NukeDone, AwsFails, DescribeFails

LEMMA LeavesStop ==
  ASSUME TypeInv, NEW k \in Kernels, Kernel(k), pc[k] = "stop", pc'[k] = "load"
  PROVE  Terminate(k)
  <1>1. ~StopDone(k) /\ ~AwsFails(k) /\ ~Crash(k)
    BY DEF StopDone, AwsFails, Crash, Raise, Return, Goto, TypeInv, TypeOK
  <1>2. QED
    BY <1>1 DEF Kernel, CallStart, CallStop, CallStatus, CallNuke, Enter, LoadState, SaveForget,
       SaveRemember, SaveDone, LoadKnown, Describe, Select, MatchNone, MatchFound, AwaitStopped,
       Resume, AwaitResumed, Reuse, ReuseVanished, Authorize, WaitNoAddress, WaitReady, WaitTimeout,
       Waiting, DeleteSg, CreateSg, Ingress, CreateRole, AttachPolicy,
       CreateProfile, AddRole, Ensure, RunInstances, RunRefused, AwaitRunning, Done, NukeTerminate,
       NukeAwait, NukeGroup, NukeDone, DescribeFails

LEMMA LeavesDeleteSg ==
  ASSUME TypeInv, NEW k \in Kernels, Kernel(k), pc[k] = "delete_sg", pc'[k] = "stop"
  PROVE  DeleteSg(k)
  <1>1. ~AwsFails(k) /\ ~Crash(k)
    BY DEF AwsFails, Crash, Raise, Return, TypeInv, TypeOK
  <1>2. QED
    BY <1>1 DEF Kernel, CallStart, CallStop, CallStatus, CallNuke, Enter, LoadState, SaveForget,
       SaveRemember, SaveDone, LoadKnown, Describe, Select, MatchNone, MatchFound, AwaitStopped,
       Resume, AwaitResumed, Reuse, ReuseVanished, Authorize, WaitNoAddress, WaitReady, WaitTimeout,
       Waiting, Terminate, StopDone, CreateSg, Ingress, CreateRole, AttachPolicy,
       CreateProfile, AddRole, Ensure, RunInstances, RunRefused, AwaitRunning, Done, NukeTerminate,
       NukeAwait, NukeGroup, NukeDone, DescribeFails

(* A start() ends with an instance at hand that is sound, that it was      *)
(* asked for, and that lets in the address of the lab.                     *)
LEMMA StartedWell ==
  ASSUME Alone, SoleInv, [Next]_vars, NEW k \in Kernels, Started(k)
  PROVE  /\ Sound(mem[k].cur) /\ Asked(k, mem[k].cur.id)
         /\ mem[k].via \in group[mem[k].cur.sg].open
  <1>0. TypeInv /\ Local(k) /\ pc[k] = "done" /\ result[k] = "none" /\ result'[k] \in {"reused", "running"}
    BY DEF SoleInv, Started, Open
  <1>1. Done(k)
    BY <1>0, OwnStep, LeavesDone
  <1>2. call[k].op # "status"
    BY <1>0, <1>1 DEF Done, Return, TypeInv, TypeOK
  <1>3. HandsOut(k)
    BY <1>0, <1>2 DEF HandsOut
  <1>4. QED
    BY <1>0, <1>3, NotNoRef DEF Local, Handed, LetIn, Truth

(* A start that is not forced never terminates an instance that matches    *)
(* what it was asked for: with one kernel, for any number of names and     *)
(* instances, whatever failed or crashed before and whoever pauses what.   *)
THEOREM StartSparesMatch == ASSUME Alone PROVE Spec => MatchingSurvives
  <1>1. ASSUME SoleInv, [Next]_vars, NEW k \in Kernels, NEW b \in Ids, Tears(k, b)
        PROVE  box[b].conf # call[k].conf
    <2>1. TypeInv /\ Local(k)
      BY <1>1 DEF SoleInv
    <2>2. Terminate(k)
      BY <1>1, <2>1, OwnStep, LeavesStop DEF Tears
    <2>3. PICK r \in mem[k].found : mem'[k].cur = r
      <3>1. PICK r \in mem[k].found :
              mem' = [mem EXCEPT ![k].cur = r, ![k].found = @ \ {r},
                                 ![k].drop = {box[r.id].name}, ![k].ret = "delete_sg"]
        BY <2>2 DEF Terminate
      <3>2. QED
        BY <2>1, <3>1 DEF TypeInv, TypeOK, Mem
    <2>4. Named(k, b) /\ Live(b) /\ call[k].op = "start" /\ ~call[k].force /\ pc[k] = "stop"
      BY <1>1, <2>1, <2>3 DEF Tears, Local, Spares
    <2>5. QED
      BY <2>1, <2>4 DEF Local, Spares, Collects
  <1>2. SoleInv /\ [Next]_vars =>
          [\A k \in Kernels, b \in Ids : Tears(k, b) => box[b].conf # call[k].conf]_vars
    BY <1>1
  <1>3. QED
    BY <1>2, SoleAlways, PTL DEF Spec, MatchingSurvives

(* What a start hands out has the name, the profile and the user data it   *)
(* was asked for, found twice or launched: with one kernel, for any number *)
(* of names and instances.                                                 *)
THEOREM StartHandsOutMatch == ASSUME Alone PROVE Spec => HandsOutMatch
  <1>1. SoleInv /\ [Next]_vars =>
          [\A k \in Kernels : Started(k) =>
              /\ box[mem[k].cur.id].conf = call[k].conf
              /\ box[mem[k].cur.id].name \in call[k].names]_vars
    BY StartedWell DEF Asked, Named
  <1>2. QED
    BY <1>1, SoleAlways, PTL DEF Spec, HandsOutMatch

(* The group of an instance that is handed out lets in the address the lab *)
(* had during the call, be the instance new or older than the address.     *)
THEOREM StartLetsCallerIn == ASSUME Alone PROVE Spec => CallerLetIn
  <1>1. SoleInv /\ [Next]_vars =>
          [\A k \in Kernels : Started(k) =>
              mem[k].via \in group[box[mem[k].cur.id].sg].open]_vars
    BY StartedWell DEF Sound
  <1>2. QED
    BY <1>1, SoleAlways, PTL DEF Spec, CallerLetIn

(* When stop() goes on from an instance, the instance is terminated and    *)
(* the group AWS reports for it deleted: with one kernel the state file,   *)
(* which names the group to delete, never names a wrong one.               *)
THEOREM StopDeletesItsGroup == ASSUME Alone PROVE Spec => StopRemovesGroup
  <1>1. ASSUME SoleInv, [Next]_vars, NEW k \in Kernels, pc[k] = "delete_sg", pc'[k] = "stop"
        PROVE  /\ box[mem[k].cur.id].state = "terminated"
               /\ ~group'[box[mem[k].cur.id].sg].exists
    <2>1. TypeInv /\ Local(k)
      BY <1>1 DEF SoleInv
    <2>2. DeleteSg(k)
      BY <1>1, <2>1, OwnStep, LeavesDeleteSg
    <2>3. mem[k].cur \in Ref /\ Sound(mem[k].cur) /\ box[mem[k].cur.id].state = "terminated"
      BY <2>1, <2>2, DeletedIsOver
    <2>4. group' = [group EXCEPT ![mem[k].cur.sg] = NoGroup] /\ group \in [Groups -> Group]
      BY <2>1, <2>2 DEF DeleteSg, TypeInv, TypeOK
    <2>5. ~group'[mem[k].cur.sg].exists
      BY <2>3, <2>4 DEF NoGroup, Ref
    <2>6. QED
      BY <2>3, <2>5 DEF Sound
  <1>2. SoleInv /\ [Next]_vars =>
          [\A k \in Kernels : pc[k] = "delete_sg" /\ pc'[k] = "stop" =>
              LET b == mem[k].cur.id IN
              box[b].state = "terminated" /\ ~group'[box[b].sg].exists]_vars
    BY <1>1
  <1>3. QED
    BY <1>2, SoleAlways, PTL DEF Spec, StopRemovesGroup

(* When nuke() returns, no instance is active, no group is left and the    *)
(* state file is empty: with one kernel, for any number of instances and   *)
(* groups that earlier calls left behind.                                  *)
THEOREM NukeClears == ASSUME Alone PROVE Spec => NukeLeavesNothing
  <1>1. ASSUME SoleInv, [Next]_vars, NEW k \in Kernels, Nuked(k)
        PROVE  /\ \A b \in Ids : ~Active(b)
               /\ \A g \in Groups : ~group[g].exists
               /\ file' = NoFile
    <2>1. TypeInv /\ Local(k) /\ pc[k] = "nuke_groups" /\ result[k] = "none" /\ result'[k] = "ok"
      BY <1>1 DEF SoleInv, Nuked, Open
    <2>2. NukeDone(k)
      BY <1>1, <2>1, OwnStep, LeavesGroups
    <2>3. mem[k].gone = {} /\ file' = NoFile
      BY <2>2 DEF NukeDone
    <2>4. QED
      BY <2>1, <2>3 DEF Local, Nuking
  <1>2. SoleInv /\ [Next]_vars =>
          [\A k \in Kernels : Nuked(k) =>
              /\ \A b \in Ids : ~Active(b)
              /\ \A g \in Groups : ~group[g].exists
              /\ file' = NoFile]_vars
    BY <1>1
  <1>3. QED
    BY <1>2, SoleAlways, PTL DEF Spec, NukeLeavesNothing

(* A status() leaves one entry per instance it reports, with the group     *)
(* that AWS reports for it, and none for any other name.                   *)
THEOREM StatusWritesTags == ASSUME Alone PROVE Spec => StateTellsTags
  <1>1. ASSUME SoleInv, [Next]_vars, NEW k \in Kernels, pc[k] = "done", result'[k] = "ok", NEW n \in Names
        PROVE  LET here == {r \in mem[k].found : box[r.id].name = n} IN
               IF here = {} THEN file[n] = None
               ELSE \E r \in here : file[n] = box[r.id].sg
    <2>1. TypeInv /\ Local(k) /\ result[k] = "none"
      BY <1>1 DEF SoleInv, Open
    <2>2. Done(k)
      BY <1>1, <2>1, OwnStep, LeavesDone
    <2>3. call[k].op = "status"
      BY <1>1, <2>1, <2>2 DEF Done, Return, TypeInv, TypeOK
    <2>4. mem[k].put = {} /\ mem[k].drop = {}
      BY <1>1, <2>1 DEF Local, Filing, Between
    <2>5. \A r \in mem[k].found : r.sg = box[r.id].sg
      BY <2>1 DEF Local, Truth, Sound
    <2>6. /\ file[n] # None => \E r \in mem[k].found : box[r.id].name = n
          /\ \A r \in mem[k].found :
                \E q \in mem[k].found : box[q.id].name = box[r.id].name /\ file[box[r.id].name] = q.sg
      BY <1>1, <2>1, <2>3, <2>4 DEF Local, Recorded
    <2>7. QED
      BY <2>5, <2>6
  <1>2. SoleInv /\ [Next]_vars =>
          [\A k \in Kernels : pc[k] = "done" /\ result'[k] = "ok" =>
              \A n \in Names :
                 LET here == {r \in mem[k].found : box[r.id].name = n} IN
                 IF here = {} THEN file[n] = None
                 ELSE \E r \in here : file[n] = box[r.id].sg]_vars
    BY <1>1
  <1>3. QED
    BY <1>2, SoleAlways, PTL DEF Spec, StateTellsTags

=============================================================================
