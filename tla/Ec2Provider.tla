------------------------------ MODULE Ec2Provider ------------------------------
(***************************************************************************)
(* The EC2 provider of dnslab (dnslab/providers/ec2.py): instances, their  *)
(* security groups and the state file.                                     *)
(*                                                                         *)
(* Every launch gets a security group of its own (dnslab-<session uuid>).  *)
(* Name, profile and a fingerprint of the user data are tags of the        *)
(* instance, which run_instances writes together with the instance; the    *)
(* state file remembers, by instance name, which group belongs to it.      *)
(* discover() joins the two and rewrites the file.  Kernels share account  *)
(* and file without a lock.                                                *)
(*                                                                         *)
(* Each AWS request, and each load and save of the file, is a step; any    *)
(* request may fail, kernels crash anywhere, users pause instances in the  *)
(* console, and the public address of the lab changes.  Abstracted: a      *)
(* profile with its rendered user data and instance type is a member of    *)
(* Confs; waits have no clock, they may give up whenever what they wait    *)
(* for is not there yet; of a state-file entry only the group is kept, the *)
(* only field the code ever reads back.                                    *)
(***************************************************************************)
EXTENDS Integers

CONSTANTS
    Kernels,    \* processes that import dnslab
    Calls,      \* Calls[k]: the operations k calls
    Names,      \* instance names
    Clients,    \* the names whose server has no listener: ready when SSM is online
    Confs,      \* profile and user data
    Ids,        \* instance ids, given out by AWS
    Groups,     \* security group ids
    Addrs,      \* public addresses of the lab
    None        \* no id, no group, no address

Ops == {"start", "stop", "status", "nuke"}

ASSUME Ec2Assumption ==
    /\ Calls \in [Kernels -> SUBSET Ops]
    /\ Clients \subseteq Names
    /\ None \notin Ids \cup Groups \cup Addrs

VARIABLES
    box,      \* box[b]: the EC2 instance b
    group,    \* group[g]: the security group g
    iam,      \* the parts of the IAM role and instance profile dnslab-ssm that exist
    file,     \* file[n]: the group of the entry for n in the state file, None without entry
    addr,     \* the public address of the lab
    pc,       \* pc[k]: the next step of kernel k
    call,     \* call[k]: the call k is in
    mem,      \* mem[k]: the locals of that call
    result    \* result[k]: how the last call of k ended

aws  == <<box, group, iam>>
vars == <<aws, file, addr, pc, call, mem, result>>

-----------------------------------------------------------------------------
(* Instances, groups and the state file.                                   *)

(* ACTIVE_STATES; the subset start() looks for its match in.               *)
ActiveStatesBilled == {"pending", "running", "shutting-down"}   \* mutant: paused ones forgotten
ActiveStates == {"pending", "running", "shutting-down", "stopping", "stopped"}
MatchStatesUp == {"pending", "running"}                         \* mutant: paused ones not resumed
MatchStates  == {"pending", "running", "stopping", "stopped"}

Box == [state : {"unborn", "pending", "running", "stopping", "stopped",
                 "shutting-down", "terminated"},
        name  : Names \cup {None},
        conf  : Confs \cup {None},      \* tags dnslab-profile and dnslab-confhash
        sg    : Groups \cup {None},
        ip    : BOOLEAN,                \* has a public address
        up    : BOOLEAN]                \* the server (a client: its SSM agent) is up

Unborn == [state |-> "unborn", name |-> None, conf |-> None, sg |-> None,
           ip |-> FALSE, up |-> FALSE]

Group == [exists : BOOLEAN, open : SUBSET Addrs]    \* open: addresses with ingress

NoGroup == [exists |-> FALSE, open |-> {}]
NoFile  == [n \in Names |-> None]

(* The role, the policy attached to it, the instance profile, the role in  *)
(* it: an SSM agent gets online with all four.                             *)
IamParts == {"role", "policy", "profile", "member"}

Active(b) == box[b].state \in ActiveStates
Live(b)   == box[b].state \in {"pending", "running", "stopping", "stopped"}

(* AWS refuses to delete a group (DependencyViolation) while an instance   *)
(* that is not terminated holds it.                                        *)
InUse(g) == \E b \in Ids : box[b].sg = g /\ box[b].state \notin {"unborn", "terminated"}

(* An Instance as discover() and start() build it.                         *)
Ref   == [id : Ids, sg : Groups, ip : BOOLEAN]
NoRef == [sg |-> None, ip |-> FALSE, id |-> None]

(* What a probe meets: UDP/53 on the public address, let in by the group;  *)
(* for a client the SSM agent.                                             *)
Ready(b) ==
    /\ box[b].state = "running" /\ box[b].up
    /\ box[b].name \in Clients \/ addr \in group[box[b].sg].open

-----------------------------------------------------------------------------
(* Calls.                                                                  *)

Call == [op : Ops, names : SUBSET Names, conf : Confs \cup {None},
         wait : BOOLEAN, force : BOOLEAN]

NoCall == [conf |-> None, op |-> "status", names |-> {}, wait |-> FALSE, force |-> FALSE]

Mem == [st    : [Names -> Groups \cup {None}],   \* the dict of the last load_state
        found : SUBSET Ref,                      \* what discover() returned
        drop  : SUBSET Names,                    \* still to _forget
        put   : SUBSET Ref,                      \* still to _remember
        ret   : {"done", "reuse", "select", "delete_sg", "wait"},  \* where to go on after that
        cur   : Ref \cup {NoRef},                \* the instance at hand
        match : Ids \cup {None},                 \* match_id
        sg    : Groups \cup {None},              \* the group of the launch
        gone  : SUBSET Groups,                   \* groups nuke() still has to delete
        via   : Addrs \cup {None}]               \* the address that was authorised

NoMem == [sg |-> None, st |-> NoFile, found |-> {}, drop |-> {}, put |-> {}, ret |-> "done",
          cur |-> NoRef, match |-> None, gone |-> {}, via |-> None]

Init ==
    /\ box = [b \in Ids |-> Unborn]
    /\ group = [g \in Groups |-> NoGroup]
    /\ iam = {}
    /\ file = NoFile
    /\ addr \in Addrs
    /\ pc = [k \in Kernels |-> "idle"]
    /\ call = [k \in Kernels |-> NoCall]
    /\ mem = [k \in Kernels |-> NoMem]
    /\ result = [k \in Kernels |-> "none"]

Goto(k, label) == pc' = [pc EXCEPT ![k] = label] /\ UNCHANGED <<call, result>>

Return(k, outcome) ==
    /\ pc' = [pc EXCEPT ![k] = "idle"]
    /\ mem' = [mem EXCEPT ![k] = NoMem]
    /\ call' = [call EXCEPT ![k] = NoCall]
    /\ result' = [result EXCEPT ![k] = outcome]

Raise(k) == Return(k, "error") /\ UNCHANGED <<aws, file, addr>>

Enter(k, c, label, locals) ==
    /\ pc[k] = "idle" /\ c.op \in Calls[k]
    /\ call' = [call EXCEPT ![k] = c]
    /\ mem' = [mem EXCEPT ![k] = locals]
    /\ pc' = [pc EXCEPT ![k] = label]
    /\ result' = [result EXCEPT ![k] = "none"]
    /\ UNCHANGED <<aws, file, addr>>

(* start() renders the user data and looks for a match, unless forced.     *)
CallStart(k) ==
    \E n \in Names, c \in Confs, w, f \in BOOLEAN :
        Enter(k, [op |-> "start", names |-> {n}, conf |-> c, wait |-> w, force |-> f],
              IF f THEN "known" ELSE "match", [NoMem EXCEPT !.ret = "select"])

CallStop(k) ==
    \E ns \in SUBSET Names \ {{}} :
        Enter(k, [NoCall EXCEPT !.op = "stop", !.names = ns], "known",
              [NoMem EXCEPT !.ret = "select"])

CallStatus(k) == Enter(k, NoCall, "known", NoMem)

(* nuke() begins with its first request.                                   *)
CallNuke(k) ==
    Enter(k, [NoCall EXCEPT !.op = "nuke"], "nuke_terminate",
          [NoMem EXCEPT !.found = {[id |-> b, sg |-> box[b].sg, ip |-> box[b].ip] :
                                       b \in {b \in Ids : Active(b)}}])

-----------------------------------------------------------------------------
(* The state file.  save_state truncates and rewrites it: meanwhile a      *)
(* reader finds no JSON, which load_state takes for an empty state.        *)

Loads(k) == {file} \cup {f \in {NoFile} : \E j \in Kernels \ {k} : pc[j] = "save"}

(* _forget, then _remember of every instance, each a load and a save.      *)
LoadState(k) ==
    /\ pc[k] = "load"
    /\ mem[k].drop # {} \/ mem[k].put # {}
    /\ \E f \in Loads(k) : mem' = [mem EXCEPT ![k].st = f]
    /\ Goto(k, "save")
    /\ UNCHANGED <<aws, file, addr>>

SaveForget(k) ==
    /\ pc[k] = "save" /\ mem[k].drop # {}
    /\ file' = [n \in Names |-> IF n \in mem[k].drop THEN None ELSE mem[k].st[n]]
    /\ mem' = [mem EXCEPT ![k].drop = {}]
    /\ Goto(k, "load")
    /\ UNCHANGED <<aws, addr>>

SaveRemember(k) ==
    /\ pc[k] = "save" /\ mem[k].drop = {}
    /\ \E r \in mem[k].put :
        /\ file' = [mem[k].st EXCEPT ![box[r.id].name] = r.sg]
        /\ mem' = [mem EXCEPT ![k].put = @ \ {r}]
    /\ Goto(k, "load")
    /\ UNCHANGED <<aws, addr>>

SaveDone(k) ==
    /\ pc[k] = "load" /\ mem[k].drop = {} /\ mem[k].put = {}
    /\ Goto(k, mem[k].ret)
    /\ UNCHANGED <<aws, file, addr, mem>>

-----------------------------------------------------------------------------
(* discover(): the file first, then the tags.                              *)

Discover(k, label) ==
    /\ Goto(k, "known")
    /\ mem' = [mem EXCEPT ![k].ret = label]
    /\ UNCHANGED <<aws, file, addr>>

LoadKnown(k) ==
    /\ pc[k] = "known"
    /\ \E f \in Loads(k) : mem' = [mem EXCEPT ![k].st = f]
    /\ Goto(k, "describe")
    /\ UNCHANGED <<aws, file, addr>>

(* The group of an instance: the file's word before that of AWS.           *)
SgOfFile(k, b) == mem[k].st[box[b].name]              \* mutant: the file's word only
SgOf(k, b) == IF mem[k].st[box[b].name] # None THEN mem[k].st[box[b].name] ELSE box[b].sg

(* Mutant: state entries are never dropped.                                *)
StaleNone(k) == {}
Stale(k) ==
    {n \in Names : mem[k].st[n] # None /\ ~\E b \in Ids : Active(b) /\ box[b].name = n}

Describe(k) ==
    /\ pc[k] = "describe"
    /\ LET out == {[id |-> b, sg |-> SgOf(k, b), ip |-> box[b].ip] :
                       b \in {b \in Ids : Active(b)}} IN
       mem' = [mem EXCEPT ![k].found = out, ![k].put = out, ![k].drop = Stale(k)]
    /\ Goto(k, "load")
    /\ UNCHANGED <<aws, file, addr>>

(* The instances a stop() is for, or that a start() replaces.              *)
Select(k) ==
    /\ pc[k] = "select"
    /\ mem' = [mem EXCEPT ![k].found = {r \in @ : box[r.id].name \in call[k].names}]
    /\ Goto(k, "stop")
    /\ UNCHANGED <<aws, file, addr>>

-----------------------------------------------------------------------------
(* start(): reuse and resume.                                              *)

MatchesName(k, b) ==                                  \* mutant: no fingerprint
    box[b].state \in MatchStates /\ box[b].name \in call[k].names

Candidate(k, b) == box[b].state \in MatchStates /\ box[b].name \in call[k].names
Matches(k, b)   == Candidate(k, b) /\ box[b].conf = call[k].conf

(* The first instance of the name decides; AWS lists in any order.         *)
MatchNone(k) ==
    /\ pc[k] = "match"
    /\ \/ \A b \in Ids : ~Candidate(k, b)
       \/ \E b \in Ids : Candidate(k, b) /\ ~Matches(k, b)
    /\ Discover(k, "select")

MatchFound(k) ==
    /\ pc[k] = "match"
    /\ \E b \in Ids :
        /\ Matches(k, b)
        /\ mem' = [mem EXCEPT ![k].match = b, ![k].ret = "reuse"]
        /\ Goto(k, CASE box[b].state = "stopping" -> "await_stopped"
                     [] box[b].state = "stopped"  -> "resume"
                     [] OTHER                     -> "known")
    /\ UNCHANGED <<aws, file, addr>>

AwaitStopped(k) ==
    /\ pc[k] = "await_stopped" /\ box[mem[k].match].state = "stopped"
    /\ Goto(k, "resume")
    /\ UNCHANGED <<aws, file, addr, mem>>

(* start_instances is a no-op for an instance that is on its way up.       *)
Resume(k) ==
    /\ pc[k] = "resume" /\ box[mem[k].match].state \in {"stopped", "pending", "running"}
    /\ box' = [box EXCEPT ![mem[k].match].state = IF @ = "stopped" THEN "pending" ELSE @]
    /\ Goto(k, "await_resumed")
    /\ UNCHANGED <<group, iam, file, addr, mem>>

AwaitResumed(k) ==
    /\ pc[k] = "await_resumed" /\ box[mem[k].match].state = "running"
    /\ Discover(k, "reuse")

(* The match is looked up again by name among what discover() returned.    *)
Reuse(k) ==
    /\ pc[k] = "reuse"
    /\ \E r \in mem[k].found :
        /\ box[r.id].name \in call[k].names
        /\ mem' = [mem EXCEPT ![k].cur = r]
    /\ Goto(k, "authorize")
    /\ UNCHANGED <<aws, file, addr>>

ReuseVanished(k) ==
    /\ pc[k] = "reuse"
    /\ \A r \in mem[k].found : box[r.id].name \notin call[k].names
    /\ Discover(k, "select")

(* Mutant: a group that already lets somebody in is not touched.           *)
AuthorizeOnce(k) ==
    /\ pc[k] = "authorize" /\ group[mem[k].cur.sg].exists
    /\ group' = [group EXCEPT ![mem[k].cur.sg].open = IF @ = {} THEN {addr} ELSE @]
    /\ mem' = [mem EXCEPT ![k].via = addr]
    /\ Goto(k, "reuse_wait")
    /\ UNCHANGED <<box, iam, file, addr>>

Authorize(k) ==
    /\ pc[k] = "authorize" /\ group[mem[k].cur.sg].exists
    /\ group' = [group EXCEPT ![mem[k].cur.sg].open = @ \cup {addr}]
    /\ mem' = [mem EXCEPT ![k].via = addr]
    /\ Goto(k, "reuse_wait")
    /\ UNCHANGED <<box, iam, file, addr>>

-----------------------------------------------------------------------------
(* Waiting until the server answers, on a reused instance (reuse_wait) and *)
(* on a new one (wait).                                                    *)

Waiting(k)  == pc[k] \in {"reuse_wait", "wait"}
Probed(k)   == call[k].wait /\ box[mem[k].cur.id].name \notin Clients

(* _wait_healthy raises at once for an instance without public address.    *)
WaitNoAddress(k) ==
    /\ Waiting(k) /\ Probed(k) /\ ~mem[k].cur.ip
    /\ Return(k, "no_address")
    /\ UNCHANGED <<aws, file, addr>>

(* Ready, or not waited for: remember it and return it.                    *)
WaitReady(k) ==
    /\ Waiting(k)
    /\ Probed(k) => mem[k].cur.ip
    /\ call[k].wait => Ready(mem[k].cur.id)
    /\ mem' = [mem EXCEPT ![k].put = {mem[k].cur}, ![k].ret = "done"]
    /\ Goto(k, "load")
    /\ UNCHANGED <<aws, file, addr>>

WaitTimeout(k) ==
    /\ Waiting(k) /\ call[k].wait /\ ~Ready(mem[k].cur.id)
    /\ Probed(k) => mem[k].cur.ip
    /\ Raise(k)

-----------------------------------------------------------------------------
(* stop(), for every instance selected.                                    *)

Terminated(b) == [box[b] EXCEPT !.state = IF Live(b) THEN "shutting-down" ELSE @, !.up = FALSE]

(* terminate_instances, then _forget: before the group is gone.            *)
Terminate(k) ==
    /\ pc[k] = "stop"
    /\ \E r \in mem[k].found :
        /\ box' = [box EXCEPT ![r.id] = Terminated(r.id)]
        /\ mem' = [mem EXCEPT ![k].cur = r, ![k].found = @ \ {r},
                              ![k].drop = {box[r.id].name}, ![k].ret = "delete_sg"]
    /\ Goto(k, "load")
    /\ UNCHANGED <<group, iam, file, addr>>

(* Mutant: a DependencyViolation counts as deleted.                        *)
DeleteSgQuiet(k) ==
    /\ pc[k] = "delete_sg"
    /\ group' = [group EXCEPT ![mem[k].cur.sg] = IF InUse(mem[k].cur.sg) THEN @ ELSE NoGroup]
    /\ Goto(k, "stop")
    /\ UNCHANGED <<box, iam, file, addr, mem>>

(* The waiter for termination may fail silently; the deletion is retried   *)
(* until nobody holds the group (a group that is gone counts as deleted).  *)
DeleteSg(k) ==
    /\ pc[k] = "delete_sg" /\ ~InUse(mem[k].cur.sg)
    /\ group' = [group EXCEPT ![mem[k].cur.sg] = NoGroup]
    /\ Goto(k, "stop")
    /\ UNCHANGED <<box, iam, file, addr, mem>>

StopDone(k) ==
    /\ pc[k] = "stop" /\ mem[k].found = {}
    /\ IF call[k].op = "start"
       THEN Goto(k, "create_sg") /\ UNCHANGED mem
       ELSE Return(k, "ok")
    /\ UNCHANGED <<aws, file, addr>>

-----------------------------------------------------------------------------
(* start(): the launch.                                                    *)

CreateSg(k) ==
    /\ pc[k] = "create_sg"
    /\ \E g \in Groups :
        /\ ~group[g].exists /\ \A b \in Ids : box[b].sg # g
        /\ \A j \in Kernels : mem[j].sg # g /\ mem[j].cur.sg # g
        /\ group' = [group EXCEPT ![g].exists = TRUE]
        /\ mem' = [mem EXCEPT ![k].sg = g, ![k].via = addr]
    /\ Goto(k, "ingress")
    /\ UNCHANGED <<box, iam, file, addr>>

(* The rules, for the address that was asked for first.                    *)
Ingress(k) ==
    /\ pc[k] = "ingress" /\ group[mem[k].sg].exists
    /\ group' = [group EXCEPT ![mem[k].sg].open = {mem[k].via}]
    /\ Goto(k, IF call[k].names \subseteq Clients THEN "role" ELSE "run")
    /\ UNCHANGED <<box, iam, file, addr, mem>>

(* _ensure_ssm_profile: create the role and attach its policy, create the  *)
(* profile and add the role to it.  What exists already ends the pair.     *)
Ensure(k, at, part, made, exists) ==
    /\ pc[k] = at
    /\ iam' = iam \cup {part}
    /\ Goto(k, IF part \in iam THEN exists ELSE made)
    /\ UNCHANGED <<box, group, file, addr, mem>>

CreateRole(k)    == Ensure(k, "role", "role", "attach", "profile")
AttachPolicy(k)  == Ensure(k, "attach", "policy", "profile", "profile")
CreateProfile(k) == Ensure(k, "profile", "profile", "add_role", "run")
AddRole(k)       == Ensure(k, "add_role", "member", "run", "run")

RunInstances(k) ==
    /\ pc[k] = "run" /\ group[mem[k].sg].exists
    /\ \E b \in Ids, n \in call[k].names :
        /\ box[b].state = "unborn"
        /\ box' = [box EXCEPT ![b] = [state |-> "pending", name |-> n, conf |-> call[k].conf,
                                      sg |-> mem[k].sg, ip |-> FALSE, up |-> FALSE]]
        /\ mem' = [mem EXCEPT ![k].match = b]
    /\ Goto(k, "await_running")
    /\ UNCHANGED <<group, iam, file, addr>>

(* A refused launch deletes the group, once and quietly.                   *)
RunRefused(k) ==
    /\ pc[k] = "run"
    /\ \/ group' = [group EXCEPT ![mem[k].sg] = NoGroup]
       \/ UNCHANGED group
    /\ Return(k, "error")
    /\ UNCHANGED <<box, iam, file, addr>>

AwaitRunning(k) ==
    /\ pc[k] = "await_running" /\ box[mem[k].match].state = "running"
    /\ LET inst == [id |-> mem[k].match, sg |-> mem[k].sg, ip |-> box[mem[k].match].ip] IN
       mem' = [mem EXCEPT ![k].cur = inst, ![k].put = {inst}, ![k].ret = "wait",
                          ![k].match = None]
    /\ Goto(k, "load")
    /\ UNCHANGED <<aws, file, addr>>

(* match tells a reused instance from a new one.                           *)
Done(k) ==
    /\ pc[k] = "done"
    /\ Return(k, IF call[k].op = "status" THEN "ok"
                 ELSE IF mem[k].match # None THEN "reused" ELSE "running")
    /\ UNCHANGED <<aws, file, addr>>

-----------------------------------------------------------------------------
(* nuke().                                                                 *)

NukeTerminate(k) ==
    /\ pc[k] = "nuke_terminate"
    /\ box' = [b \in Ids |-> IF \E r \in mem[k].found : r.id = b THEN Terminated(b) ELSE box[b]]
    /\ Goto(k, "nuke_await")
    /\ UNCHANGED <<group, iam, file, addr, mem>>

(* Mutant: the groups are listed without waiting for the instances.        *)
NukeAwaitNot(k) ==
    /\ pc[k] = "nuke_await"
    /\ mem' = [mem EXCEPT ![k].gone = {g \in Groups : group[g].exists /\ ~InUse(g)}]
    /\ Goto(k, "nuke_groups")
    /\ UNCHANGED <<aws, file, addr>>

(* All terminated; then the groups are listed.                             *)
NukeAwait(k) ==
    /\ pc[k] = "nuke_await"
    /\ \A r \in mem[k].found : box[r.id].state = "terminated"
    /\ mem' = [mem EXCEPT ![k].gone = {g \in Groups : group[g].exists}]
    /\ Goto(k, "nuke_groups")
    /\ UNCHANGED <<aws, file, addr>>

NukeGroup(k) ==
    /\ pc[k] = "nuke_groups"
    /\ \E g \in mem[k].gone :
        /\ ~InUse(g)
        /\ group' = [group EXCEPT ![g] = NoGroup]
        /\ mem' = [mem EXCEPT ![k].gone = @ \ {g}]
    /\ UNCHANGED <<box, iam, file, addr, pc, call, result>>

NukeDone(k) ==
    /\ pc[k] = "nuke_groups" /\ mem[k].gone = {}
    /\ file' = NoFile
    /\ Return(k, "ok")
    /\ UNCHANGED <<aws, addr>>

-----------------------------------------------------------------------------
(* Failures.                                                               *)

(* A request that AWS refuses, or a wait for AWS that gives up, leaves the *)
(* call.  (A refused launch and an unanswered probe have actions of their  *)
(* own; a group that somebody holds is what DeleteSg gives up on.)         *)
AwsFails(k) ==
    /\ pc[k] \in {"match", "await_stopped", "resume", "await_resumed", "authorize", "stop", "delete_sg",
                  "create_sg", "ingress", "role", "attach", "profile", "add_role",
                  "await_running", "nuke_terminate", "nuke_await", "nuke_groups"}
    /\ Raise(k)

(* The facade takes a discover() that fails for a provider that is not     *)
(* there, and stops or reports nothing; in start() the error leaves.       *)
DescribeFails(k) ==
    /\ pc[k] = "describe"
    /\ Return(k, IF call[k].op = "start" THEN "error" ELSE "unavailable")
    /\ UNCHANGED <<aws, file, addr>>

(* A crash in the middle of save_state leaves a file that does not parse.  *)
Crash(k) ==
    /\ pc[k] # "idle"
    /\ Return(k, "crashed")
    /\ file' \in {file} \cup {f \in {NoFile} : pc[k] = "save"}
    /\ UNCHANGED <<aws, addr>>

-----------------------------------------------------------------------------
(* AWS, the servers, the users and the address of the lab.                 *)

Becomes(b, from, to) ==
    /\ box[b].state \in from
    /\ box' = [box EXCEPT ![b] = to]
    /\ UNCHANGED <<group, iam, file, addr, pc, call, mem, result>>

GetsAddress(b) == ~box[b].ip /\ Becomes(b, {"pending"}, [box[b] EXCEPT !.ip = TRUE])
Boots(b)       == Becomes(b, {"pending"}, [box[b] EXCEPT !.state = "running", !.ip = TRUE])
ComesUp(b)     == /\ ~box[b].up
                  /\ box[b].name \in Clients => iam = IamParts
                  /\ Becomes(b, {"running"}, [box[b] EXCEPT !.up = TRUE])
Pauses(b)      == Becomes(b, {"running"}, [box[b] EXCEPT !.state = "stopping", !.up = FALSE])
Paused(b)      == Becomes(b, {"stopping"}, [box[b] EXCEPT !.state = "stopped", !.ip = FALSE])
Ends(b)        == Becomes(b, {"shutting-down"},
                          [box[b] EXCEPT !.state = "terminated", !.ip = FALSE])

Roam ==
    /\ addr' \in Addrs \ {addr}
    /\ UNCHANGED <<aws, file, pc, call, mem, result>>

Kernel(k) ==
    \/ CallStart(k) \/ CallStop(k) \/ CallStatus(k) \/ CallNuke(k)
    \/ LoadState(k) \/ SaveForget(k) \/ SaveRemember(k) \/ SaveDone(k)
    \/ LoadKnown(k) \/ Describe(k) \/ Select(k)
    \/ MatchNone(k) \/ MatchFound(k) \/ AwaitStopped(k) \/ Resume(k) \/ AwaitResumed(k)
    \/ Reuse(k) \/ ReuseVanished(k) \/ Authorize(k)
    \/ WaitNoAddress(k) \/ WaitReady(k) \/ WaitTimeout(k)
    \/ Terminate(k) \/ DeleteSg(k) \/ StopDone(k)
    \/ CreateSg(k) \/ Ingress(k)
    \/ CreateRole(k) \/ AttachPolicy(k) \/ CreateProfile(k) \/ AddRole(k)
    \/ RunInstances(k) \/ RunRefused(k) \/ AwaitRunning(k)
    \/ Done(k)
    \/ NukeTerminate(k) \/ NukeAwait(k) \/ NukeGroup(k) \/ NukeDone(k)
    \/ AwsFails(k) \/ DescribeFails(k) \/ Crash(k)

Environment ==
    \/ Roam
    \/ \E b \in Ids : \/ GetsAddress(b) \/ Boots(b) \/ ComesUp(b)
                      \/ Pauses(b) \/ Paused(b) \/ Ends(b)

Next == Environment \/ \E k \in Kernels : Kernel(k)

Spec == Init /\ [][Next]_vars

-----------------------------------------------------------------------------
(* Properties.                                                             *)

Labels == {"idle", "load", "save", "known", "describe", "done", "select",
           "match", "await_stopped", "resume", "await_resumed", "reuse", "authorize",
           "reuse_wait", "wait", "stop", "delete_sg",
           "create_sg", "ingress", "role", "attach", "profile", "add_role",
           "run", "await_running",
           "nuke_terminate", "nuke_await", "nuke_groups"}

(* Types of what AWS and the file hold, of the calls and of their locals.  *)
TypeOK ==
    /\ box \in [Ids -> Box]
    /\ group \in [Groups -> Group]
    /\ iam \subseteq IamParts
    /\ file \in [Names -> Groups \cup {None}]
    /\ addr \in Addrs
    /\ pc \in [Kernels -> Labels]
    /\ call \in [Kernels -> Call]
    /\ mem \in [Kernels -> Mem]
    /\ result \in [Kernels -> {"none", "ok", "reused", "running", "no_address",
                               "unavailable", "error", "crashed"}]

(* Nobody pays twice: with one kernel there is never a second instance of  *)
(* a name, pending, running or paused, whatever calls failed or were cut   *)
(* short before.                                                           *)
OneLivePerName ==
    \A b, c \in Ids :
        Live(b) /\ Live(c) /\ box[b].name = box[c].name => b = c

(* A start that is not forced never terminates an instance that matches    *)
(* what it was asked for, be it booting or paused.                         *)
Tears(k, b) ==
    /\ call[k].op = "start" /\ ~call[k].force
    /\ pc[k] = "stop" /\ pc'[k] = "load" /\ mem'[k].cur.id = b /\ Live(b)

MatchingSurvives ==
    [][\A k \in Kernels, b \in Ids : Tears(k, b) => box[b].conf # call[k].conf]_vars

(* What a start hands out is an instance of the name, profile and user     *)
(* data it was asked for; start() looks for its match in one search and    *)
(* takes the instance from another one.                                    *)
Started(k) == pc[k] = "done" /\ result'[k] \in {"reused", "running"}

HandsOutMatch ==
    [][\A k \in Kernels : Started(k) =>
           /\ box[mem[k].cur.id].conf = call[k].conf
           /\ box[mem[k].cur.id].name \in call[k].names]_vars

(* The group of an instance that is handed out lets in the address that    *)
(* the lab had during the call, also when the instance is older than the   *)
(* address.                                                                *)
CallerLetIn ==
    [][\A k \in Kernels : Started(k) =>
           mem[k].via \in group[box[mem[k].cur.id].sg].open]_vars

(* Once stop() is through with an instance, the instance is terminated and *)
(* the security group that AWS reports for it is deleted: the group that   *)
(* is deleted is the one the state file names.                             *)
StopRemovesGroup ==
    [][\A k \in Kernels : pc[k] = "delete_sg" /\ pc'[k] = "stop" =>
           LET b == mem[k].cur.id IN
           box[b].state = "terminated" /\ ~group'[box[b].sg].exists]_vars

(* When a nuke() that no other kernel disturbs returns, nothing billed and *)
(* no group is left, including what crashed and failed calls left behind   *)
(* and the state file does not know.                                       *)
Nuked(k) == pc[k] = "nuke_groups" /\ result'[k] = "ok"

NukeLeavesNothing ==
    [][\A k \in Kernels : Nuked(k) =>
           /\ \A b \in Ids : ~Active(b)
           /\ \A g \in Groups : ~group[g].exists
           /\ file' = NoFile]_vars

(* Also while other kernels launch: what nuke() found is terminated when   *)
(* it returns, and its groups are deleted.                                 *)
NukeRemovesFound ==
    [][\A k \in Kernels : Nuked(k) =>
           \A r \in mem[k].found :
               box[r.id].state = "terminated" /\ ~group[box[r.id].sg].exists]_vars

(* A status() leaves a state file with one entry per instance it reports,  *)
(* naming the group that AWS reports for it.                               *)
StateTellsTags ==
    [][\A k \in Kernels : pc[k] = "done" /\ result'[k] = "ok" =>
           \A n \in Names :
               LET here == {r \in mem[k].found : box[r.id].name = n} IN
               IF here = {} THEN file[n] = None
               ELSE \E r \in here : file[n] = box[r.id].sg]_vars

(* A client is launched into a complete role and instance profile, or its  *)
(* SSM agent never gets online.                                            *)
ProfileGrantsSsm ==
    [][\A k \in Kernels : pc[k] = "run" /\ pc'[k] = "await_running" /\ call[k].names \subseteq Clients
           => iam = IamParts]_vars

=============================================================================
