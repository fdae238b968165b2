---------------------------- MODULE DockerProvider ----------------------------
(***************************************************************************)
(* The docker provider of dnslab (dnslab/providers/docker.py) with the     *)
(* calls of the facade that drive it (start, stop, nuke).                  *)
(*                                                                         *)
(* Several kernels (notebooks, terminals) run the provider against one     *)
(* docker daemon and one workspace directory; nothing locks either.  An    *)
(* instance of a DNS server is a container named dnslab-<instance>, with   *)
(* two labels, the profile and a fingerprint of the rendered config, which *)
(* start() compares to tell an unchanged instance from config drift.  The  *)
(* server reads its config file and its certificate from bind mounts when  *)
(* the container starts.                                                   *)
(*                                                                         *)
(* Each request to the daemon and each file operation is a step.  A kernel *)
(* may crash between two of them, a request may fail, a server may hang or *)
(* exit.  Abstracted: the rendered text is a member of Configs, whatever   *)
(* it was rendered from (template, zones, overrides, addresses of the      *)
(* upstream pair, image and command of the manifest), and the fingerprint  *)
(* of a text is the text.  The CA is its generation number; Certs models   *)
(* the files behind it.                                                    *)
(***************************************************************************)
EXTENDS Integers

CONSTANTS
    Kernels,       \* processes that import dnslab
    Instances,     \* instance names
    Profiles,      \* profile names
    Configs,       \* rendered configurations
    Ids,           \* container ids
    None,          \* no container, no text, no call
    Listeners,     \* Listeners[p]: the listeners of profile p
    Starters,      \* Starters[i]: the kernels that start instance i
    Regens,        \* the kernels that call certs.regen()
    ReuseBudget,   \* probes that fit into min(timeout, 15) seconds
    StartBudget,   \* probes that fit into the start timeout
    MaxCa          \* bound on the CA generations

ASSUME DockerAssumption ==
    /\ Listeners \in [Profiles -> SUBSET {"do53", "dot"}]
    /\ Starters \in [Instances -> SUBSET Kernels]
    /\ ReuseBudget \in Nat /\ StartBudget \in Nat /\ ReuseBudget <= StartBudget
    /\ MaxCa \in Nat \ {0}
    /\ None \notin Ids \cup Configs

VARIABLES
    box,          \* box[c]: the container with id c
    configFile,   \* configFile[i]: the config file in the state dir of i
    ca,           \* generation of the CA on disk
    leaf,         \* leaf[i]: the CA generation that signed the leaf of i, 0: no file
    pc,           \* pc[k]: the next step of kernel k
    call,         \* call[k]: the call k is in
    hash,         \* hash[k]: the fingerprint start() computed
    cid,          \* cid[k]: the container object k holds
    left,         \* left[k]: probes left before the deadline of _wait_healthy
    trusted,      \* trusted[k]: the CA generation the next probe of k validates against, 0: not read
    since,        \* history, since[k]: the CA generation when the call began; no guard reads it
    listed,       \* listed[k]: the containers that discover() listed for k
    pending,      \* pending[k]: the names k still has to stop
    result        \* result[k]: how the last call of k ended

disk   == <<configFile, ca, leaf>>
tls    == <<trusted, since>>
locals == <<call, hash, cid, left, tls, listed, pending>>
vars   == <<box, disk, pc, locals, result>>

-----------------------------------------------------------------------------
(* Containers.                                                             *)

(* "unborn" and "removed" are ids the daemon does not know (yet, anymore). *)
(* health is what a query would meet: a server still coming up, one that   *)
(* answers, one that stopped answering.                                    *)
Container == [status   : {"unborn", "created", "running", "exited", "removed"},
              name     : Instances \cup {None},
              profile  : Profiles \cup {None},
              confhash : Configs \cup {None},
              config   : Configs \cup {None},    \* the text the server loaded
              leaf     : 0..MaxCa,               \* the leaf the server loaded
              health   : {"booting", "answering", "hung"}]

Absent(s) == [config |-> None, leaf |-> 0, status |-> s, name |-> None, profile |-> None,
              confhash |-> None, health |-> "booting"]

NewContainer(i, p, h) == [config |-> None, leaf |-> 0, status |-> "created", name |-> i,
                          profile |-> p, confhash |-> h, health |-> "booting"]

Exists(c)  == box[c].status \in {"created", "running", "exited"}
Known      == {c \in Ids : Exists(c)}
Running(c) == box[c].status = "running"
Named(i)   == {c \in Known : box[c].name = i}

(* use_dot of _wait_healthy: the probe speaks DoT only to a profile that   *)
(* has no plain listener, and only then validates the certificate.         *)
UseDot(p) == "do53" \notin Listeners[p]

Remove(c) == box' = [box EXCEPT ![c] = Absent("removed")]

-----------------------------------------------------------------------------
(* Calls.                                                                  *)

StartCall == [op : {"start"}, inst : Instances, profile : Profiles,
              config : Configs, wait : BOOLEAN, force : BOOLEAN]
StopCall  == [op : {"stop"}]

Init ==
    /\ box = [c \in Ids |-> Absent("unborn")]
    /\ configFile = [i \in Instances |-> None]
    /\ ca = 1
    /\ leaf = [i \in Instances |-> 0]
    /\ pc = [k \in Kernels |-> "idle"]
    /\ call = [k \in Kernels |-> None]
    /\ hash = [k \in Kernels |-> None]
    /\ cid = [k \in Kernels |-> None]
    /\ left = [k \in Kernels |-> 0]
    /\ trusted = [k \in Kernels |-> 0]
    /\ since = [k \in Kernels |-> 0]
    /\ listed = [k \in Kernels |-> {}]
    /\ pending = [k \in Kernels |-> {}]
    /\ result = [k \in Kernels |-> "none"]

Goto(k, label) == pc' = [pc EXCEPT ![k] = label] /\ UNCHANGED result

Return(k, outcome) ==
    /\ pc' = [pc EXCEPT ![k] = "idle"]
    /\ result' = [result EXCEPT ![k] = outcome]
    /\ call' = [call EXCEPT ![k] = None]
    /\ hash' = [hash EXCEPT ![k] = None]
    /\ cid' = [cid EXCEPT ![k] = None]
    /\ left' = [left EXCEPT ![k] = 0]
    /\ trusted' = [trusted EXCEPT ![k] = 0]
    /\ since' = [since EXCEPT ![k] = 0]
    /\ listed' = [listed EXCEPT ![k] = {}]
    /\ pending' = [pending EXCEPT ![k] = {}]

(* An exception leaves the call; files and containers stay as they are.    *)
Raise(k) == Return(k, "error") /\ UNCHANGED <<box, disk>>

-----------------------------------------------------------------------------
(* start(), up to the decision to reuse.                                   *)

(* ensure_network and ensure_cert come first: afterwards the leaf on disk  *)
(* is one of the current CA.                                               *)
CallStart(k) ==
    /\ pc[k] = "idle"
    /\ \E c \in StartCall :
        /\ k \in Starters[c.inst]
        /\ call' = [call EXCEPT ![k] = c]
        /\ leaf' = [leaf EXCEPT ![c.inst] = ca]
    /\ pc' = [pc EXCEPT ![k] = "render"]
    /\ result' = [result EXCEPT ![k] = "none"]
    /\ since' = [since EXCEPT ![k] = ca]
    /\ UNCHANGED <<box, configFile, ca, hash, cid, left, trusted, listed, pending>>

(* render() first asks discover() for the upstream pair, then fills the    *)
(* template and writes the file in place.                                  *)
Render(k) ==
    /\ pc[k] = "render"
    /\ configFile' = [configFile EXCEPT ![call[k].inst] = call[k].config]
    /\ Goto(k, "hash")
    /\ UNCHANGED <<box, ca, leaf, locals>>

(* Mutant: the fingerprint of a known container is not computed again.     *)
ConfhashMemoised(k) ==
    /\ pc[k] = "hash"
    /\ \/ \E c \in Named(call[k].inst) : hash' = [hash EXCEPT ![k] = box[c].confhash]
       \/ /\ Named(call[k].inst) = {}
          /\ hash' = [hash EXCEPT ![k] = configFile[call[k].inst]]
    /\ Goto(k, "lookup")
    /\ UNCHANGED <<box, disk, call, cid, left, tls, listed, pending>>

(* _confhash reads the file back.                                          *)
Confhash(k) ==
    /\ pc[k] = "hash"
    /\ hash' = [hash EXCEPT ![k] = configFile[call[k].inst]]
    /\ Goto(k, "lookup")
    /\ UNCHANGED <<box, disk, call, cid, left, tls, listed, pending>>

MatchesProfile(c, k) == Running(c) /\ box[c].profile = call[k].profile   \* mutant: no fingerprint

Matches(c, k) ==
    /\ Running(c)
    /\ box[c].profile = call[k].profile
    /\ box[c].confhash = hash[k]

LookupReuse(k) ==
    /\ pc[k] = "lookup" /\ ~call[k].force
    /\ \E c \in Named(call[k].inst) :
        /\ Matches(c, k)
        /\ cid' = [cid EXCEPT ![k] = c]
    /\ left' = [left EXCEPT ![k] = ReuseBudget]
    /\ Goto(k, "reuse_wait")
    /\ UNCHANGED <<box, disk, call, hash, tls, listed, pending>>

LookupRecreate(k) ==
    /\ pc[k] = "lookup"
    /\ call[k].force \/ \A c \in Named(call[k].inst) : ~Matches(c, k)
    /\ Goto(k, "image")
    /\ UNCHANGED <<box, disk, locals>>

-----------------------------------------------------------------------------
(* _wait_healthy, on a matching container (reuse_wait) and on a new one    *)
(* (wait).  reload() and logs() raise NotFound when the container is gone, *)
(* which no caller catches.                                                *)

Waiting(k) == pc[k] \in {"reuse_wait", "wait"}
Probing(k) == Waiting(k) /\ left[k] > 0

WaitGone(k) ==
    /\ Waiting(k) /\ ~Exists(cid[k])
    /\ Raise(k)

(* A probe over DoT first reads the CA certificate into its TLS context.   *)
WaitReadCa(k) ==
    /\ Probing(k) /\ Running(cid[k])
    /\ UseDot(call[k].profile) /\ trusted[k] = 0
    /\ trusted' = [trusted EXCEPT ![k] = ca]
    /\ UNCHANGED <<box, disk, pc, call, hash, cid, left, since, listed, pending, result>>

(* The probe then connects, and the server of the moment answers or not.   *)
ProbeReady(k) == UseDot(call[k].profile) => trusted[k] # 0

AnswersUnvalidated(k) ==                                    \* mutant: CERT_NONE
    Running(cid[k]) /\ box[cid[k]].health = "answering"
Answers(k) ==
    /\ Running(cid[k]) /\ box[cid[k]].health = "answering"
    /\ UseDot(call[k].profile) => box[cid[k]].leaf = trusted[k]

WaitAnswered(k) ==
    /\ Probing(k) /\ ProbeReady(k)
    /\ Answers(k)
    /\ Return(k, IF pc[k] = "wait" THEN "running" ELSE "reused")
    /\ UNCHANGED <<box, disk>>

(* Mutants: a loop that forgets the deadline; one that forgets to count.   *)
WaitRetryLate(k) ==
    /\ Waiting(k) /\ Running(cid[k]) /\ ProbeReady(k) /\ ~Answers(k)
    /\ left' = [left EXCEPT ![k] = @ - 1]
    /\ trusted' = [trusted EXCEPT ![k] = 0]
    /\ UNCHANGED <<box, disk, pc, call, hash, cid, since, listed, pending, result>>

WaitRetryForever(k) ==
    /\ Probing(k) /\ Running(cid[k]) /\ ProbeReady(k) /\ ~Answers(k)
    /\ UNCHANGED vars

WaitRetry(k) ==
    /\ Probing(k) /\ Running(cid[k]) /\ ProbeReady(k) /\ ~Answers(k)
    /\ left' = [left EXCEPT ![k] = @ - 1]
    /\ trusted' = [trusted EXCEPT ![k] = 0]
    /\ UNCHANGED <<box, disk, pc, call, hash, cid, since, listed, pending, result>>

(* RuntimeError (exited) or TimeoutError (deadline): a reuse falls through *)
(* to recreate, a new container is reported and left behind.               *)
WaitFailed(k) ==
    /\ Waiting(k) /\ Exists(cid[k])
    /\ left[k] = 0 \/ box[cid[k]].status = "exited"
    /\ IF pc[k] = "wait"
       THEN Raise(k)
       ELSE /\ Goto(k, "image")
            /\ cid' = [cid EXCEPT ![k] = None]
            /\ left' = [left EXCEPT ![k] = 0]
            /\ trusted' = [trusted EXCEPT ![k] = 0]
            /\ UNCHANGED <<box, disk, call, hash, since, listed, pending>>

-----------------------------------------------------------------------------
(* start(), the recreation.                                                *)

(* Build the image, or pull it unless it is there.                         *)
Image(k) ==
    /\ pc[k] = "image"
    /\ Goto(k, "remove")
    /\ UNCHANGED <<box, disk, locals>>

(* Mutant: only a running container is removed.                            *)
RemoveOldRunning(k) ==
    /\ pc[k] = "remove"
    /\ \/ \E c \in Named(call[k].inst) : Running(c) /\ Remove(c)
       \/ (\A c \in Named(call[k].inst) : ~Running(c)) /\ UNCHANGED box
    /\ Goto(k, "create")
    /\ UNCHANGED <<disk, locals>>

RemoveOld(k) ==
    /\ pc[k] = "remove"
    /\ \/ \E c \in Named(call[k].inst) : Remove(c)
       \/ Named(call[k].inst) = {} /\ UNCHANGED box
    /\ Goto(k, "create")
    /\ UNCHANGED <<disk, locals>>

Create(k) ==
    /\ pc[k] = "create" /\ Named(call[k].inst) = {}
    /\ \E c \in Ids :
        /\ box[c].status = "unborn"
        /\ box' = [box EXCEPT ![c] =
                     NewContainer(call[k].inst, call[k].profile, hash[k])]
        /\ cid' = [cid EXCEPT ![k] = c]
    /\ Goto(k, "connect")
    /\ UNCHANGED <<disk, call, hash, left, tls, listed, pending>>

(* 409 Conflict: the name is in use.                                       *)
CreateConflict(k) ==
    /\ pc[k] = "create" /\ Named(call[k].inst) # {}
    /\ Raise(k)

Connect(k) ==
    /\ pc[k] = "connect" /\ Exists(cid[k])
    /\ Goto(k, "boot")
    /\ UNCHANGED <<box, disk, locals>>

(* container.start(): the server reads the mounted files as they are now.  *)
Boot(k) ==
    /\ pc[k] = "boot" /\ Exists(cid[k])
    /\ box' = [box EXCEPT ![cid[k]] =
                 [@ EXCEPT !.status = "running",
                           !.config = configFile[call[k].inst],
                           !.leaf = leaf[call[k].inst]]]
    /\ Goto(k, "inspect")
    /\ UNCHANGED <<disk, locals>>

(* The address of the new container.  Without wait this ends the call; the  *)
(* code says "running" here too, "launched" marks that nothing was checked. *)
Inspect(k) ==
    /\ pc[k] = "inspect" /\ Exists(cid[k])
    /\ IF call[k].wait
       THEN /\ left' = [left EXCEPT ![k] = StartBudget]
            /\ Goto(k, "wait")
            /\ UNCHANGED <<call, hash, cid, tls, listed, pending>>
       ELSE Return(k, "launched")
    /\ UNCHANGED <<box, disk>>

(* The new container was removed under the call.                           *)
NewContainerGone(k) ==
    /\ pc[k] \in {"connect", "boot", "inspect"} /\ ~Exists(cid[k])
    /\ Raise(k)

(* Whatever the daemon, the registry or the template engine may refuse: a  *)
(* listed container that is gone, an undefined variable, a failed build or *)
(* pull, a full disk, a network that cannot be joined.                     *)
StartRaises(k) ==
    /\ pc[k] \in {"render", "image", "create", "connect", "boot"}
    /\ Raise(k)

-----------------------------------------------------------------------------
(* stop(name), stop(all=True) and nuke(): discover, then remove by name.   *)

CallStop(k) ==
    /\ pc[k] = "idle"
    /\ \E names \in SUBSET Instances :
        pending' = [pending EXCEPT ![k] = names \cap {box[c].name : c \in Known}]
    /\ listed' = [listed EXCEPT ![k] = Known]
    /\ call' = [call EXCEPT ![k] = [op |-> "stop"]]
    /\ pc' = [pc EXCEPT ![k] = "discover"]
    /\ result' = [result EXCEPT ![k] = "none"]
    /\ UNCHANGED <<box, disk, hash, cid, left, tls>>

(* discover() asks for the address of every container it listed; one that  *)
(* goes away meanwhile may or may not be noticed.                          *)
Discover(k) ==
    /\ pc[k] = "discover"
    /\ listed' = [listed EXCEPT ![k] = {c \in @ \cap Known : box[c].name \in pending[k]}]
    /\ Goto(k, "stop")
    /\ UNCHANGED <<box, disk, call, hash, cid, left, tls, pending>>

DiscoverRaises(k) ==
    /\ pc[k] = "discover"
    /\ ~(listed[k] \subseteq Known)
    /\ Raise(k)

(* Mutant: containers that do not run are skipped.                         *)
StopGetRunning(k) ==
    /\ pc[k] = "stop"
    /\ \E i \in pending[k] :
        /\ pending' = [pending EXCEPT ![k] = @ \ {i}]
        /\ \/ /\ \E c \in Named(i) : Running(c) /\ cid' = [cid EXCEPT ![k] = c]
              /\ Goto(k, "stop_remove")
           \/ /\ \A c \in Named(i) : ~Running(c)
              /\ UNCHANGED <<pc, cid, result>>
    /\ UNCHANGED <<box, disk, call, hash, left, tls, listed>>

StopGet(k) ==
    /\ pc[k] = "stop"
    /\ \E i \in pending[k] :
        /\ pending' = [pending EXCEPT ![k] = @ \ {i}]
        /\ \/ /\ \E c \in Named(i) : cid' = [cid EXCEPT ![k] = c]
              /\ Goto(k, "stop_remove")
           \/ /\ Named(i) = {}
              /\ UNCHANGED <<pc, cid, result>>
    /\ UNCHANGED <<box, disk, call, hash, left, tls, listed>>

StopRemove(k) ==
    /\ pc[k] = "stop_remove" /\ Exists(cid[k])
    /\ Remove(cid[k])
    /\ cid' = [cid EXCEPT ![k] = None]
    /\ Goto(k, "stop")
    /\ UNCHANGED <<disk, call, hash, left, tls, listed, pending>>

(* Somebody else removed it between the two requests: NotFound escapes.    *)
StopRemoveGone(k) ==
    /\ pc[k] = "stop_remove" /\ ~Exists(cid[k])
    /\ Raise(k)

StopDone(k) ==
    /\ pc[k] = "stop" /\ pending[k] = {}
    /\ Return(k, "ok")
    /\ UNCHANGED <<box, disk>>

-----------------------------------------------------------------------------
(* certs.regen(): a new CA, no leaf left.                                  *)
Regen(k) ==
    /\ pc[k] = "idle" /\ k \in Regens
    /\ ca < MaxCa
    /\ ca' = ca + 1
    /\ leaf' = [i \in Instances |-> 0]
    /\ UNCHANGED <<box, configFile, pc, locals, result>>

(* The kernel dies or the cell is interrupted.                             *)
Crash(k) ==
    /\ pc[k] # "idle"
    /\ Return(k, "crashed")
    /\ UNCHANGED <<box, disk>>

-----------------------------------------------------------------------------
(* The servers.                                                            *)

Health(c, from, to) ==
    /\ Running(c) /\ box[c].health = from
    /\ box' = [box EXCEPT ![c].health = to]
    /\ UNCHANGED <<disk, pc, locals, result>>

ServerReady(c) == Health(c, "booting", "answering")
ServerHangs(c) == Health(c, "answering", "hung")
ServerExits(c) ==
    /\ Running(c)
    /\ box' = [box EXCEPT ![c].status = "exited"]
    /\ UNCHANGED <<disk, pc, locals, result>>

-----------------------------------------------------------------------------
Start(k) ==
    \/ Render(k) \/ Confhash(k)
    \/ LookupReuse(k) \/ LookupRecreate(k)
    \/ WaitGone(k) \/ WaitReadCa(k) \/ WaitAnswered(k) \/ WaitRetry(k) \/ WaitFailed(k)
    \/ Image(k) \/ RemoveOld(k) \/ Create(k) \/ CreateConflict(k)
    \/ Connect(k) \/ Boot(k) \/ Inspect(k) \/ NewContainerGone(k)
    \/ StartRaises(k)

Stop(k) ==
    \/ Discover(k) \/ DiscoverRaises(k)
    \/ StopGet(k) \/ StopRemove(k) \/ StopRemoveGone(k) \/ StopDone(k)

Kernel(k) == CallStart(k) \/ Start(k) \/ CallStop(k) \/ Stop(k) \/ Regen(k) \/ Crash(k)

Server(c) == ServerReady(c) \/ ServerHangs(c) \/ ServerExits(c)

Next == (\E k \in Kernels : Kernel(k)) \/ (\E c \in Ids : Server(c))

Spec == Init /\ [][Next]_vars

(* A kernel in a call goes on with it: every request to the daemon returns *)
(* and the wait loop sleeps half a second at most.  Nothing obliges it to  *)
(* begin a call, to crash or to regenerate, nor a server to come up.       *)
FairSpec == Spec /\ \A k \in Kernels : WF_vars(Start(k) \/ Stop(k))

-----------------------------------------------------------------------------
(* Properties.                                                             *)

Labels == {"idle", "render", "hash", "lookup", "reuse_wait", "image", "remove",
           "create", "connect", "boot", "inspect", "wait",
           "discover", "stop", "stop_remove"}

(* Types of the containers, of the files and of the locals.                *)
TypeOK ==
    /\ box \in [Ids -> Container]
    /\ configFile \in [Instances -> Configs \cup {None}]
    /\ ca \in 1..MaxCa
    /\ leaf \in [Instances -> 0..MaxCa]
    /\ pc \in [Kernels -> Labels]
    /\ call \in [Kernels -> StartCall \cup StopCall \cup {None}]
    /\ hash \in [Kernels -> Configs \cup {None}]
    /\ cid \in [Kernels -> Ids \cup {None}]
    /\ left \in [Kernels -> Nat]
    /\ trusted \in [Kernels -> 0..MaxCa] /\ since \in [Kernels -> 0..MaxCa]
    /\ listed \in [Kernels -> SUBSET Ids]
    /\ pending \in [Kernels -> SUBSET Instances]
    /\ result \in [Kernels -> {"none", "ok", "reused", "running", "launched", "error", "crashed"}]

(* The hypothesis of the properties below that two concurrent starts of    *)
(* one instance break.                                                     *)
OneStarter == \A i \in Instances : \A j, k \in Starters[i] : j = k

(* The labels of a container tell what its server loaded.  start() trusts  *)
(* them when it decides to reuse; the label is computed from the config    *)
(* file well before the server reads the file.                             *)
LabelsTellConfig ==
    \A c \in Ids : box[c].status \in {"running", "exited"} =>
        box[c].confhash = box[c].config

(* A start that returns after waiting, reused or fresh, hands out a        *)
(* running server of the instance, profile and config it was asked for,    *)
(* and one that has just answered.                                         *)
HandsOut(k) == Waiting(k) /\ result'[k] \in {"running", "reused"}

AsAsked(k) ==
    /\ box[cid[k]].status = "running" /\ box[cid[k]].health = "answering"
    /\ box[cid[k]].name = call[k].inst
    /\ box[cid[k]].profile = call[k].profile
    /\ box[cid[k]].config = call[k].config

StartDelivers == [][\A k \in Kernels : HandsOut(k) => AsAsked(k)]_vars

(* start() never meets its own name: between the removal of the old        *)
(* container and the creation of the new one nobody takes the name, even   *)
(* when an earlier start crashed half-way and left a container behind.     *)
NoNameConflict ==
    \A k \in Kernels : pc[k] = "create" => Named(call[k].inst) = {}

(* When stop() or nuke() returns, none of the containers it found is left, *)
(* whoever else starts and stops at the same time.                         *)
TeardownComplete ==
    [][\A k \in Kernels : pc[k] = "stop" /\ result'[k] = "ok" /\ pc'[k] = "idle" =>
           \A c \in listed[k] : ~Exists(c)]_vars

(* A server that a start hands out presents a leaf of a CA that was on     *)
(* disk during the call, if it has a DoT listener at all: never one of a   *)
(* CA that had been regenerated before the call began, though the CA may   *)
(* be regenerated between the reading of the CA and the probe, or between  *)
(* the issue of the leaf and the boot of the server that loads it.         *)
HandsOutTrustedTls ==
    [][\A k \in Kernels :
           HandsOut(k) /\ "dot" \in Listeners[call[k].profile]
               => box[cid[k]].leaf \in since[k]..ca]_vars

(* A matching container that is still coming up is not relaunched.         *)
BootingIsWaitedFor ==
    [][\A k \in Kernels, c \in Ids :
           /\ pc[k] = "remove" /\ pc'[k] = "create" /\ ~call[k].force
           /\ c \in Named(call[k].inst) /\ Matches(c, k)
           => box[c].health # "booting"]_vars

(* Every call comes back, whatever the servers do: all waits are bounded.  *)
CallsReturn == \A k \in Kernels : pc[k] # "idle" ~> pc[k] = "idle"

=============================================================================
